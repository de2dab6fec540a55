----------------------- MODULE JournalEvidence_proofs -----------------------
(* Proofs about Journal, for one editor at a time: what a session that ended *)
(* had not saved can be rebuilt until it is saved or given up.               *)
(*                                                                           *)
(* The invariant says, of everything owed, in which journal it is and on     *)
(* which text that is to be replayed (Found), and the same of what a power   *)
(* cut could still take (Later); of the session under way, that what it      *)
(* would be owed is in the journal it continues (Guarded); and of the names, *)
(* that an editor never takes one of those journals for its own (Stores,     *)
(* Keeps).                                                                   *)
EXTENDS Journal_proofs

-----------------------------------------------------------------------------
(* What is kept for recovery.                                                *)

(* What replaying a journal file on a text gives.                            *)
Gives(x, t) == Leads(ValidPrefix(x.recs), t)

(* A base is the one a header names.                                         *)
Like(b, h) ==
  /\ b.kind = h.base.kind
  /\ IF b.kind = "link" THEN b.ino = h.ino ELSE b = h.base

(* The journals a directory names; whether it has the base of one of them;   *)
(* whether the file a header names is still what it was.                     *)
NamesIn(d) == {d.j} \cup d.oldj
Beside(d, f, h) ==
  \E b \in d.oldb \cup (IF d.j = f THEN {d.b} ELSE {}) : Like(b, h)
Intact(D, h) == h.base.kind = "link" => D[h.ino].mtime = h.mtime

(* In all of the directories Ds, journal f can be replayed on text t: its    *)
(* base is there, or t is in a backup, or a discard removed the base.        *)
Bears(D, K, Ds, f, h, t, B) ==
  /\ h # NoHeader /\ t \in Texts /\ Grounds(D, h) \subseteq {t}
  /\ \A d \in Ds : f \in NamesIn(d)
  /\ \/ f \in K \/ t \in B
     \/ Intact(D, h) /\ \A d \in Ds : Beside(d, f, h)

(* Every state of a journal file in X is replayed on t to a text in S.       *)
Told(X, h, t, S) == \A x \in X : x.hdr = h /\ Gives(x, t) \in S
Survivors(x)     == {Survivor(x, n) : n \in x.safe .. Size(x)}

Proper(x) == /\ DOMAIN x = {"hdr", "recs", "safe"} /\ x.recs \in Seq(Recs)
             /\ x.safe \in 0 .. Size(x)

(* What a power cut leaves of a journal with a header.                       *)
LEMMA SurvivorOf ==
  ASSUME NEW x, Proper(x), x.hdr # NoHeader, NEW n \in x.safe .. Size(x), n # 0
  PROVE  /\ Survivor(x, n).hdr = x.hdr /\ Survivor(x, n).safe = n
         /\ Survivor(x, n).recs = SubSeq(x.recs, 1, n - 1)
         /\ n - 1 \in 0 .. Len(x.recs) /\ Len(x.recs) \in Nat
<1>1. Len(x.recs) \in Nat /\ Size(x) = Len(x.recs) + 1 /\ x.safe \in Nat
  BY LenProperties DEF Proper, Size
<1>2. n - 1 \in 0 .. Len(x.recs)
  BY <1>1
<1> QED BY <1>1, <1>2 DEF Survivor, Proper

LEMMA WholeSeq ==
  ASSUME NEW r \in Seq(Recs)
  PROVE  SubSeq(r, 1, Len(r)) = r /\ Len(r) \in Nat
<1>1. Len(r) \in Nat /\ \A i \in 1 .. Len(r) : r[i] \in Recs
  BY LenProperties, ElementOfSeq
<1>2. SubSeq(r, 1, Len(r)) \in Seq(Recs) /\ Len(SubSeq(r, 1, Len(r))) = Len(r)
      /\ \A i \in 1 .. Len(r) : SubSeq(r, 1, Len(r))[i] = r[i]
  BY <1>1, SubSeqRecs
<1> QED BY <1>1, <1>2, SeqEqual

(* What every state a power cut may leave says, the whole journal says.      *)
LEMMA ToldWhole ==
  ASSUME NEW x, Proper(x), NEW h, h # NoHeader, NEW t, NEW S, x.hdr = h,
         Told(Survivors(x), h, t, S)
  PROVE  Told({x}, h, t, S)
<1>1. Len(x.recs) \in Nat /\ Size(x) = Len(x.recs) + 1 /\ Size(x) \in Nat
      /\ x.safe \in Nat /\ x.safe <= Size(x) /\ x.recs \in Seq(Recs)
  BY LenProperties DEF Proper, Size
<1>2. Size(x) \in x.safe .. Size(x) /\ Size(x) # 0
  BY <1>1
<1>3. Survivor(x, Size(x)).recs = SubSeq(x.recs, 1, Size(x) - 1)
  BY <1>2, SurvivorOf
<1>4. Survivor(x, Size(x)).recs = x.recs
  BY <1>1, <1>3, WholeSeq
<1>5. Survivor(x, Size(x)) \in Survivors(x)
  BY <1>2 DEF Survivors
<1> QED BY <1>4, <1>5 DEF Told, Gives

(* A synced journal survives as it is.                                       *)
LEMMA ToldSafe ==
  ASSUME NEW x, Proper(x), NEW h, h # NoHeader, NEW t, NEW S,
         x.safe = Size(x), Told({x}, h, t, S)
  PROVE  Told(Survivors(x), h, t, S)
<1>1. Len(x.recs) \in Nat /\ Size(x) = Len(x.recs) + 1 /\ Size(x) \in Nat
      /\ x.recs \in Seq(Recs) /\ x.hdr = h
  BY LenProperties DEF Proper, Size, Told
<1>2. SUFFICES ASSUME NEW n \in x.safe .. Size(x)
               PROVE  Survivor(x, n).hdr = h /\ Gives(Survivor(x, n), t) \in S
  BY DEF Told, Survivors
<1>3. n = Len(x.recs) + 1 /\ n # 0
  BY <1>1
<1>4. Survivor(x, n).recs = SubSeq(x.recs, 1, n - 1) /\ Survivor(x, n).hdr = h
  BY <1>1, <1>3, SurvivorOf
<1>5. Survivor(x, n).recs = x.recs
  BY <1>1, <1>3, <1>4, WholeSeq
<1> QED BY <1>4, <1>5 DEF Told, Gives

LEMMA ToldAlike ==
  ASSUME NEW x, NEW y, Alike(x, y), NEW h, NEW t, NEW S, Told({x}, h, t, S)
  PROVE  Told({y}, h, t, S)
BY DEF Alike, Told, Gives

(* What was synced survives a power cut, and then all that is left is synced. *)
LEMMA ToldCut ==
  ASSUME NEW x, Proper(x), NEW h, h # NoHeader, x.hdr = h, NEW t, NEW S,
         Told(Survivors(x), h, t, S), NEW n \in x.safe .. Size(x),
         NEW y, y = Survivor(x, n)
  PROVE  Told({y}, h, t, S) /\ Told(Survivors(y), h, t, S)
<1>1. y \in Survivors(x)
  BY DEF Survivors
<1>2. y.hdr = h /\ Gives(y, t) \in S /\ Told({y}, h, t, S)
  BY <1>1 DEF Told
<1>3. n # 0
  BY <1>2 DEF Survivor
<1>4. /\ y.safe = n /\ y.recs = SubSeq(x.recs, 1, n - 1)
      /\ n - 1 \in 0 .. Len(x.recs) /\ Len(x.recs) \in Nat
  BY <1>3, SurvivorOf
<1>5. y.recs \in Seq(Recs) /\ Len(y.recs) = n - 1
  BY <1>4, SubSeqRecs DEF Proper
<1>6. DOMAIN y = {"hdr", "recs", "safe"}
  BY <1>3 DEF Survivor, Proper
<1>7. n \in Nat /\ Size(y) = n
  BY <1>2, <1>4, <1>5 DEF Size
<1>8. Proper(y)
  BY <1>4, <1>5, <1>6, <1>7 DEF Proper
<1> QED BY <1>2, <1>4, <1>7, <1>8, ToldSafe

(* Adding a record: the new text is among what may be given from now on.     *)
LEMMA ToldMore ==
  ASSUME NEW x, Proper(x), NEW h, h # NoHeader, x.hdr = h, NEW t,
         NEW S, NEW T, S \subseteq T, Told(Survivors(x), h, t, S),
         NEW r \in Recs, NEW y, y.hdr = h, y.safe = x.safe,
         DOMAIN y = DOMAIN x, y.recs = Append(x.recs, r), Gives(y, t) \in T
  PROVE  Told(Survivors(y), h, t, T)
<1>1. Len(x.recs) \in Nat /\ Size(x) = Len(x.recs) + 1 /\ Size(x) \in Nat
      /\ x.recs \in Seq(Recs) /\ x.safe \in Nat /\ x.safe <= Size(x)
  BY LenProperties DEF Proper, Size
<1>2. y.recs \in Seq(Recs) /\ Len(y.recs) = Len(x.recs) + 1
      /\ \A i \in 1 .. Len(x.recs) : y.recs[i] = x.recs[i]
  BY <1>1, AppendProperties
<1>3. Size(y) = Len(x.recs) + 2
  BY <1>1, <1>2 DEF Size
<1>4. Proper(y)
  BY <1>1, <1>2, <1>3 DEF Proper
<1>5. SUFFICES ASSUME NEW n \in y.safe .. Size(y)
               PROVE  Survivor(y, n).hdr = h /\ Gives(Survivor(y, n), t) \in T
  BY DEF Told, Survivors
<1>6. n # 0
  <2>1. SUFFICES ASSUME n = 0 PROVE FALSE
    OBVIOUS
  <2>2. 0 \in x.safe .. Size(x)
    BY <1>1, <2>1
  <2>3. Survivor(x, 0) \in Survivors(x)
    BY <2>2 DEF Survivors
  <2> QED BY <2>3 DEF Told, Survivor
<1>7. Survivor(y, n).hdr = h /\ Survivor(y, n).recs = SubSeq(y.recs, 1, n - 1)
  BY <1>4, <1>6, SurvivorOf
<1>8. CASE n = Size(y)
  <2>1. n - 1 = Len(y.recs)
    BY <1>1, <1>2, <1>3, <1>8
  <2>2. Survivor(y, n).recs = y.recs
    BY <1>2, <1>7, <2>1, WholeSeq
  <2> QED BY <1>7, <2>2 DEF Gives
<1>9. CASE n # Size(y)
  <2>1. n \in x.safe .. Size(x) /\ n - 1 \in 0 .. Len(x.recs)
    BY <1>1, <1>3, <1>6, <1>9
  <2>2. Survivor(x, n).recs = SubSeq(x.recs, 1, n - 1)
    BY <1>6, <2>1, SurvivorOf
  <2>3. SubSeq(y.recs, 1, n - 1) = SubSeq(x.recs, 1, n - 1)
    <3>1. n - 1 \in 0 .. Len(y.recs)
      BY <1>1, <1>2, <2>1
    <3>2. SubSeq(y.recs, 1, n - 1) \in Seq(Recs)
          /\ Len(SubSeq(y.recs, 1, n - 1)) = n - 1
          /\ \A i \in 1 .. n - 1 : SubSeq(y.recs, 1, n - 1)[i] = y.recs[i]
      BY <1>2, <3>1, SubSeqRecs
    <3>3. SubSeq(x.recs, 1, n - 1) \in Seq(Recs)
          /\ Len(SubSeq(x.recs, 1, n - 1)) = n - 1
          /\ \A i \in 1 .. n - 1 : SubSeq(x.recs, 1, n - 1)[i] = x.recs[i]
      BY <1>1, <2>1, SubSeqRecs
    <3>4. \A i \in 1 .. n - 1 : y.recs[i] = x.recs[i]
      BY <1>1, <1>2, <2>1
    <3> QED BY <3>2, <3>3, <3>4, SeqEqual
  <2>4. Survivor(x, n) \in Survivors(x)
    BY <2>1 DEF Survivors
  <2>5. Gives(Survivor(x, n), t) \in S
    BY <2>4 DEF Told
  <2>6. Gives(Survivor(y, n), t) = Gives(Survivor(x, n), t)
    BY <1>7, <2>2, <2>3 DEF Gives
  <2> QED BY <1>7, <2>5, <2>6
<1> QED BY <1>8, <1>9

LEMMA GivesMore ==
  ASSUME NEW x, x.recs \in Seq(Recs), ValidPrefix(x.recs) = x.recs,
         NEW t \in Texts, NEW r \in Recs, r # Bad,
         NEW y, y.recs = Append(x.recs, r)
  PROVE  Gives(y, t) = Append(Gives(x, t), r.op)
<1>1. ValidPrefix(y.recs) = Append(x.recs, r)
  BY ValidMore
<1>2. Len(x.recs) \in Nat /\ y.recs \in Seq(Recs) /\ Len(y.recs) = Len(x.recs) + 1
      /\ (\A i \in 1 .. Len(x.recs) : y.recs[i] = x.recs[i])
      /\ y.recs[Len(x.recs) + 1] = r
  BY AppendProperties, LenProperties
<1>3. Len(x.recs) < Len(y.recs)
  BY <1>2
<1>4. y.recs \in Seq([op : Nat, on : Texts])
  BY <1>2 DEF Recs
<1>5. After(t, y.recs, Len(x.recs) + 1) = Append(After(t, y.recs, Len(x.recs)), r.op)
  BY <1>2, <1>3, <1>4, AfterNext
<1>6. After(t, y.recs, Len(x.recs)) = After(t, x.recs, Len(x.recs))
  BY <1>2, AfterSame
<1> QED BY <1>1, <1>2, <1>5, <1>6 DEF Gives, Leads

(* Directories Es, where all have journal f and the base c has of it, unless *)
(* they are in Ds.                                                           *)
Passed(Ds, Es, c, f, h) ==
  \A d \in Es : d \in Ds \/ (/\ f \in NamesIn(d)
                             /\ Beside(c, f, h) => Beside(d, f, h))

(* How a journal stays replayable when inodes, discards, directories and     *)
(* backups change; and the special cases.                                    *)
LEMMA BearsOn ==
  ASSUME NEW D, NEW K, NEW Ds, NEW f, NEW h, NEW t, NEW B,
         Bears(D, K, Ds, f, h, t, B),
         NEW E, NEW L, NEW Es, NEW C, Firm(D, E, h),
         K \subseteq L, B \subseteq C, NEW c \in Ds,
         Passed(Ds, Es, c, f, h),
         Intact(D, h) /\ Beside(c, f, h) => Intact(E, h) \/ t \in C
  PROVE  Bears(E, L, Es, f, h, t, C)
<1>1. h # NoHeader /\ t \in Texts /\ Grounds(E, h) \subseteq {t}
  BY DEF Bears, Firm
<1>2. \A d \in Es : f \in NamesIn(d)
  BY DEF Bears, Passed
<1>3. CASE f \in K \/ t \in B
  BY <1>1, <1>2, <1>3 DEF Bears
<1>4. CASE Intact(D, h) /\ \A d \in Ds : Beside(d, f, h)
  <2>1. \A d \in Es : Beside(d, f, h)
    BY <1>4 DEF Passed
  <2>2. Intact(E, h) \/ t \in C
    BY <1>4
  <2> QED BY <1>1, <1>2, <2>1, <2>2 DEF Bears
<1> QED BY <1>3, <1>4 DEF Bears

LEMMA BearsStay ==
  ASSUME NEW D, NEW K, NEW Ds, NEW f, NEW h, NEW t, NEW B,
         Bears(D, K, Ds, f, h, t, B), NEW L, NEW Es, NEW C,
         K \subseteq L, B \subseteq C, NEW c \in Ds, Passed(Ds, Es, c, f, h)
  PROVE  Bears(D, L, Es, f, h, t, C)
<1>1. Firm(D, D, h)
  BY FirmSelf
<1> QED BY <1>1, BearsOn

LEMMA BearsDir ==
  ASSUME NEW D, NEW K, NEW Ds, NEW f, NEW h, NEW t, NEW B,
         Bears(D, K, Ds, f, h, t, B), NEW c \in Ds
  PROVE  Bears(D, K, {c}, f, h, t, B)
BY DEF Bears

Inplace == {"inplace", "inplace log"}
Opening == {"out", "loaded", "asked"}
Holding == {"edit", "stuck", "inplace", "inplace log", "dropBase", "dropLog"}

(* The texts in backups, but for that of a save under way.                   *)
Spare == ToSet(IF \E p \in Editors : ed[p].pc \in Inplace THEN Front(backups)
               ELSE backups)

(* An editor that went on although there may be a journal of this version    *)
(* and has not edited since; and one that may have such a journal to meet.   *)
Waiting(e) ==
  \/ e.pc \in {"open", "adopt", "stuck", "inplace"} /\ e.goal = "aside"
  \/ e.pc = "edit" /\ e.fd = 0 /\ e.goal \in {"aside", "decline"}
Early(e) == e.pc \in Opening \/ Waiting(e)

(* An editor leaves journal f, which is to be replayed on t, alone: if it    *)
(* may still recover it, what it would replay it on is t; then it is on a    *)
(* later version of the file, and f is not the journal it may yet discard.   *)
(* No editor continued f without what it holds.                              *)
Clear(e, h, f, t) ==
  /\ Early(e) /\ e.pc # "out" /\ Fit(h, e.meta) => e.text = t
  /\ ~Early(e) => Older(h, e.meta)
  /\ e.pc \in Holding => f # e.fd
AllClear(f, t) == f \notin unread /\ \A p \in Editors : Clear(ed[p], H(f), f, t)

(* Journal f replayed on t gives a text of S, now, or after a power cut.     *)
HoldsNow(S, f, t, B) ==
  /\ f \in 1 .. Len(journals) /\ Bears(disk, baseless, {dir}, f, H(f), t, B)
  /\ Told({journals[f]}, H(f), t, S)
HoldsLate(S, f, t, B) ==
  /\ f \in 1 .. Len(journals) /\ Bears(disk, baseless, cut, f, H(f), t, B)
  /\ Told(Survivors(journals[f]), H(f), t, S)

(* What sessions that ended are owed is in journals nobody disturbs.         *)
Found(S) == \E f, t : AllClear(f, t) /\ HoldsNow(S, f, t, Spare)
Later(S) == S = {} \/ \E f, t : AllClear(f, t) /\ HoldsLate(S, f, t, Spare)
OwedOK   == ~spoilt => \A o \in owed : Found(o.now) /\ Later(o.late)

(* What this session would be owed is in the journal it continues.           *)
Mine(S, L) == \E t : /\ HoldsNow(S, dir.j, t, ToSet(backups))
                     /\ HoldsLate(L, dir.j, t, ToSet(backups)) \/ Later(L)
Protected == {"open", "adopt", "edit", "stuck"} \cup Inplace
Guarded(e) == e.prot # Nothing =>
  /\ DOMAIN e.prot = {"now", "late"} /\ e.pc \in Protected
  /\ Fit(Log.hdr, e.meta) /\ (e.pc = "edit" => e.fd # 0)
  /\ dir.j \notin unread /\ ~Waiting(e)
  /\ e.pc \in {"open", "adopt"} \/ (e.pc = "edit" /\ ~e.bad) =>
       e.prot.now = {e.text}
  /\ ~spoilt => Mine(e.prot.now, e.prot.late)

(* Every header names a base; preserved journals are older than the live     *)
(* one and than the file; every directory a power cut may leave has what dir *)
(* has of the live journal.                                                  *)
Linked(h) == /\ h.base.kind \in {"link", "copy"}
             /\ h.base.kind = "link" => h.base.ino = h.ino /\ h.ino # 0
HeadsOK   == \A f \in 1 .. Len(journals) : Headed(f) => Linked(H(f))
Stack(d)  == \A f \in d.oldj : Headed(f) =>
  /\ Older(H(f), Now) /\ (Headed(d.j) /\ d.j # f => Older(H(f), H(d.j)))
Rests(d)  == Headed(d.j) /\ d.j \notin baseless =>
  Beside(d, d.j, H(d.j)) \/ Older(H(d.j), Now)
Level(d)  == Headed(dir.j) =>
  /\ d.j = dir.j
  /\ Beside(dir, dir.j, H(dir.j)) => Beside(d, dir.j, H(dir.j))
Stores    == HeadsOK /\ \A d \in cut : Stack(d) /\ Rests(d) /\ Level(d)

(* The editor's side: preserved journals are older than its version of the   *)
(* file, and the journal it would continue is intact, its base beside it.    *)
Behind(m)   == \A f \in dir.oldj : Headed(f) => Older(H(f), m)
Creating(e) == \/ e.pc \in {"lock", "base", "header"}
               \/ e.pc \in {"oldBase", "oldBase2"} /\ e.goal = "create"
Mark(e)     == [ino |-> e.meta.ino, mtime |-> e.meta.mtime, base |-> e.base]
Idle(e)     == \/ e.pc \in {"out", "dropSync"} \cup Inplace
               \/ e.pc \in {"dropBase", "dropLog"} /\ e.goal # "decline"
Stands      == \/ dir.j \in baseless
               \/ Intact(disk, Log.hdr) /\ Beside(dir, dir.j, Log.hdr)
Keeps(e) ==
  /\ e.pc # "out" => Behind(e.meta)
  /\ Creating(e) => e.fd \notin dir.oldj
  /\ e.pc \in {"header", "barrier"} => cut = {dir}
  /\ e.pc = "header" => /\ dir.b = e.base /\ Linked(Mark(e))
                        /\ ~spoilt => Intact(disk, Mark(e))
  /\ (e.pc = "edit" /\ e.fd # 0) \/ e.pc = "barrier" => Fit(Log.hdr, e.meta)
  /\ e.pc = "oldBase2" => dir.b \in dir.oldb
  /\ e.pc \in {"oldLog", "oldLog2"} => dir.b = NoBase /\ e.goal # "create"
  /\ e.pc = "oldLog2" => dir.j \in dir.oldj
  /\ ~spoilt /\ ~Idle(e) /\ Fit(Log.hdr, e.meta) => Stands

BackupsOK == /\ backups \in Seq(Texts)
             /\ \A p \in Editors : ed[p].pc \in Inplace => backups # <<>>
KeepInv == /\ BackupsOK /\ Stores /\ OwedOK
           /\ \A p \in Editors : Keeps(ed[p]) /\ Guarded(ed[p])
Kit     == PlaceInv /\ TruthInv /\ KeepInv

-----------------------------------------------------------------------------
(* What the invariants say of one editor.                                    *)
LEMMA KitAt ==
  ASSUME Kit, NEW p \in Editors, NEW e, e = ed[p]
  PROVE  /\ TypeInv /\ PlaceInv /\ TruthInv /\ Keeps(e) /\ Guarded(e)
         /\ Stores /\ OwedOK /\ BackupsOK /\ DOMAIN e = Fields
         /\ p \in DOMAIN ed /\ Version(e.meta) /\ Locked(e) /\ GoodEd(e)
BY MetaVersion DEF Kit, KeepInv, PlaceInv, TypeInv, LockInv, Shape, EdsOK

LEMMA LogProper ==
  ASSUME TypeInv, NEW f \in 1 .. Len(journals), NEW x, x = journals[f]
  PROVE  Proper(x) /\ GoodLog(x)
BY LogOf DEF GoodLog, Proper

(* A directory that still has a journal and the base it had.                 *)
Stay(d, f) == /\ f \in NamesIn(d)
              /\ Beside(dir, f, H(f)) => Beside(d, f, H(f))
Steady(f)  == /\ journals'[f] = journals[f] /\ Stay(dir', f)
              /\ \A d \in cut' : d \in cut \/ Stay(d, f)
              /\ f \in unread' => f \in unread
Reached(f, t) == /\ f \in 1 .. Len(journals) /\ AllClear(f, t)
                 /\ Bears(disk, baseless, {dir}, f, H(f), t, Spare)
(* What is owed that replaying some journal gives is not disturbed.          *)
Unmoved(p, S) == \A f, t : Reached(f, t) /\ Gives(journals[f], t) \in S =>
                   Steady(f) /\ Clear(ed'[p], H(f), f, t)
Unmoving(p)   == \A f, t : Reached(f, t) =>
                   Steady(f) /\ Clear(ed'[p], H(f), f, t)
LEMMA UnmovingAny ==
  ASSUME NEW p, Unmoving(p), NEW S PROVE Unmoved(p, S)
BY DEF Unmoving, Unmoved

(* Lemmas about one step of the only editor p, on what sessions that ended   *)
(* are owed.                                                                 *)
LEMMA ClearOf ==
  ASSUME Alone, NEW p \in Editors, NEW f, NEW t, NEW e, e = ed'[p],
         NEW h, h = H(f)', Clear(e, h, f, t), f \notin unread'
  PROVE  AllClear(f, t)'
<1>1. \A q \in Editors : q = p
  BY DEF Alone
<1> QED BY <1>1 DEF AllClear

LEMMA SpareStill ==
  ASSUME Alone, NEW p \in Editors, UNCHANGED backups,
         ed[p].pc \notin Inplace, ed'[p].pc \notin Inplace
  PROVE  Spare' = Spare /\ Spare = ToSet(backups)
<1>1. \A q \in Editors : q = p
  BY DEF Alone
<1>2. ~(\E q \in Editors : ed[q].pc \in Inplace)
      /\ ~(\E q \in Editors : ed'[q].pc \in Inplace)
  BY <1>1
<1> QED BY <1>2 DEF Spare

(* What a power cut could not take is there now.                             *)
LEMMA LateNow ==
  ASSUME TypeInv, NEW S, NEW f, NEW t, NEW B, HoldsLate(S, f, t, B)
  PROVE  HoldsNow(S, f, t, B) /\ Gives(journals[f], t) \in S
<1>1. f \in 1 .. Len(journals) /\ Told(Survivors(journals[f]), H(f), t, S)
      /\ H(f) # NoHeader /\ dir \in cut
  BY DEF HoldsLate, Bears, TypeInv, DirsOK
<1>2. Told({journals[f]}, H(f), t, S)
  BY <1>1, LogProper, ToldWhole DEF H
<1>3. Bears(disk, baseless, {dir}, f, H(f), t, B)
  BY <1>1, BearsDir DEF HoldsLate
<1> QED BY <1>1, <1>2, <1>3 DEF HoldsNow, Told

LEMMA NowStays ==
  ASSUME UNCHANGED disk, baseless \subseteq baseless', Len(journals) \in Nat,
         Len(journals') \in Nat, Len(journals) <= Len(journals'),
         NEW S, NEW f, NEW t, NEW B, NEW C, B \subseteq C,
         HoldsNow(S, f, t, B), Steady(f)
  PROVE  HoldsNow(S, f, t, C)'
<1>1. f \in 1 .. Len(journals') /\ journals'[f] = journals[f]
  BY DEF HoldsNow, Steady
<1>2. H(f)' = H(f)
  BY <1>1 DEF H
<1>3. Bears(disk, baseless, {dir}, f, H(f), t, B)
  BY DEF HoldsNow
<1>4. Passed({dir}, {dir'}, dir, f, H(f))
  BY DEF Steady, Stay, Passed
<1>5. Bears(disk, baseless', {dir'}, f, H(f), t, C)
  BY <1>3, <1>4, BearsStay
<1>6. Told({journals[f]}, H(f), t, S)
  BY DEF HoldsNow
<1> QED BY <1>1, <1>2, <1>5, <1>6 DEF HoldsNow

LEMMA LateStays ==
  ASSUME UNCHANGED disk, baseless \subseteq baseless', Len(journals) \in Nat,
         Len(journals') \in Nat, Len(journals) <= Len(journals'), dir \in cut,
         NEW S, NEW f, NEW t, NEW B, NEW C, B \subseteq C,
         HoldsLate(S, f, t, B), Steady(f)
  PROVE  HoldsLate(S, f, t, C)'
<1>1. f \in 1 .. Len(journals') /\ journals'[f] = journals[f]
  BY DEF HoldsLate, Steady
<1>2. H(f)' = H(f)
  BY <1>1 DEF H
<1>3. Bears(disk, baseless, cut, f, H(f), t, B)
  BY DEF HoldsLate
<1>4. Passed(cut, cut', dir, f, H(f))
  BY DEF Steady, Stay, Passed
<1>5. Bears(disk, baseless', cut', f, H(f), t, C)
  BY <1>3, <1>4, BearsStay
<1>6. Told(Survivors(journals[f]), H(f), t, S)
  BY DEF HoldsLate
<1> QED BY <1>1, <1>2, <1>5, <1>6 DEF HoldsLate

(* What was found is still found if the journal it is in is left alone.      *)
LEMMA FoundStays ==
  ASSUME Alone, NEW p \in Editors, TypeInv, TypeInv', UNCHANGED disk,
         baseless \subseteq baseless', Spare \subseteq Spare',
         Len(journals) <= Len(journals'), NEW S, Found(S), Unmoved(p, S)
  PROVE  Found(S)'
<1>1. PICK f, t : AllClear(f, t) /\ HoldsNow(S, f, t, Spare)
  BY DEF Found
<1>2. f \in 1 .. Len(journals) /\ Gives(journals[f], t) \in S
      /\ Bears(disk, baseless, {dir}, f, H(f), t, Spare)
  BY <1>1 DEF HoldsNow, Told
<1>3. Steady(f) /\ Clear(ed'[p], H(f), f, t)
  BY <1>1, <1>2 DEF Unmoved, Reached
<1>4. H(f)' = H(f)
  BY <1>3 DEF Steady, H
<1>5. AllClear(f, t)'
  BY <1>1, <1>3, <1>4, ClearOf DEF AllClear, Steady
<1>6. Len(journals) \in Nat /\ Len(journals') \in Nat
  <2>1. Numbered /\ Numbered'
    BY DEF TypeInv, LockInv
  <2> QED BY <2>1, LenProperties DEF Numbered
<1>7. PICK B : B = Spare
  OBVIOUS
<1>8. PICK C : C = Spare'
  OBVIOUS
<1>9. HoldsNow(S, f, t, C)'
  <2>1. HoldsNow(S, f, t, B) /\ B \subseteq C
    BY <1>1, <1>7, <1>8
  <2> QED BY <1>3, <1>6, <2>1, NowStays
<1>10. HoldsNow(S, f, t, Spare)'
  BY <1>8, <1>9
<1> QED BY <1>5, <1>10 DEF Found

LEMMA LaterStays ==
  ASSUME Alone, NEW p \in Editors, TypeInv, TypeInv', UNCHANGED disk,
         baseless \subseteq baseless', Spare \subseteq Spare',
         Len(journals) <= Len(journals'), NEW S, Later(S), Unmoved(p, S)
  PROVE  Later(S)'
<1>0. SUFFICES ASSUME S # {} PROVE Later(S)'
  BY DEF Later
<1>1. PICK f, t : AllClear(f, t) /\ HoldsLate(S, f, t, Spare)
  BY <1>0 DEF Later
<1>7. PICK B : B = Spare
  OBVIOUS
<1>8. PICK C : C = Spare'
  OBVIOUS
<1>11. HoldsLate(S, f, t, B)
  BY <1>1, <1>7
<1>2. HoldsNow(S, f, t, B) /\ Gives(journals[f], t) \in S
  BY <1>11, LateNow
<1>12. f \in 1 .. Len(journals) /\ Bears(disk, baseless, {dir}, f, H(f), t, Spare)
  BY <1>2, <1>7 DEF HoldsNow
<1>3. Steady(f) /\ Clear(ed'[p], H(f), f, t)
  BY <1>1, <1>2, <1>12 DEF Unmoved, Reached
<1>4. H(f)' = H(f)
  BY <1>3 DEF Steady, H
<1>5. AllClear(f, t)'
  BY <1>1, <1>3, <1>4, ClearOf DEF AllClear, Steady
<1>6. Len(journals) \in Nat /\ Len(journals') \in Nat /\ dir \in cut
  <2>1. Numbered /\ Numbered' /\ dir \in cut
    BY DEF TypeInv, LockInv, DirsOK
  <2> QED BY <2>1, LenProperties DEF Numbered
<1>9. HoldsLate(S, f, t, C)'
  <2>1. B \subseteq C
    BY <1>7, <1>8
  <2> QED BY <1>3, <1>6, <1>11, <2>1, LateStays
<1>10. HoldsLate(S, f, t, Spare)'
  BY <1>8, <1>9
<1> QED BY <1>5, <1>10 DEF Later

LEMMA OwedStays ==
  ASSUME Alone, NEW p \in Editors, TypeInv, TypeInv', UNCHANGED <<disk, spoilt>>,
         baseless \subseteq baseless', Spare \subseteq Spare', OwedOK,
         Len(journals) <= Len(journals'),
         \A o \in owed' : o \in owed /\ Unmoved(p, o.now) /\ Unmoved(p, o.late)
  PROVE  OwedOK'
<1>1. SUFFICES ASSUME ~spoilt, NEW o \in owed' PROVE Found(o.now)' /\ Later(o.late)'
  BY DEF OwedOK
<1>2. Found(o.now) /\ Later(o.late)
  BY <1>1 DEF OwedOK
<1>3. Unmoved(p, o.now) /\ Unmoved(p, o.late)
  OBVIOUS
<1>4. Found(o.now)'
  BY <1>2, <1>3, FoundStays
<1>5. Later(o.late)'
  BY <1>2, <1>3, LaterStays
<1> QED BY <1>4, <1>5

(* The invariant from what it says of the only editor.                       *)
LEMMA KeepOf ==
  ASSUME Alone, NEW p \in Editors, BackupsOK', Stores', OwedOK',
         Keeps(ed[p])', Guarded(ed[p])'
  PROVE  KeepInv'
<1>1. \A q \in Editors : q = p
  BY DEF Alone
<1> QED BY <1>1 DEF KeepInv

(* A step that writes no file and neither begins nor ends a save.            *)
LEMMA QuietKept ==
  ASSUME Alone, Kit, NEW p \in Editors, TypeInv',
         UNCHANGED <<disk, backups, spoilt, owed>>,
         baseless \subseteq baseless', Len(journals) <= Len(journals'),
         ed[p].pc \notin Inplace, ed'[p].pc \notin Inplace, Unmoving(p),
         Stores', Keeps(ed[p])', Guarded(ed[p])'
  PROVE  KeepInv'
<1>1. TypeInv /\ OwedOK /\ BackupsOK
  BY KitAt
<1>2. Spare' = Spare
  BY SpareStill
<1>3. \A o \in owed' : o \in owed /\ Unmoved(p, o.now) /\ Unmoved(p, o.late)
  BY UnmovingAny
<1>4. OwedOK'
  BY <1>1, <1>2, <1>3, OwedStays
<1>5. BackupsOK'
  <2>1. \A q \in Editors : q = p
    BY DEF Alone
  <2> QED BY <1>1, <2>1 DEF BackupsOK
<1> QED BY <1>4, <1>5, KeepOf

LEMMA MineStays ==
  ASSUME Alone, NEW p \in Editors, TypeInv, TypeInv',
         UNCHANGED <<disk, backups, dir, cut, baseless, journals>>,
         Spare \subseteq Spare', NEW S, NEW L, Mine(S, L), Unmoved(p, L)
  PROVE  Mine(S, L)'
<1>1. PICK t : /\ HoldsNow(S, dir.j, t, ToSet(backups))
               /\ HoldsLate(L, dir.j, t, ToSet(backups)) \/ Later(L)
  BY DEF Mine
<1>2. HoldsNow(S, dir.j, t, ToSet(backups))'
  BY <1>1 DEF HoldsNow, H
<1>3. HoldsLate(L, dir.j, t, ToSet(backups)) =>
        HoldsLate(L, dir.j, t, ToSet(backups))'
  BY DEF HoldsLate, H
<1>4. Later(L) => Later(L)'
  <2>1. Len(journals) <= Len(journals')
    BY LenProperties DEF TypeInv, LockInv, Numbered
  <2> QED BY <2>1, LaterStays
<1> QED BY <1>1, <1>2, <1>3, <1>4 DEF Mine

-----------------------------------------------------------------------------
(* Headers and names.                                                        *)

(* The headers, the file and what discards removed are as they were.         *)
Settled == HeadsSame /\ UNCHANGED <<disk, dst>> /\ baseless \subseteq baseless'

(* Journals keep their headers: the names keep their order.                  *)
LEMMA SettledHead ==
  ASSUME TypeInv, TypeInv', Settled, NEW f, f \in 0 .. Len(journals'), Headed(f)'
  PROVE  f \in 1 .. Len(journals) /\ H(f)' = H(f) /\ Headed(f)
BY HeadKept DEF Settled

LEMMA SettledNow == ASSUME Settled PROVE Now' = Now
BY NowStill DEF Settled

LEMMA HeadsOKStays ==
  ASSUME TypeInv, TypeInv', Settled, HeadsOK PROVE HeadsOK'
<1>1. SUFFICES ASSUME NEW f \in 1 .. Len(journals'), Headed(f)'
               PROVE  Linked(H(f)')
  BY DEF HeadsOK, Linked
<1>2. Len(journals') \in Nat
  BY LenProperties DEF TypeInv, LockInv, Numbered
<1>3. f \in 0 .. Len(journals')
  BY <1>2
<1>4. f \in 1 .. Len(journals) /\ H(f)' = H(f) /\ Headed(f)
  BY <1>1, <1>3, SettledHead
<1> QED BY <1>4 DEF HeadsOK

LEMMA DirRange ==
  ASSUME TypeInv, NEW d \in cut
  PROVE  /\ GoodDir(d) /\ d.j \in 0 .. Len(journals) /\ Len(journals) \in Nat
         /\ \A f \in d.oldj : f \in 0 .. Len(journals)
<1>1. GoodDir(d) /\ Len(journals) \in Nat
  BY LenProperties DEF TypeInv, DirsOK, LockInv, Numbered
<1>2. d.j \in 0 .. Len(journals) /\ d.oldj \subseteq 1 .. Len(journals)
  BY <1>1 DEF GoodDir
<1> QED BY <1>1, <1>2

LEMMA DirRangeNext ==
  ASSUME TypeInv', NEW d \in cut'
  PROVE  /\ d.j \in 0 .. Len(journals')
         /\ \A f \in d.oldj : f \in 0 .. Len(journals')
<1>1. GoodDir(d)' /\ Len(journals') \in Nat
  BY LenProperties DEF TypeInv, DirsOK, LockInv, Numbered
<1>2. d.j \in 0 .. Len(journals') /\ d.oldj \subseteq 1 .. Len(journals')
  BY <1>1 DEF GoodDir
<1> QED BY <1>1, <1>2

LEMMA StackStays ==
  ASSUME TypeInv, TypeInv', Settled, NEW d \in cut', Stack(d)
  PROVE  Stack(d)'
<1>1. SUFFICES ASSUME NEW f \in d.oldj, Headed(f)'
               PROVE  /\ Older(H(f)', Now')
                      /\ Headed(d.j)' /\ d.j # f => Older(H(f)', H(d.j)')
  BY DEF Stack
<1>2. f \in 0 .. Len(journals') /\ d.j \in 0 .. Len(journals')
  BY DirRangeNext
<1>3. H(f)' = H(f) /\ Headed(f)
  BY <1>1, <1>2, SettledHead
<1>4. Headed(d.j)' => Headed(d.j) /\ H(d.j)' = H(d.j)
  BY <1>2, SettledHead
<1> QED BY <1>3, <1>4, SettledNow DEF Stack

LEMMA RestsStays ==
  ASSUME TypeInv, TypeInv', Settled, NEW d \in cut', Rests(d)
  PROVE  Rests(d)'
<1>1. SUFFICES ASSUME Headed(d.j)', d.j \notin baseless'
               PROVE  Beside(d, d.j, H(d.j)') \/ Older(H(d.j)', Now')
  BY DEF Rests, Beside, Like
<1>2. d.j \in 0 .. Len(journals')
  BY DirRangeNext
<1>3. Headed(d.j) /\ H(d.j)' = H(d.j) /\ d.j \notin baseless
  BY <1>1, <1>2, SettledHead DEF Settled
<1> QED BY <1>3, SettledNow DEF Rests

(* How Stores is kept: nothing renamed; the live journal gone; the live      *)
(* journal kept.                                                             *)
LEMMA StoresStill ==
  ASSUME TypeInv, TypeInv', Settled, UNCHANGED <<dir, cut>>, Stores
  PROVE  Stores'
<1>1. HeadsOK'
  BY HeadsOKStays DEF Stores
<1>2. \A d \in cut' : Stack(d)' /\ Rests(d)'
  BY StackStays, RestsStays DEF Stores
<1>3. ASSUME NEW d \in cut' PROVE Level(d)'
  <2>1. SUFFICES ASSUME Headed(dir.j)'
                 PROVE  d.j = dir.j /\ (Beside(dir, dir.j, H(dir.j)') =>
                                          Beside(d, dir.j, H(dir.j)'))
    BY DEF Level, Beside, Like
  <2>2. dir.j \in 0 .. Len(journals')
    BY DirRangeNext DEF TypeInv, DirsOK
  <2>3. Headed(dir.j) /\ H(dir.j)' = H(dir.j)
    BY <2>1, <2>2, SettledHead
  <2> QED BY <2>3 DEF Stores, Level
<1> QED BY <1>1, <1>2, <1>3 DEF Stores

(* The live journal's name is gone, or it has no header yet.                 *)
Drained(d) == d.oldj \subseteq dir.oldj /\ ~Headed(d.j)'
LEMMA StoresGone ==
  ASSUME TypeInv, TypeInv', Settled, Stores, ~Headed(dir.j)',
         \A d \in cut' : d \in cut \/ Drained(d)
         \* what was there is still there, or the names of fewer journals
  PROVE  Stores'
<1>1. HeadsOK'
  BY HeadsOKStays DEF Stores
<1>2. ASSUME NEW d \in cut' PROVE Stack(d)' /\ Rests(d)'
  <2>1. CASE d \in cut
    BY <2>1, StackStays, RestsStays DEF Stores
  <2>2. CASE Drained(d)
    <3>1. ~Headed(d.j)' /\ d.oldj \subseteq dir.oldj /\ Stack(dir)
      BY <2>2 DEF Drained, Stores, TypeInv, DirsOK
    <3>2. Rests(d)'
      BY <3>1 DEF Rests
    <3>3. ASSUME NEW f \in d.oldj, Headed(f)' PROVE Older(H(f)', Now')
      <4>1. f \in 0 .. Len(journals')
        BY DirRangeNext
      <4>2. H(f)' = H(f) /\ Headed(f)
        BY <3>3, <4>1, SettledHead
      <4> QED BY <3>1, <4>2, SettledNow DEF Stack
    <3> QED BY <3>1, <3>2, <3>3 DEF Stack
  <2> QED BY <2>1, <2>2
<1>3. \A d \in cut' : Level(d)'
  BY DEF Level
<1> QED BY <1>1, <1>2, <1>3 DEF Stores

(* The live journal keeps its name; its base may move.                       *)
Ranged(d) == /\ d.j = dir.j /\ Rests(d)' /\ Stack(d)'
             /\ Headed(dir.j) /\ Beside(dir', dir.j, H(dir.j)) =>
                  Beside(d, dir.j, H(dir.j))
LEMMA StoresSame ==
  ASSUME TypeInv, TypeInv', Settled, Stores, dir'.j = dir.j,
         Headed(dir.j) /\ Beside(dir', dir.j, H(dir.j)) =>
           Beside(dir, dir.j, H(dir.j)),
         \A d \in cut' : d \in cut \/ Ranged(d)
  PROVE  Stores'
<1>1. HeadsOK'
  BY HeadsOKStays DEF Stores
<1>2. \A d \in cut' : Stack(d)' /\ Rests(d)'
  BY StackStays, RestsStays DEF Stores, Ranged
<1>3. ASSUME NEW d \in cut' PROVE Level(d)'
  <2>1. SUFFICES ASSUME Headed(dir.j)'
                 PROVE  d.j = dir'.j /\ (Beside(dir', dir'.j, H(dir.j)') =>
                                          Beside(d, dir'.j, H(dir.j)'))
    BY DEF Level, Beside, Like
  <2>2. dir'.j \in 0 .. Len(journals')
    BY DirRangeNext DEF TypeInv, DirsOK
  <2>3. Headed(dir.j) /\ H(dir.j)' = H(dir.j)
    <3>1. PICK f : f = dir.j
      OBVIOUS
    <3>2. Headed(f)' /\ f \in 0 .. Len(journals')
      BY <2>1, <2>2, <3>1
    <3>3. Headed(f) /\ H(f)' = H(f)
      BY <3>2, SettledHead
    <3> QED BY <3>1, <3>3 DEF H
  <2> QED BY <2>3 DEF Stores, Level, Ranged
<1> QED BY <1>1, <1>2, <1>3 DEF Stores

-----------------------------------------------------------------------------
(* Loading and asking.                                                       *)

(* Fields that steps leave alone, and what they owe to Guarded and Keeps.    *)
LEMMA EdKept ==
  ASSUME TypeInv, NEW p \in Editors, NEW label
  PROVE  /\ Goto(p, label) => ed'[p].prot = ed[p].prot
         /\ Close(p, label) => ed'[p].prot = ed[p].prot
<1>1. p \in DOMAIN ed /\ DOMAIN ed[p] = Fields
  BY DEF TypeInv, LockInv, Shape
<1> QED BY <1>1 DEF Goto, Close, Fields

LEMMA FreeProt ==
  ASSUME Kit, NEW p \in Editors, ed[p].pc \notin Protected
  PROVE  ed[p].prot = Nothing
<1>1. Guarded(ed[p])
  BY KitAt
<1> QED BY <1>1 DEF Guarded

LEMMA ProtFree ==
  ASSUME NEW p, ed'[p].prot = Nothing PROVE Guarded(ed[p])'
BY DEF Guarded

LEMMA KeepsFree ==
  ASSUME NEW p, NEW e, e = ed'[p],
         \/ e.pc \in {"out", "loaded", "asked", "open", "adopt", "stuck",
                      "inplace", "inplace log", "dropBase", "dropLog", "dropSync"}
         \/ e.pc = "edit" /\ e.fd = 0,
         e.pc # "out" => Behind(ed[p].meta)',
         ~spoilt' /\ ~Idle(e) /\ Fit(Log.hdr', e.meta) => Stands'
  PROVE  Keeps(ed[p])'
BY DEF Keeps, Creating

LEMMA BehindStays ==
  ASSUME TypeInv, TypeInv', Settled, dir'.oldj \subseteq dir.oldj, NEW m, Behind(m)
  PROVE  Behind(m)'
<1>1. SUFFICES ASSUME NEW f \in dir'.oldj, Headed(f)' PROVE Older(H(f)', m)
  BY DEF Behind
<1>2. f \in 0 .. Len(journals')
  BY DirRangeNext DEF TypeInv, DirsOK
<1>3. H(f)' = H(f) /\ Headed(f)
  BY <1>1, <1>2, SettledHead
<1> QED BY <1>3 DEF Behind

LEMMA StillSettled ==
  ASSUME TypeInv, UNCHANGED <<disk, dst, journals, baseless>>
  PROVE  Settled
BY HeadsStill DEF Settled

LEMMA StandsStill ==
  ASSUME UNCHANGED <<disk, dir, journals>>, baseless \subseteq baseless', Stands
  PROVE  Stands' /\ Log' = Log
<1>1. Log' = Log
  BY DEF Log
<1> QED BY <1>1 DEF Stands, Intact, Beside, Like

(* A journal that is owed to someone is not the one the editor works on.     *)
LEMMA ReachedClear ==
  ASSUME NEW p \in Editors, NEW f, NEW t, Reached(f, t)
  PROVE  /\ Clear(ed[p], H(f), f, t) /\ f # 0 /\ f \in 1 .. Len(journals)
         /\ Headed(f) /\ f \in NamesIn(dir) /\ Grounds(disk, H(f)) \subseteq {t}
<1>1. f \in 1 .. Len(journals) /\ f # 0
  BY DEF Reached
<1> QED BY <1>1 DEF Reached, AllClear, Bears, Headed

LEMMA SteadyStill ==
  ASSUME UNCHANGED <<journals, dir, cut, unread>>, NEW f, NEW t, Reached(f, t)
  PROVE  Steady(f)
BY DEF Steady, Stay, Reached, Bears

(* A journal that is owed to someone and is older than what an editor has is *)
(* not of its version.                                                       *)
LEMMA OlderUnfit ==
  ASSUME Kit, NEW p \in Editors, NEW f, NEW t, Reached(f, t),
         Older(H(f), ed[p].meta)
  PROVE  ~Fit(H(f), ed[p].meta)
<1>1. f \in 1 .. Len(journals) /\ Headed(f) /\ TypeInv
  BY ReachedClear, KitAt
<1>2. Version(H(f)) /\ Version(ed[p].meta)
  BY <1>1, HeaderVersion, KitAt DEF Headed, H
<1> QED BY <1>2, OlderFit

(* An editor that goes on with the version of the file it has.               *)
Onward(e, n) ==
  /\ {e.pc, n.pc} \cap (Inplace \cup Opening) = {} /\ n.meta = e.meta
  /\ Waiting(e) => Waiting(n) /\ n.text = e.text
  /\ n.pc \in Holding => n.fd = 0 \/ (e.pc \in Holding /\ n.fd = e.fd)

(* An editor still leaves a journal alone: it is older than the editor's     *)
(* version, or the editor, still before it, has the same text.               *)
LEMMA ClearNext ==
  ASSUME Kit, NEW p \in Editors, NEW e, e = ed'[p], e.meta = ed[p].meta,
         NEW f, NEW t, Reached(f, t), e.pc \in Holding => f # e.fd,
         \/ Older(H(f), ed[p].meta)
         \/ /\ Early(ed[p]) /\ ed[p].pc # "out" /\ Early(e)
            /\ e.text = ed[p].text
  PROVE  Clear(e, H(f), f, t)
<1>1. CASE Older(H(f), ed[p].meta)
  <2>1. ~Fit(H(f), ed[p].meta)
    BY <1>1, OlderUnfit
  <2> QED BY <1>1, <2>1 DEF Clear
<1>2. CASE Early(ed[p]) /\ ed[p].pc # "out" /\ Early(e) /\ e.text = ed[p].text
  <2>1. Clear(ed[p], H(f), f, t)
    BY ReachedClear
  <2> QED BY <1>2, <2>1 DEF Clear
<1> QED BY <1>1, <1>2

LEMMA OnwardUnmoving ==
  ASSUME Kit, NEW p \in Editors, NEW e, e = ed'[p], Onward(ed[p], e),
         \A f, t : Reached(f, t) => Steady(f)
  PROVE  Unmoving(p)
<1>1. SUFFICES ASSUME NEW f, NEW t, Reached(f, t)
               PROVE  Clear(e, H(f), f, t)
  BY DEF Unmoving
<1>2. Clear(ed[p], H(f), f, t) /\ f # 0 /\ e.meta = ed[p].meta
  BY <1>1, ReachedClear DEF Onward
<1>3. ed[p].pc \notin Opening /\ e.pc \notin Opening
  BY DEF Onward
<1>4. e.pc \in Holding => f # e.fd
  BY <1>2 DEF Clear, Onward
<1>5. \/ Older(H(f), ed[p].meta)
      \/ Early(ed[p]) /\ ed[p].pc # "out" /\ Early(e) /\ e.text = ed[p].text
  BY <1>2, <1>3 DEF Clear, Early, Onward, Opening
<1> QED BY <1>1, <1>2, <1>4, <1>5, ClearNext

(* The prompt did not come, or recovering came to nothing: no journal that   *)
(* is owed is one of this version of the file.                               *)
LEMMA PastPrompt ==
  ASSUME Kit, NEW p \in Editors, ed[p].pc # "out",
         dir.j = 0 \/ ~Sound(dir.j) \/ ~HeaderMatches(dir.j, ed[p].meta),
         NEW f, NEW t, Reached(f, t)
  PROVE  Older(H(f), ed[p].meta)
<1>1. Headed(f) /\ f # 0 /\ f \in NamesIn(dir)
  BY ReachedClear
<1>2. Behind(ed[p].meta) /\ PlaceInv
  BY KitAt DEF Keeps
<1>3. CASE f \in dir.oldj
  BY <1>1, <1>2, <1>3 DEF Behind
<1>4. CASE f \notin dir.oldj
  <2>1. f = dir.j /\ Sound(dir.j)
    BY <1>1, <1>4 DEF NamesIn, Sound
  <2> QED BY <1>1, <1>2, <2>1, Unfit
<1> QED BY <1>3, <1>4

(* yew_file_load.                                                            *)
LEMMA LoadKept ==
  ASSUME Alone, Kit, NEW p \in Editors, TypeInv', Load(p)
  PROVE  KeepInv'
<1> DEFINE e == ed'[p]
<1>1. TypeInv /\ Stores /\ PlaceInv /\ p \in DOMAIN ed /\ ed[p].pc = "out"
  BY KitAt DEF Load
<1>2. /\ e.pc = "loaded" /\ e.text = At(dst).text /\ e.meta = Now
      /\ e.prot = Nothing
  BY <1>1 DEF Load, Blank, Now
<1>3. UNCHANGED <<disk, dst, backups, spoilt, owed, baseless, journals, dir, cut,
                  unread>>
  BY DEF Load, files, log, bounds, history
<1>4. Settled
  BY <1>1, <1>3, StillSettled
<1>5. Stores'
  BY <1>1, <1>3, <1>4, StoresStill
<1>6. Behind(Now)'
  <2>1. Stack(dir)
    BY <1>1 DEF Stores, TypeInv, DirsOK
  <2>2. Behind(Now)
    BY <2>1 DEF Stack, Behind
  <2>3. PICK m : m = Now
    OBVIOUS
  <2>4. Behind(m)'
    BY <1>1, <1>3, <1>4, <2>2, <2>3, BehindStays DEF Behind
  <2> QED BY <1>4, <2>3, <2>4, SettledNow DEF Behind
<1>7. ~spoilt' /\ Fit(Log.hdr', e.meta) => Stands'
  <2>1. SUFFICES ASSUME Fit(Log.hdr, Now), dir.j \notin baseless
                 PROVE  Intact(disk, Log.hdr) /\ Beside(dir, dir.j, Log.hdr)
    BY <1>2, <1>3 DEF Stands, Log, Intact, Beside, Like
  <2>2. dir.j # 0 /\ Log = journals[dir.j] /\ Headed(dir.j) /\ H(dir.j) = Log.hdr
    BY <2>1, LogFit DEF Headed, H, Fit
  <2>3. dir.j \in 1 .. Len(journals)
    BY <1>1, <2>2, DirLog
  <2>4. Version(Log.hdr) /\ Version(Now)
    BY <1>1, <2>2, <2>3, HeaderVersion, NowVersion
  <2>5. Rests(dir) /\ ~Older(Log.hdr, Now)
    BY <1>1, <2>1, <2>4, OlderFit DEF Stores, TypeInv, DirsOK
  <2>6. Beside(dir, dir.j, Log.hdr)
    BY <2>1, <2>2, <2>5 DEF Rests
  <2>7. Linked(Log.hdr)
    BY <1>1, <2>2, <2>3 DEF Stores, HeadsOK
  <2>8. Intact(disk, Log.hdr)
    BY <2>1, <2>7 DEF Intact, Linked, Fit, Now, MetaOf, At
  <2> QED BY <2>6, <2>8
<1>8. Keeps(ed[p])'
  <2>1. e.pc = "loaded" /\ Behind(ed[p].meta)'
    BY <1>2, <1>3, <1>6 DEF Behind, Now, MetaOf, At
  <2> QED BY <1>7, <2>1, KeepsFree
<1>9. Unmoving(p)
  <2>1. SUFFICES ASSUME NEW f, NEW t, Reached(f, t)
                 PROVE  Steady(f) /\ Clear(e, H(f), f, t)
    BY DEF Unmoving
  <2>2. Steady(f)
    BY <1>3, <2>1, SteadyStill
  <2>3. Fit(H(f), Now) => At(dst).text = t
    <3>1. SUFFICES ASSUME Fit(H(f), Now) PROVE At(dst).text \in {t}
      OBVIOUS
    <3>2. Written(disk, H(f)) = Written(disk, Now)
      BY <3>1 DEF Fit, Written
    <3>3. At(dst).text \in Written(disk, H(f))
      BY <1>1, <3>2, WrittenNow DEF TypeInv
    <3> QED BY <2>1, <3>3, ReachedClear DEF Grounds
  <2>4. Clear(e, H(f), f, t)
    BY <1>2, <2>3 DEF Clear, Early, Opening, Holding
  <2> QED BY <2>2, <2>4
<1>10. Guarded(ed[p])'
  BY <1>2, ProtFree
<1>11. Len(journals) <= Len(journals') /\ ed[p].pc \notin Inplace /\ e.pc \notin Inplace
  BY <1>1, <1>2, <1>4 DEF Settled, HeadsSame, Inplace
<1> QED BY <1>1, <1>3, <1>5, <1>8, <1>9, <1>10, <1>11, QuietKept

(* yew_journal_probe.                                                        *)
LEMMA ProbeKept ==
  ASSUME Alone, Kit, NEW p \in Editors, TypeInv', Probe(p)
  PROVE  KeepInv'
<1> DEFINE e == ed'[p]
<1>1. TypeInv /\ Stores /\ PlaceInv /\ p \in DOMAIN ed /\ ed[p].pc = "loaded"
      /\ Keeps(ed[p]) /\ Locked(ed[p]) /\ DOMAIN ed[p] = Fields
  BY KitAt DEF Probe
<1>2. PICK label \in {"asked", "edit"} :
        \/ /\ Goto(p, label)
           /\ label = "edit" => \/ dir.j = 0 \/ ~Sound(dir.j)
                                \/ ~Matches(dir.j, ed[p].meta)
        \/ label = "edit" /\ GoOn(p)
  BY DEF Probe
<1>3. /\ e.pc = label /\ e.text = ed[p].text /\ e.meta = ed[p].meta
      /\ e.fd = ed[p].fd /\ ed[p].fd = 0 /\ e.prot = ed[p].prot
  <2>1. ed[p].fd = 0
    BY <1>1 DEF Locked, Apart
  <2> QED BY <1>1, <1>2, <2>1 DEF Goto, GoOn, Fields
<1>4. UNCHANGED <<disk, dst, backups, spoilt, owed, baseless, journals, dir, cut,
                  unread>>
  BY DEF Probe, files, log, bounds, history
<1>5. Settled
  BY <1>1, <1>4, StillSettled
<1>6. Stores'
  BY <1>1, <1>4, <1>5, StoresStill
<1>7. Keeps(ed[p])'
  <2>1. Behind(ed[p].meta) /\ (~spoilt /\ Fit(Log.hdr, ed[p].meta) => Stands)
    BY <1>1 DEF Keeps, Idle, Inplace
  <2>2. PICK m : m = ed[p].meta
    OBVIOUS
  <2>3. Behind(m)'
    BY <1>1, <1>4, <1>5, <2>1, <2>2, BehindStays
  <2>4. Behind(ed[p].meta)'
    BY <1>3, <2>2, <2>3 DEF Behind
  <2>5. ~spoilt' /\ Fit(Log.hdr', e.meta) => Stands'
    <3>1. Log' = Log
      BY <1>4 DEF Log
    <3>2. Stands => Stands'
      BY <1>4, StandsStill
    <3> QED BY <1>3, <1>4, <2>1, <3>1, <3>2
  <2> QED BY <1>2, <1>3, <2>4, <2>5, KeepsFree
<1>8. Unmoving(p)
  <2>1. SUFFICES ASSUME NEW f, NEW t, Reached(f, t)
                 PROVE  Steady(f) /\ Clear(e, H(f), f, t)
    BY DEF Unmoving
  <2>2. Steady(f)
    BY <1>4, <2>1, SteadyStill
  <2>3. Clear(ed[p], H(f), f, t) /\ f # 0
    BY <2>1, ReachedClear
  <2>4. label = "asked" \/ Older(H(f), ed[p].meta) \/ Waiting(e)
    <3>1. GoOn(p) /\ label = "edit" => Waiting(e)
      BY <1>1, <1>3 DEF GoOn, Fields, Waiting
    <3> QED BY <1>1, <1>2, <2>1, <3>1, PastPrompt DEF Matches, HeaderMatches
  <2>5. e.pc \in Holding => f # e.fd
    BY <1>3, <2>3
  <2>6. label = "asked" \/ Waiting(e) => Early(e)
    BY <1>3 DEF Early, Opening
  <2>7. Early(ed[p]) /\ ed[p].pc # "out"
    BY <1>1 DEF Early, Opening
  <2>8. Clear(e, H(f), f, t)
    BY <1>3, <2>1, <2>4, <2>5, <2>6, <2>7, ClearNext
  <2> QED BY <2>2, <2>8
<1>9. Guarded(ed[p])'
  BY <1>1, <1>3, FreeProt, ProtFree DEF Protected, Inplace
<1>10. Len(journals) <= Len(journals') /\ ed[p].pc \notin Inplace /\ e.pc \notin Inplace
  BY <1>1, <1>3, <1>5 DEF Settled, HeadsSame, Inplace
<1> QED BY <1>1, <1>4, <1>6, <1>7, <1>8, <1>9, <1>10, QuietKept

-----------------------------------------------------------------------------
(* Steps that leave the journals alone.                                      *)

(* A step that moves names about.                                            *)
LEMMA MoveKept ==
  ASSUME Alone, Kit, NEW p \in Editors, TypeInv', Settled,
         UNCHANGED <<backups, spoilt, owed>>, Stores',
         NEW e, e = ed'[p], Onward(ed[p], e), e.prot = Nothing,
         \A f, t : Reached(f, t) => Steady(f), Keeps(ed[p])'
  PROVE  KeepInv'
<1>1. Unmoving(p)
  BY OnwardUnmoving
<1>2. ed[p].pc \notin Inplace /\ ed'[p].pc \notin Inplace
  BY DEF Onward
<1>3. Len(journals) <= Len(journals')
  BY DEF Settled, HeadsSame
<1>4. Guarded(ed[p])'
  BY ProtFree
<1> QED BY <1>1, <1>2, <1>3, <1>4, QuietKept DEF Settled

Waits == UNCHANGED <<disk, dst, backups, spoilt, owed, baseless, journals, dir, cut,
                     unread>>

(* A step that changes the editor only.                                      *)
LEMMA WaitOn ==
  ASSUME Alone, Kit, NEW p \in Editors, TypeInv', Waits,
         NEW e, e = ed'[p], e.meta = ed[p].meta, ed[p].pc # "out",
         {ed[p].pc, e.pc} \cap Inplace = {}, Unmoving(p),
         e.pc \notin {"header", "barrier", "oldBase2", "oldLog2"},
         Creating(e) => e.fd \notin dir.oldj,
         e.pc = "edit" => e.fd = 0 \/ Fit(Log.hdr, e.meta),
         e.pc = "oldLog" => dir.b = NoBase /\ e.goal # "create",
         \/ ~Idle(ed[p]) \/ Idle(e)
         \/ ~Fit(Log.hdr, e.meta),
         Guarded(ed[p])'
  PROVE  KeepInv'
<1>1. TypeInv /\ Stores /\ Keeps(ed[p])
  BY KitAt
<1>2. Settled
  BY <1>1, StillSettled DEF Waits
<1>3. Stores'
  BY <1>1, <1>2, StoresStill DEF Waits
<1>4. Behind(ed[p].meta)'
  <2>1. PICK m : m = ed[p].meta
    OBVIOUS
  <2>2. Behind(m)
    BY <1>1, <2>1 DEF Keeps
  <2>3. Behind(m)'
    BY <1>1, <1>2, <2>2, BehindStays DEF Waits
  <2> QED BY <2>1, <2>3 DEF Behind
<1>5. Log' = Log
  BY DEF Log, Waits
<1>6. ~spoilt' /\ ~Idle(e) /\ Fit(Log.hdr', e.meta) => Stands'
  <2>1. Stands => Stands'
    BY StandsStill DEF Waits
  <2>2. UNCHANGED spoilt
    BY DEF Waits
  <2> QED BY <1>1, <1>5, <2>1, <2>2 DEF Keeps
<1>7. Keeps(ed[p])'
  <2>1. UNCHANGED <<dir, cut>>
    BY DEF Waits
  <2> QED BY <1>4, <1>5, <1>6, <2>1 DEF Keeps, Creating, Idle
<1>8. Len(journals) <= Len(journals')
  BY <1>2 DEF Settled, HeadsSame
<1> QED BY <1>3, <1>7, <1>8, QuietKept DEF Waits

LEMMA WaitKept ==
  ASSUME Alone, Kit, NEW p \in Editors, TypeInv', Waits,
         NEW e, e = ed'[p], Onward(ed[p], e),
         e.pc \notin {"header", "barrier", "oldBase2", "oldLog2"},
         Creating(e) => e.fd \notin dir.oldj,
         e.pc = "edit" => e.fd = 0 \/ Fit(Log.hdr, e.meta),
         e.pc = "oldLog" => dir.b = NoBase /\ e.goal # "create",
         \/ ~Idle(ed[p]) \/ Idle(e)
         \/ ~Fit(Log.hdr, e.meta),
         Guarded(ed[p])'
  PROVE  KeepInv'
<1>1. Unmoving(p)
  <2>1. \A f, t : Reached(f, t) => Steady(f)
    BY SteadyStill DEF Waits
  <2> QED BY <2>1, OnwardUnmoving
<1>2. ed[p].pc # "out" /\ e.meta = ed[p].meta /\ {ed[p].pc, e.pc} \cap Inplace = {}
  BY DEF Onward, Opening
<1> QED BY <1>1, <1>2, WaitOn

(* ... and what the session would be owed is still in its journal.           *)
LEMMA GuardWait ==
  ASSUME Alone, Kit, NEW p \in Editors, TypeInv', Waits,
         NEW e, e = ed'[p], Onward(ed[p], e), e.prot = ed[p].prot,
         e.prot # Nothing =>
           /\ e.pc \in Protected /\ (e.pc = "edit" => e.fd # 0) /\ ~Waiting(e)
           /\ e.pc \in {"open", "adopt"} \/ (e.pc = "edit" /\ ~e.bad) =>
                e.prot.now = {e.text}
  PROVE  Guarded(ed[p])'
<1>1. SUFFICES ASSUME e.prot # Nothing PROVE Guarded(ed[p])'
  BY DEF Guarded
<1>2. TypeInv /\ Guarded(ed[p]) /\ e.meta = ed[p].meta
  BY KitAt DEF Onward
<1>3. /\ DOMAIN e.prot = {"now", "late"} /\ Fit(Log.hdr, e.meta) /\ dir.j \notin unread
      /\ ~spoilt => Mine(e.prot.now, e.prot.late)
  BY <1>1, <1>2 DEF Guarded
<1>4. Unmoving(p)
  <2>1. \A f, t : Reached(f, t) => Steady(f)
    BY SteadyStill DEF Waits
  <2> QED BY <2>1, OnwardUnmoving
<1>5. Spare' = Spare
  <2>1. ed[p].pc \notin Inplace /\ ed'[p].pc \notin Inplace
    BY DEF Onward
  <2> QED BY <2>1, SpareStill DEF Waits
<1>6. ~spoilt' => Mine(e.prot.now, e.prot.late)'
  <2>1. PICK S, L : S = e.prot.now /\ L = e.prot.late
    OBVIOUS
  <2>2. Mine(S, L) => Mine(S, L)'
    <3>1. Unmoved(p, L)
      BY <1>4, UnmovingAny
    <3> QED BY <1>2, <1>5, <3>1, MineStays DEF Waits
  <2> QED BY <1>3, <2>1, <2>2 DEF Waits
<1>7. Log' = Log /\ dir' = dir /\ unread' = unread
  BY DEF Log, Waits
<1>8. Waiting(ed[p])' <=> Waiting(e)
  BY DEF Waiting
<1> QED BY <1>1, <1>3, <1>6, <1>7, <1>8 DEF Guarded

(* yew_edit_ensure_journal.                                                  *)
LEMMA EnsureKept ==
  ASSUME Alone, Kit, NEW p \in Editors, TypeInv', Ensure(p)
  PROVE  KeepInv'
<1> DEFINE e == ed'[p]
<1>1. TypeInv /\ p \in DOMAIN ed /\ DOMAIN ed[p] = Fields /\ Guarded(ed[p])
  BY KitAt
<1>2. /\ e.pc = "open" /\ e.meta = ed[p].meta /\ e.prot = ed[p].prot
      /\ ed[p].pc = "edit" /\ ed[p].fd = 0
  BY <1>1 DEF Ensure, Fields
<1>3. /\ e.text = ed[p].text
      /\ ed[p].goal \in {"aside", "decline"} => e.goal = "aside"
  BY <1>1 DEF Ensure, Fields
<1>5. Waits /\ Onward(ed[p], e)
  <2>1. Waiting(ed[p]) => Waiting(e)
    BY <1>2, <1>3 DEF Waiting
  <2> QED BY <1>2, <1>3, <2>1
          DEF Waits, Onward, Ensure, files, log, bounds, history, Inplace, Opening,
              Holding
<1>4. Guarded(ed[p])'
  BY <1>1, <1>2, ProtFree DEF Guarded
<1> QED BY <1>2, <1>4, <1>5, WaitKept DEF Creating, Idle, Inplace

(* lock_journal of a journal just created.                                   *)
LEMMA LockKept ==
  ASSUME Alone, Kit, NEW p \in Editors, TypeInv', Lock(p)
  PROVE  KeepInv'
<1> DEFINE e == ed'[p]
<1>1. TypeInv /\ p \in DOMAIN ed /\ DOMAIN ed[p] = Fields /\ Keeps(ed[p])
  BY KitAt
<1>2. ed[p].pc = "lock" /\ Free(p, ed[p].fd)
  BY AloneFree DEF Lock
<1>3. /\ e.pc = "oldBase" /\ e.meta = ed[p].meta /\ e.prot = ed[p].prot
      /\ e.fd = ed[p].fd
  <2>1. ed' = [ed EXCEPT ![p].held = TRUE, ![p].pc = "oldBase"]
    BY <1>2 DEF Lock
  <2> QED BY <1>1, <2>1 DEF Fields
<1>4. Waits /\ Onward(ed[p], e)
  BY <1>2, <1>3 DEF Waits, Onward, Lock, files, log, bounds, history, Inplace,
                    Opening, Holding, Waiting
<1>5. Guarded(ed[p])'
  BY <1>2, <1>3, FreeProt, ProtFree DEF Protected, Inplace
<1>6. e.fd \notin dir.oldj
  BY <1>1, <1>2, <1>3 DEF Keeps, Creating
<1> QED BY <1>2, <1>3, <1>4, <1>5, <1>6, WaitKept DEF Idle, Inplace

(* Closing the journal and giving the edit up, nothing else changed.         *)
LEMMA CloseKept ==
  ASSUME Alone, Kit, NEW p \in Editors, TypeInv', Waits,
         NEW label \in {"edit", "stuck"}, Close(p, label),
         ed[p].pc \notin Inplace \cup Opening,
         ed[p].pc \notin {"edit", "stuck"},
         label = "edit" => ed[p].pc \notin {"open", "adopt"},
         label = "edit" => ed[p].prot = Nothing,
         ~Idle(ed[p]) \/ ~Fit(Log.hdr, ed[p].meta)
  PROVE  KeepInv'
<1> DEFINE e == ed'[p]
<1>1. TypeInv
  BY KitAt
<1>2. /\ e.pc = label /\ e.fd = 0 /\ e.meta = ed[p].meta /\ e.text = ed[p].text
      /\ e.prot = ed[p].prot /\ e.goal = ed[p].goal
  BY <1>1, CloseFields, EdKept
<1>3. Onward(ed[p], e) /\ (Waiting(e) /\ ed[p].pc \in {"open", "adopt"} => Waiting(ed[p]))
  BY <1>2 DEF Onward, Inplace, Opening, Waiting
<1>4. Guarded(ed[p])'
  <2>1. CASE label = "edit"
    BY <1>2, <2>1, ProtFree
  <2>2. CASE label = "stuck"
    <3>1. e.prot # Nothing => ~Waiting(ed[p]) /\ ed[p].pc \in {"open", "adopt"}
      BY <1>2, KitAt DEF Guarded, Protected
    <3> QED BY <1>2, <1>3, <2>2, <3>1, GuardWait DEF Protected
  <2> QED BY <2>1, <2>2
<1>5. ~Creating(e)
  BY <1>2 DEF Creating
<1> QED BY <1>2, <1>3, <1>4, <1>5, WaitKept

-----------------------------------------------------------------------------
(* Names that go.                                                            *)

(* When another directory still has a journal and its base.                  *)
LEMMA StayOld ==
  ASSUME NEW d, NEW f, f \in NamesIn(dir), f # dir.j,
         dir.oldj \subseteq d.oldj, dir.oldb \subseteq d.oldb
  PROVE  Stay(d, f)
BY DEF Stay, NamesIn, Beside

LEMMA StayLive ==
  ASSUME NEW d, NEW f, f \in NamesIn(dir), d.j = dir.j,
         dir.oldj \subseteq d.oldj, dir.oldb \subseteq d.oldb,
         d.b = dir.b \/ dir.b \in d.oldb
  PROVE  Stay(d, f)
BY DEF Stay, NamesIn, Beside

LEMMA StayBare ==
  ASSUME HeadsOK, NEW d, NEW f \in 1 .. Len(journals), Headed(f),
         dir.b = NoBase, f \in NamesIn(d), dir.oldb \subseteq d.oldb
  PROVE  Stay(d, f)
<1>1. Linked(H(f))
  BY DEF HeadsOK
<1>2. ~Like(NoBase, H(f))
  BY <1>1 DEF Linked, Like, NoBase
<1> QED BY <1>2 DEF Stay, Beside

(* While an editor works on the live journal it owes nobody that one.        *)
LEMMA NotLive ==
  ASSUME Kit, NEW p \in Editors, ~Early(ed[p]), NEW f, NEW t, Reached(f, t),
         \/ ~Headed(dir.j) \/ Fit(Log.hdr, ed[p].meta)
         \/ ed[p].pc \in Holding /\ dir.j = ed[p].fd
  PROVE  f # dir.j
<1>1. SUFFICES ASSUME f = dir.j PROVE FALSE
  OBVIOUS
<1>2. Clear(ed[p], H(f), f, t) /\ f # 0 /\ f \in 1 .. Len(journals) /\ Headed(f)
  BY ReachedClear
<1>3. TypeInv /\ Version(ed[p].meta) /\ Version(H(f))
  BY <1>2, KitAt, HeaderVersion
<1>4. Older(H(f), ed[p].meta)
  BY <1>2 DEF Clear
<1>5. Fit(Log.hdr, ed[p].meta)
  BY <1>1, <1>2 DEF Clear
<1>6. Fit(H(f), ed[p].meta)
  BY <1>1, <1>2, <1>5 DEF Log, H
<1> QED BY <1>3, <1>4, <1>6, OlderFit

LEMMA BehindMeta ==
  ASSUME Kit, NEW p \in Editors, ed[p].pc # "out", TypeInv', Settled,
         dir'.oldj \subseteq dir.oldj, ed'[p].meta = ed[p].meta
  PROVE  Behind(ed[p].meta)'
<1>1. PICK m : m = ed[p].meta
  OBVIOUS
<1>2. TypeInv /\ Behind(m)
  BY <1>1, KitAt DEF Keeps
<1>3. Behind(m)'
  BY <1>2, BehindStays
<1> QED BY <1>1, <1>3 DEF Behind

(* The live journal's name goes; nothing else needs it.                      *)
LEMMA NameGone ==
  ASSUME Alone, Kit, NEW p \in Editors, TypeInv', Settled,
         UNCHANGED <<journals, backups, spoilt, owed, unread>>,
         NEW e, e = ed'[p], Onward(ed[p], e), e.prot = Nothing,
         e.pc \in {"stuck", "open", "dropSync"} \/ (e.pc = "edit" /\ e.fd = 0),
         \A f, t : Reached(f, t) => \/ f # dir.j
                                    \/ dir.b = NoBase /\ f \in dir.oldj,
         ~Headed(dir'.j), dir'.oldj = dir.oldj, dir.oldb \subseteq dir'.oldb,
         \A d \in cut' : \/ d \in cut
                         \/ ~Headed(d.j) /\ d.oldj = dir.oldj /\ dir.oldb \subseteq d.oldb
  PROVE  KeepInv'
<1>1. TypeInv /\ Stores /\ dir' \in cut'
  BY KitAt DEF TypeInv, DirsOK
<1>2. \A f : Headed(f)' <=> Headed(f)
  BY DEF Headed, H
<1>3. ~Headed(dir.j)'
  BY DEF Headed, H
<1>4. \A d \in cut' : d \in cut \/ Drained(d)
  BY <1>2 DEF Drained
<1>5. Stores'
  BY <1>1, <1>3, <1>4, StoresGone
<1>6. \A f, t : Reached(f, t) => Steady(f)
  <2>1. SUFFICES ASSUME NEW f, NEW t, Reached(f, t) PROVE Steady(f)
    OBVIOUS
  <2>2. /\ f \in NamesIn(dir) /\ f \in dir.oldj /\ HeadsOK
        /\ f \in 1 .. Len(journals) /\ Headed(f)
        /\ f # dir.j \/ dir.b = NoBase
    BY <1>1, <2>1, ReachedClear DEF NamesIn, Stores
  <2>3. \A d : d.oldj = dir.oldj /\ dir.oldb \subseteq d.oldb => Stay(d, f)
    <3>1. SUFFICES ASSUME NEW d, d.oldj = dir.oldj, dir.oldb \subseteq d.oldb
                   PROVE  Stay(d, f)
      OBVIOUS
    <3>2. f \in NamesIn(d)
      BY <2>2, <3>1 DEF NamesIn
    <3>3. CASE f # dir.j
      BY <2>2, <3>1, <3>3, StayOld
    <3>4. CASE dir.b = NoBase
      BY <2>2, <3>1, <3>2, <3>4, StayBare
    <3> QED BY <2>2, <3>3, <3>4
  <2>4. Stay(dir', f) /\ \A d \in cut' : d \in cut \/ Stay(d, f)
    BY <2>3
  <2> QED BY <2>4 DEF Steady
<1>7. Keeps(ed[p])'
  <2>1. ed[p].pc # "out" /\ e.meta = ed[p].meta
    BY DEF Onward, Opening
  <2>2. Behind(ed[p].meta)'
    BY <2>1, BehindMeta
  <2>3. ~Fit(Log.hdr', e.meta)
    BY <1>3 DEF Log, NoLog, Fit, Headed, H
  <2> QED BY <2>2, <2>3, KeepsFree
<1> QED BY <1>5, <1>6, <1>7, MoveKept

(* Removing a created journal again.                                         *)
LEMMA GiveUpKept ==
  ASSUME Alone, Kit, NEW p \in Editors, TypeInv', NEW base, GiveUp(p, base),
         UNCHANGED <<disk, dst, backups, spoilt, owed, baseless, journals, unread>>,
         ed[p].pc \notin Inplace \cup Opening /\ ~Waiting(ed[p]), ed[p].prot = Nothing,
         base \/ ~Headed(dir.j), base \in BOOLEAN,
         \A f, t : Reached(f, t) => f # dir.j
  PROVE  KeepInv'
<1> DEFINE e == ed'[p]
<1>1. TypeInv /\ DOMAIN dir = {"j", "b", "oldj", "oldb", "near"}
  BY KitAt, DirFields
<1>2. Settled /\ Close(p, "stuck")
  BY <1>1, StillSettled DEF GiveUp
<1>3. e.pc = "stuck" /\ e.fd = 0 /\ e.meta = ed[p].meta /\ e.prot = Nothing
  BY <1>1, <1>2, CloseFields, EdKept
<1>4. Onward(ed[p], e)
  BY <1>3 DEF Onward, Inplace, Opening, Waiting
<1>5. PICK d \in {[dir EXCEPT !.j = 0],
                   IF base THEN [dir EXCEPT !.j = 0, !.b = NoBase] ELSE dir} :
        dir' = d /\ cut' = cut \cup {[dir EXCEPT !.j = 0], d}
  BY DEF GiveUp
<1>6. \A c \in {[dir EXCEPT !.j = 0], [dir EXCEPT !.j = 0, !.b = NoBase]} :
         c.j = 0 /\ c.oldj = dir.oldj /\ c.oldb = dir.oldb
  BY <1>1
<1>7. \A c \in {d, [dir EXCEPT !.j = 0]} :
         ~Headed(c.j) /\ c.oldj = dir.oldj /\ c.oldb = dir.oldb
  <2>1. \/ d \in {[dir EXCEPT !.j = 0], [dir EXCEPT !.j = 0, !.b = NoBase]}
        \/ d = dir /\ ~Headed(dir.j)
    BY <1>5
  <2> QED BY <1>6, <2>1 DEF Headed
<1>8. ~Headed(dir'.j) /\ dir'.oldj = dir.oldj /\ dir.oldb \subseteq dir'.oldb
  BY <1>5, <1>7
<1>9. \A c \in cut' : \/ c \in cut
                      \/ ~Headed(c.j) /\ c.oldj = dir.oldj /\ dir.oldb \subseteq c.oldb
  BY <1>5, <1>7
<1> QED BY <1>2, <1>3, <1>4, <1>8, <1>9, NameGone

-----------------------------------------------------------------------------
(* Opening.                                                                  *)

LEMMA EditorAt ==
  ASSUME Kit, NEW p \in Editors, ed[p].pc \in Inside, ed[p].pc # "dropSync"
  PROVE  /\ dir.j = ed[p].fd /\ dir.j \in 1 .. Len(journals) /\ dir.j # 0
         /\ Log = journals[dir.j] /\ Sited(ed[p]) /\ Upto(ed[p].meta, Now)
<1>1. PlaceInv /\ TruthInv /\ Placed(ed[p])
  BY KitAt DEF PlaceInv
<1>2. ed[p].fd # 0 /\ Sited(ed[p])
  BY <1>1, WorkAt
<1>3. dir.j = ed[p].fd /\ Log = journals[ed[p].fd] /\ ed[p].fd \in 1 .. Len(journals)
  BY <1>1, <1>2, LogOpen
<1>4. ed[p].pc # "out"
  BY DEF Inside
<1> QED BY <1>1, <1>2, <1>3, <1>4 DEF Placed, Versed

(* open of the journal.                                                      *)
LEMMA OpenLogKept ==
  ASSUME Alone, Kit, NEW p \in Editors, TypeInv', OpenLog(p)
  PROVE  KeepInv'
<1> DEFINE e == ed'[p]
<1>1. /\ TypeInv /\ p \in DOMAIN ed /\ DOMAIN ed[p] = Fields /\ Guarded(ed[p])
      /\ Stores /\ Keeps(ed[p]) /\ ed[p].pc = "open"
  BY KitAt DEF OpenLog
<1>2. UNCHANGED <<disk, dst, backups, spoilt, owed, baseless, unread>>
  BY DEF OpenLog, files, history
<1>3. DOMAIN dir = {"j", "b", "oldj", "oldb", "near"} /\ GoodDir(dir)
  BY <1>1, DirFields DEF TypeInv, DirsOK
<1>4. CASE /\ dir.j = 0
           /\ journals' = Append(journals, [hdr |-> NoHeader, recs |-> <<>>,
                                            safe |-> 0])
           /\ Change([dir EXCEPT !.j = Len(journals')])
           /\ ed' = [ed EXCEPT ![p].pc = "lock", ![p].fd = Len(journals'),
                               ![p].goal = "create"]
  <2>1. /\ e.pc = "lock" /\ e.fd = Len(journals') /\ e.meta = ed[p].meta
        /\ e.prot = ed[p].prot
    BY <1>1, <1>4 DEF Fields
  <2>2. e.prot = Nothing
    <3>1. ~Fit(Log.hdr, ed[p].meta)
      BY <1>4, LogFit
    <3> QED BY <1>1, <2>1, <3>1 DEF Guarded
  <2>3. Numbered
    BY <1>1 DEF TypeInv, LockInv
  <2>4. /\ Len(journals') = Len(journals) + 1 /\ Len(journals) \in Nat
        /\ \A g \in 1 .. Len(journals') : journals'[g] =
             IF g = Len(journals') THEN [hdr |-> NoHeader, recs |-> <<>>, safe |-> 0]
             ELSE journals[g]
    BY <1>4, <2>3, LogsAppend
  <2>5. Settled
    <3>1. HeadsSame
      BY <1>1, <1>4, HeadsCreated
    <3> QED BY <1>2, <3>1 DEF Settled
  <2>6. /\ dir'.j = Len(journals') /\ dir'.oldj = dir.oldj /\ dir'.oldb = dir.oldb
        /\ cut' = cut \cup {dir'}
    BY <1>3, <1>4 DEF Change
  <2>7. ~Headed(dir.j)' /\ Log'.hdr = NoHeader
    <3>1. journals'[Len(journals')].hdr = NoHeader
      BY <2>4
    <3> QED BY <2>6, <3>1 DEF Headed, H, Log, NoLog
  <2>8. Stores'
    <3>1. ASSUME NEW d \in cut', d \notin cut PROVE Drained(d)
      <4>1. d = dir'
        BY <2>6, <3>1
      <4>2. d.oldj = dir.oldj
        BY <2>6, <4>1
      <4>3. ~Headed(d.j)'
        BY <2>7, <4>1 DEF Headed, H
      <4> QED BY <4>2, <4>3 DEF Drained
    <3> QED BY <1>1, <2>5, <2>7, <3>1, StoresGone
  <2>9. \A f, t : Reached(f, t) => Steady(f)
    <3>1. SUFFICES ASSUME NEW f, NEW t, Reached(f, t) PROVE Steady(f)
      OBVIOUS
    <3>2. f # 0 /\ f \in 1 .. Len(journals) /\ f \in NamesIn(dir)
      BY <3>1, ReachedClear
    <3>3. journals'[f] = journals[f]
      <4>1. f \in 1 .. Len(journals') /\ f # Len(journals')
        BY <2>4, <3>2
      <4> QED BY <2>4, <4>1
    <3>4. Stay(dir', f)
      BY <1>4, <2>6, <3>2, StayOld
    <3> QED BY <1>2, <2>6, <3>3, <3>4 DEF Steady
  <2>10. Unmoving(p)
    <3>1. SUFFICES ASSUME NEW f, NEW t, Reached(f, t) PROVE Clear(e, H(f), f, t)
      BY <2>9 DEF Unmoving
    <3>2. f # 0 /\ f \in 1 .. Len(journals) /\ Headed(f) /\ f \in dir.oldj
      BY <1>4, <3>1, ReachedClear DEF NamesIn
    <3>3. Older(H(f), ed[p].meta)
      BY <1>1, <3>2 DEF Keeps, Behind
    <3>4. f # e.fd
      BY <2>1, <2>4, <3>2
    <3> QED BY <2>1, <3>1, <3>3, <3>4, ClearNext
  <2>11. Keeps(ed[p])'
    <3>1. Behind(ed[p].meta)'
      BY <1>1, <2>1, <2>5, <2>6, BehindMeta
    <3>2. e.fd \notin dir'.oldj
      <4>1. dir.oldj \subseteq 1 .. Len(journals)
        BY <1>3 DEF GoodDir
      <4> QED BY <2>1, <2>4, <2>6, <4>1
    <3> QED BY <2>1, <2>7, <3>1, <3>2 DEF Keeps, Fit
  <2>12. Guarded(ed[p])' /\ Len(journals) <= Len(journals')
    BY <2>2, <2>4, ProtFree
  <2>13. ed[p].pc \notin Inplace /\ e.pc \notin Inplace
    BY <1>1, <2>1 DEF Inplace
  <2> QED BY <1>2, <2>8, <2>10, <2>11, <2>12, <2>13, QuietKept
<1>5. CASE /\ dir.j # 0 /\ ed' = [ed EXCEPT ![p].pc = "adopt", ![p].fd = dir.j]
           /\ UNCHANGED log
  <2>1. /\ e.pc = "adopt" /\ e.meta = ed[p].meta /\ e.prot = ed[p].prot
        /\ e.text = ed[p].text /\ e.goal = ed[p].goal
    BY <1>1, <1>5 DEF Fields
  <2>2. Waits /\ Onward(ed[p], e)
    BY <1>1, <1>2, <1>5, <2>1 DEF Waits, Onward, log, Inplace, Opening, Waiting, Holding
  <2>3. Guarded(ed[p])'
    <3>1. ed[p].prot # Nothing => ~Waiting(e)
      BY <1>1, <2>1 DEF Guarded, Waiting
    <3> QED BY <1>1, <2>1, <2>2, <3>1, GuardWait DEF Guarded, Protected
  <2> QED BY <1>1, <2>1, <2>2, <2>3, WaitKept DEF Creating, Idle, Inplace
<1>6. CASE Close(p, "stuck") /\ UNCHANGED log
  <2>1. Waits
    BY <1>2, <1>6 DEF Waits, log
  <2> QED BY <1>1, <1>6, <2>1, CloseKept DEF Idle, Inplace, Opening
<1> QED BY <1>4, <1>5, <1>6 DEF OpenLog

(* A failing step of preserve_stale_path.                                    *)
LEMMA NotPreservedKept ==
  ASSUME Alone, Kit, NEW p \in Editors, TypeInv', NotPreserved(p),
         UNCHANGED <<disk, dst, backups, spoilt, owed, baseless, journals, unread>>,
         ed[p].pc \in {"oldBase", "oldLog"}
  PROVE  KeepInv'
<1>1. ed[p].prot = Nothing /\ Keeps(ed[p])
  BY KitAt, FreeProt DEF Protected, Inplace
<1>2. dir.j = ed[p].fd /\ Sited(ed[p])
  BY EditorAt DEF Inside
<1>3. ed[p].pc \notin Inplace \cup Opening /\ ~Waiting(ed[p])
  BY DEF Inplace, Opening, Waiting
<1>4. CASE ed[p].goal = "create"
  <2>1. ~Headed(dir.j)
    BY <1>1, <1>2, <1>4 DEF Keeps, Sited
  <2>2. \A f, t : Reached(f, t) => f # dir.j
    BY <1>3, <2>1, NotLive DEF Early
  <2>3. GiveUp(p, FALSE) /\ FALSE \in BOOLEAN
    BY <1>4 DEF NotPreserved
  <2> QED BY <1>1, <1>3, <2>1, <2>2, <2>3, GiveUpKept
<1>5. CASE ed[p].goal # "create"
  <2>1. PICK label \in {"edit", "stuck"} : Close(p, label)
    BY <1>5 DEF NotPreserved
  <2>2. Waits
    BY <1>5 DEF Waits, NotPreserved
  <2> QED BY <1>1, <1>3, <2>1, <2>2, CloseKept DEF Idle, Inplace
<1> QED BY <1>4, <1>5

-----------------------------------------------------------------------------
(* Preserving and creating.                                                  *)

(* The live journal stays, and its base, unless it is past needing one.      *)
LEMMA RangedBy ==
  ASSUME TypeInv, Settled, UNCHANGED journals, Stores, NEW d, d.j = dir.j,
         d.oldj = dir.oldj,
         Headed(dir.j) /\ dir.j \notin baseless' =>
           Beside(d, dir.j, H(dir.j)) \/ Older(H(dir.j), Now),
         Headed(dir.j) /\ Beside(dir', dir.j, H(dir.j)) =>
           Beside(d, dir.j, H(dir.j))
  PROVE  Ranged(d)
<1>1. \A f : (Headed(f)' <=> Headed(f)) /\ H(f)' = H(f)
  BY DEF Headed, H
<1>2. Now' = Now
  BY SettledNow
<1>3. Stack(dir)
  BY DEF Stores, TypeInv, DirsOK
<1>4. Stack(d)'
  BY <1>1, <1>2, <1>3 DEF Stack
<1>5. Rests(d)'
  BY <1>1, <1>2 DEF Rests
<1> QED BY <1>4, <1>5 DEF Ranged

LEMMA BareBeside ==
  ASSUME HeadsOK, NEW f \in 1 .. Len(journals), Headed(f), NEW c, NEW d,
         c.b = NoBase, c.oldb \subseteq d.oldb, Beside(c, f, H(f))
  PROVE  Beside(d, f, H(f))
<1>1. Linked(H(f))
  BY DEF HeadsOK
<1>2. ~Like(NoBase, H(f))
  BY <1>1 DEF Linked, Like, NoBase
<1> QED BY <1>2 DEF Beside

(* preserve_stale_path of the base, its two steps.                           *)
LEMMA PreserveBaseKept ==
  ASSUME Alone, Kit, NEW p \in Editors, TypeInv', PreserveBase(p)
  PROVE  KeepInv'
<1> DEFINE e == ed'[p]
<1>1. /\ TypeInv /\ p \in DOMAIN ed /\ DOMAIN ed[p] = Fields /\ Stores
      /\ Keeps(ed[p]) /\ ed[p].pc = "oldBase" /\ ed[p].prot = Nothing
  BY KitAt, FreeProt DEF PreserveBase, Protected, Inplace
<1>2. UNCHANGED <<disk, dst, backups, spoilt, owed, baseless, journals, unread>>
  BY DEF PreserveBase, files, history
<1>3. DOMAIN dir = {"j", "b", "oldj", "oldb", "near"}
  BY <1>1, DirFields
<1>4. CASE /\ dir.b = NoBase /\ UNCHANGED <<dir, cut>>
           /\ Goto(p, IF ed[p].goal = "create" THEN "base" ELSE "oldLog")
  <2>1. PICK label \in {"base", "oldLog"} :
          /\ Goto(p, label)
          /\ label = "base" <=> ed[p].goal = "create"
    BY <1>4
  <2>2. /\ e.pc = label /\ e.fd = ed[p].fd /\ e.meta = ed[p].meta
        /\ e.goal = ed[p].goal /\ e.prot = ed[p].prot
    BY <1>1, <2>1, GotoFields, EdKept
  <2>3. Waits /\ Onward(ed[p], e)
    BY <1>1, <1>2, <1>4, <2>2 DEF Waits, Onward, Inplace, Opening, Waiting, Holding
  <2>4. Guarded(ed[p])'
    BY <1>1, <2>2, ProtFree
  <2>5. Creating(e) => e.fd \notin dir.oldj
    BY <1>1, <2>1, <2>2 DEF Keeps, Creating
  <2> QED BY <1>1, <1>4, <2>1, <2>2, <2>3, <2>4, <2>5, WaitKept DEF Idle, Inplace
<1>5. CASE /\ dir.b # NoBase /\ Change([dir EXCEPT !.oldb = @ \cup {dir.b}])
           /\ Goto(p, "oldBase2")
  <2>1. /\ e.pc = "oldBase2" /\ e.fd = ed[p].fd /\ e.meta = ed[p].meta
        /\ e.goal = ed[p].goal /\ e.prot = ed[p].prot
    BY <1>1, <1>5, GotoFields, EdKept
  <2>2. PICK d : d = [dir EXCEPT !.oldb = @ \cup {dir.b}]
    OBVIOUS
  <2>3. dir' = d /\ cut' = cut \cup {d}
    BY <1>5, <2>2 DEF Change
  <2>4. /\ d.j = dir.j /\ d.b = dir.b /\ d.oldj = dir.oldj
        /\ d.oldb = dir.oldb \cup {dir.b}
    BY <1>3, <2>2
  <2>5. Settled
    BY <1>1, <1>2, StillSettled
  <2>6. \A f, h : Beside(d, f, h) <=> \E b \in dir.oldb \cup {dir.b} : Like(b, h)
    BY <2>4 DEF Beside
  <2>7. \A h : Beside(d, dir.j, h) <=> Beside(dir, dir.j, h)
    BY <2>6 DEF Beside
  <2>8. Ranged(d)
    <3>1. Headed(dir.j) /\ dir.j \notin baseless' =>
            Beside(d, dir.j, H(dir.j)) \/ Older(H(dir.j), Now)
      BY <1>1, <1>2, <2>7 DEF Stores, TypeInv, DirsOK, Rests
    <3> QED BY <1>1, <1>2, <2>3, <2>4, <2>5, <3>1, RangedBy
  <2>9. Stores'
    BY <1>1, <2>3, <2>4, <2>5, <2>7, <2>8, StoresSame
  <2>10. \A f, t : Reached(f, t) => Steady(f)
    <3>1. SUFFICES ASSUME NEW f, NEW t, Reached(f, t) PROVE Steady(f)
      OBVIOUS
    <3>2. Stay(d, f)
      BY <2>4, <3>1, ReachedClear, StayLive
    <3> QED BY <1>2, <2>3, <3>2 DEF Steady
  <2>11. Onward(ed[p], e)
    BY <1>1, <2>1 DEF Onward, Inplace, Opening, Waiting, Holding
  <2>12. Keeps(ed[p])'
    <3>1. Behind(ed[p].meta)'
      BY <1>1, <2>1, <2>3, <2>4, <2>5, BehindMeta
    <3>2. Log' = Log
      BY <1>2, <2>3, <2>4, LogSame
    <3>3. ~spoilt /\ Fit(Log.hdr, ed[p].meta) => Stands
      BY <1>1 DEF Keeps, Idle, Inplace
    <3>4. Stands => Stands'
      BY <1>2, <2>3, <2>4, <2>7, <3>2 DEF Stands
    <3>5. dir'.b \in dir'.oldb
      BY <2>3, <2>4
    <3>6. Creating(e) => e.fd \notin dir'.oldj
      BY <1>1, <2>1, <2>3, <2>4 DEF Keeps, Creating
    <3> QED BY <1>2, <2>1, <3>1, <3>2, <3>3, <3>4, <3>5, <3>6 DEF Keeps
  <2> QED BY <1>1, <1>2, <2>1, <2>5, <2>9, <2>10, <2>11, <2>12, MoveKept
<1>6. CASE NotPreserved(p)
  BY <1>1, <1>2, <1>6, NotPreservedKept
<1> QED BY <1>4, <1>5, <1>6 DEF PreserveBase

LEMMA PreserveBase2Kept ==
  ASSUME Alone, Kit, NEW p \in Editors, TypeInv', PreserveBase2(p)
  PROVE  KeepInv'
<1> DEFINE e == ed'[p]
<1>1. /\ TypeInv /\ p \in DOMAIN ed /\ DOMAIN ed[p] = Fields /\ Stores /\ PlaceInv
      /\ Keeps(ed[p]) /\ ed[p].pc = "oldBase2" /\ ed[p].prot = Nothing
      /\ Version(ed[p].meta)
  BY KitAt, FreeProt DEF PreserveBase2, Protected, Inplace
<1>2. UNCHANGED <<disk, dst, backups, spoilt, owed, baseless, journals, unread>>
  BY DEF PreserveBase2, files, history
<1>3. DOMAIN dir = {"j", "b", "oldj", "oldb", "near"}
  BY <1>1, DirFields
<1>4. /\ dir.j = ed[p].fd /\ dir.j \in 1 .. Len(journals) /\ Sited(ed[p])
      /\ Upto(ed[p].meta, Now) /\ Log = journals[dir.j]
  BY <1>1, EditorAt DEF Inside
<1>5. Settled
  BY <1>1, <1>2, StillSettled
<1>6. /\ ed[p].goal = "create" => ~Headed(dir.j)
      /\ Headed(dir.j) => Older(H(dir.j), ed[p].meta)
  BY <1>1, <1>4 DEF Sited
<1>7. ~Fit(Log.hdr, ed[p].meta)
  BY <1>1, <1>6, OlderMisfit
<1>8. Headed(dir.j) => Older(H(dir.j), Now)
  <2>1. Version(H(dir.j)) /\ Version(Now)
    BY <1>1, <1>4, HeaderVersion, NowVersion
  <2> QED BY <1>1, <1>4, <1>6, <2>1, OlderUpto
<1>9. dir.b \in dir.oldb
  BY <1>1 DEF Keeps
<1>10. PICK d : d = [dir EXCEPT !.b = NoBase]
  OBVIOUS
<1>11. /\ d.j = dir.j /\ d.b = NoBase /\ d.oldj = dir.oldj /\ d.oldb = dir.oldb
  BY <1>3, <1>10
<1>12. Headed(dir.j) /\ Beside(d, dir.j, H(dir.j)) => Beside(dir, dir.j, H(dir.j))
  BY <1>1, <1>4, <1>11, BareBeside DEF Stores
(* The base keeps a name, so that the journals owed keep theirs.             *)
<1>13. ASSUME NEW f, NEW t, Reached(f, t), dir' = d,
              \A c \in cut' : c \in cut \/ c = d
       PROVE  Steady(f)
  <2>1. Stay(d, f)
    BY <1>9, <1>11, <1>13, ReachedClear, StayLive
  <2> QED BY <1>2, <1>13, <2>1 DEF Steady
<1>14. ASSUME dir' = d, \A c \in cut' : c \in cut \/ c = d PROVE Stores'
  <2>1. Ranged(d)
    BY <1>1, <1>2, <1>5, <1>8, <1>11, <1>14, RangedBy
  <2>2. \A c \in cut' : c \in cut \/ Ranged(c)
    BY <1>14, <2>1
  <2>3. Headed(dir.j) /\ Beside(dir', dir.j, H(dir.j)) => Beside(dir, dir.j, H(dir.j))
    BY <1>12, <1>14
  <2>4. dir'.j = dir.j
    BY <1>11, <1>14
  <2> QED BY <1>1, <1>5, <2>2, <2>3, <2>4, StoresSame
<1>15. ASSUME dir' = d PROVE dir'.j = dir.j /\ dir'.oldj = dir.oldj /\ Log' = Log
  BY <1>2, <1>11, <1>15, LogSame
<1>16. CASE /\ Commit([dir EXCEPT !.b = NoBase])
            /\ Goto(p, IF ed[p].goal = "create" THEN "base" ELSE "oldLog")
  <2>1. PICK label \in {"base", "oldLog"} :
          /\ Goto(p, label)
          /\ label = "base" <=> ed[p].goal = "create"
    BY <1>16
  <2>2. /\ e.pc = label /\ e.fd = ed[p].fd /\ e.meta = ed[p].meta
        /\ e.goal = ed[p].goal /\ e.prot = ed[p].prot
    BY <1>1, <2>1, GotoFields, EdKept
  <2>3. dir' = d /\ cut' = {d}
    BY <1>10, <1>16 DEF Commit
  <2>4. Stores' /\ \A f, t : Reached(f, t) => Steady(f)
    BY <1>13, <1>14, <2>3
  <2>5. Onward(ed[p], e)
    BY <1>1, <2>2 DEF Onward, Inplace, Opening, Waiting, Holding
  <2>6. Keeps(ed[p])'
    <3>1. Behind(ed[p].meta)'
      BY <1>1, <1>5, <1>15, <2>2, <2>3, BehindMeta
    <3>2. Creating(e) => e.fd \notin dir'.oldj
      BY <1>1, <1>15, <2>1, <2>2, <2>3 DEF Keeps, Creating
    <3>3. dir'.b = NoBase
      BY <1>11, <2>3
    <3>4. ~Fit(Log.hdr', e.meta)
      BY <1>7, <1>15, <2>2, <2>3
    <3> QED BY <2>1, <2>2, <3>1, <3>2, <3>3, <3>4 DEF Keeps
  <2> QED BY <1>1, <1>2, <1>5, <2>2, <2>4, <2>5, <2>6, MoveKept
<1>17. CASE /\ Close(p, IF ed[p].goal = "replay" THEN "edit" ELSE "stuck")
            /\ \E c : /\ c = [dir EXCEPT !.b = NoBase,
                                !.j = IF ed[p].goal = "create" THEN 0 ELSE @]
                      /\ dir' = c /\ cut' = cut \cup {c, [dir EXCEPT !.b = NoBase]}
  <2>1. PICK label \in {"edit", "stuck"} : Close(p, label)
    BY <1>17
  <2>2. /\ e.pc = label /\ e.fd = 0 /\ e.meta = ed[p].meta /\ e.prot = ed[p].prot
    BY <1>1, <2>1, CloseFields, EdKept
  <2>3. Onward(ed[p], e)
    BY <1>1, <2>2 DEF Onward, Inplace, Opening, Waiting
  <2>4. CASE ed[p].goal = "create"
    <3>1. PICK c : /\ c = [dir EXCEPT !.b = NoBase, !.j = 0]
                   /\ dir' = c /\ cut' = cut \cup {c, d}
      BY <1>10, <1>17, <2>4
    <3>2. c.j = 0 /\ c.oldj = dir.oldj /\ c.oldb = dir.oldb
      BY <1>3, <3>1
    <3>3. ~Headed(c.j) /\ ~Headed(d.j)
      BY <1>6, <1>11, <2>4, <3>2 DEF Headed
    <3>4. \A x \in cut' : x \in cut \/ (~Headed(x.j) /\ x.oldj = dir.oldj
                                        /\ dir.oldb \subseteq x.oldb)
      BY <1>11, <3>1, <3>2, <3>3
    <3>5. \A f, t : Reached(f, t) => f # dir.j
      BY <1>1, <1>6, <2>4, NotLive DEF Early, Opening, Waiting
    <3>6. ~Headed(dir'.j) /\ dir'.oldj = dir.oldj /\ dir.oldb \subseteq dir'.oldb
      BY <3>1, <3>2, <3>3
    <3> QED BY <1>1, <1>2, <1>5, <2>2, <2>3, <3>4, <3>5, <3>6, NameGone
  <2>5. CASE ed[p].goal # "create"
    <3>1. dir' = d /\ cut' = cut \cup {d}
      <4>1. [dir EXCEPT !.b = NoBase, !.j = @] = [dir EXCEPT !.b = NoBase]
        BY <1>3
      <4> QED BY <1>10, <1>17, <2>5, <4>1
    <3>2. Stores' /\ \A f, t : Reached(f, t) => Steady(f)
      BY <1>13, <1>14, <3>1
    <3>3. Keeps(ed[p])'
      <4>1. Behind(ed[p].meta)'
        BY <1>1, <1>5, <1>15, <2>2, <3>1, BehindMeta
      <4>2. ~Fit(Log.hdr', e.meta)
        BY <1>7, <1>15, <2>2, <3>1
      <4> QED BY <2>1, <2>2, <4>1, <4>2, KeepsFree
    <3> QED BY <1>1, <1>2, <1>5, <2>2, <2>3, <3>2, <3>3, MoveKept
  <2> QED BY <2>4, <2>5
<1> QED BY <1>16, <1>17 DEF PreserveBase2

(* preserve_stale_path of the journal, its two steps.                        *)
LEMMA PreserveLogKept ==
  ASSUME Alone, Kit, NEW p \in Editors, TypeInv', PreserveLog(p)
  PROVE  KeepInv'
<1> DEFINE e == ed'[p]
<1>1. /\ TypeInv /\ p \in DOMAIN ed /\ DOMAIN ed[p] = Fields /\ Stores /\ PlaceInv
      /\ Keeps(ed[p]) /\ ed[p].pc = "oldLog" /\ ed[p].prot = Nothing
      /\ Version(ed[p].meta) /\ TruthInv
  BY KitAt, FreeProt DEF PreserveLog, Protected, Inplace
<1>2. UNCHANGED <<disk, dst, backups, spoilt, owed, baseless, journals, unread>>
  BY DEF PreserveLog, files, history
<1>3. DOMAIN dir = {"j", "b", "oldj", "oldb", "near"}
  BY <1>1, DirFields
<1>4. /\ dir.j = ed[p].fd /\ dir.j \in 1 .. Len(journals) /\ Log = journals[dir.j]
      /\ Upto(ed[p].meta, Now)
  BY <1>1, EditorAt DEF Inside
<1>5. Settled
  BY <1>1, <1>2, StillSettled
<1>6. ~Fit(Log.hdr, ed[p].meta)
  <2>1. ed[p].pc \in Inside
    BY <1>1 DEF Inside
  <2>2. Sure(ed[p], disk, Log, Sound(dir.j), Known)
    BY <1>1, <2>1, WorkAt
  <2> QED BY <1>1, <2>2 DEF Sure, Misfit
<1>7. Headed(dir.j) => Older(H(dir.j), ed[p].meta) /\ Older(H(dir.j), Now)
  <2>1. SUFFICES ASSUME Headed(dir.j)
                 PROVE  Older(H(dir.j), ed[p].meta) /\ Older(H(dir.j), Now)
    OBVIOUS
  <2>2. ~HeaderMatches(dir.j, ed[p].meta)
    BY <1>4, <1>6, <2>1 DEF HeaderMatches, Fit
  <2>3. Older(H(dir.j), ed[p].meta)
    BY <1>1, <2>1, <2>2, Unfit
  <2>4. Version(H(dir.j)) /\ Version(Now)
    BY <1>1, <1>4, HeaderVersion, NowVersion
  <2> QED BY <1>1, <1>4, <2>3, <2>4, OlderUpto
<1>8. CASE /\ Change([dir EXCEPT !.oldj = @ \cup {dir.j}]) /\ Goto(p, "oldLog2")
  <2>1. /\ e.pc = "oldLog2" /\ e.fd = ed[p].fd /\ e.meta = ed[p].meta
        /\ e.goal = ed[p].goal /\ e.prot = ed[p].prot
    BY <1>1, <1>8, GotoFields, EdKept
  <2>2. PICK d : d = [dir EXCEPT !.oldj = @ \cup {dir.j}]
    OBVIOUS
  <2>3. dir' = d /\ cut' = cut \cup {d}
    BY <1>8, <2>2 DEF Change
  <2>4. /\ d.j = dir.j /\ d.b = dir.b /\ d.oldj = dir.oldj \cup {dir.j}
        /\ d.oldb = dir.oldb
    BY <1>3, <2>2
  <2>5. \A f, h : Beside(d, f, h) <=> Beside(dir, f, h)
    BY <2>4 DEF Beside
  <2>6. \A f : (Headed(f)' <=> Headed(f)) /\ H(f)' = H(f)
    BY <1>2 DEF Headed, H
  <2>7. Now' = Now
    BY <1>5, SettledNow
  <2>8. Ranged(d)
    <3>1. Stack(dir) /\ Rests(dir)
      BY <1>1 DEF Stores, TypeInv, DirsOK
    <3>2. Stack(d)'
      BY <1>7, <2>4, <2>6, <2>7, <3>1 DEF Stack
    <3>3. Rests(d)'
      BY <1>2, <2>4, <2>5, <2>6, <2>7, <3>1 DEF Rests
    <3> QED BY <2>3, <2>4, <2>5, <3>2, <3>3 DEF Ranged
  <2>9. Stores'
    BY <1>1, <1>5, <2>3, <2>4, <2>5, <2>8, StoresSame
  <2>10. \A f, t : Reached(f, t) => Steady(f)
    <3>1. SUFFICES ASSUME NEW f, NEW t, Reached(f, t) PROVE Steady(f)
      OBVIOUS
    <3>2. Stay(d, f)
      BY <2>4, <3>1, ReachedClear, StayLive
    <3> QED BY <1>2, <2>3, <3>2 DEF Steady
  <2>11. Onward(ed[p], e)
    BY <1>1, <2>1 DEF Onward, Inplace, Opening, Waiting, Holding
  <2>12. Keeps(ed[p])'
    <3>1. Behind(ed[p].meta)'
      <4>1. Behind(ed[p].meta)
        BY <1>1 DEF Keeps
      <4> QED BY <1>7, <2>1, <2>3, <2>4, <2>6, <4>1 DEF Behind
    <3>2. Log' = Log
      BY <1>2, <2>3, <2>4, LogSame
    <3>3. dir'.b = NoBase /\ ed[p].goal # "create"
      BY <1>1, <2>3, <2>4 DEF Keeps
    <3>4. dir'.j \in dir'.oldj
      BY <2>3, <2>4
    <3> QED BY <1>6, <2>1, <3>1, <3>2, <3>3, <3>4 DEF Keeps, Creating
  <2> QED BY <1>1, <1>2, <1>5, <2>1, <2>9, <2>10, <2>11, <2>12, MoveKept
<1>9. CASE NotPreserved(p)
  BY <1>1, <1>2, <1>9, NotPreservedKept
<1> QED BY <1>8, <1>9 DEF PreserveLog

LEMMA PreserveLog2Kept ==
  ASSUME Alone, Kit, NEW p \in Editors, TypeInv', PreserveLog2(p)
  PROVE  KeepInv'
<1> DEFINE e == ed'[p]
<1>1. /\ TypeInv /\ p \in DOMAIN ed /\ DOMAIN ed[p] = Fields
      /\ Keeps(ed[p]) /\ ed[p].pc = "oldLog2" /\ ed[p].prot = Nothing
  BY KitAt, FreeProt DEF PreserveLog2, Protected, Inplace
<1>2. UNCHANGED <<disk, dst, backups, spoilt, owed, baseless, journals, unread>>
  BY DEF PreserveLog2, files, history
<1>3. DOMAIN dir = {"j", "b", "oldj", "oldb", "near"}
  BY <1>1, DirFields
<1>4. dir.j = ed[p].fd
  BY <1>1, EditorAt DEF Inside
<1>5. Settled
  BY <1>1, <1>2, StillSettled
<1>6. dir.b = NoBase /\ dir.j \in dir.oldj
  BY <1>1 DEF Keeps
<1>7. \A f, t : Reached(f, t) => dir.b = NoBase /\ f \in dir.oldj
  BY <1>6, ReachedClear DEF NamesIn
<1>8. PICK d : d = [dir EXCEPT !.j = 0]
  OBVIOUS
<1>9. d.j = 0 /\ d.oldj = dir.oldj /\ d.oldb = dir.oldb /\ ~Headed(d.j)
  BY <1>3, <1>8 DEF Headed
<1>10. /\ dir' = d /\ \A c \in cut' : c \in cut \/ c = d
       /\ e.pc \in {"open", "edit", "stuck"} /\ e.fd = 0
       /\ e.meta = ed[p].meta /\ e.prot = ed[p].prot
  <2>1. CASE /\ Commit([dir EXCEPT !.j = 0])
             /\ ed' = [ed EXCEPT ![p].fd = 0, ![p].held = FALSE,
                  ![p].pc = IF ed[p].goal = "again" THEN "open" ELSE "edit"]
    BY <1>1, <1>8, <2>1 DEF Commit, Fields
  <2>2. CASE /\ Change([dir EXCEPT !.j = 0])
             /\ Close(p, IF ed[p].goal = "again" THEN "stuck" ELSE "edit")
    <3>1. PICK label \in {"edit", "stuck"} : Close(p, label)
      BY <2>2
    <3>2. /\ e.pc = label /\ e.fd = 0 /\ e.meta = ed[p].meta /\ e.prot = ed[p].prot
      BY <1>1, <3>1, CloseFields, EdKept
    <3>3. dir' = d /\ cut' = cut \cup {d}
      BY <1>8, <2>2 DEF Change
    <3> QED BY <3>2, <3>3
  <2> QED BY <1>4, <2>1, <2>2 DEF PreserveLog2
<1>11. Onward(ed[p], e)
  BY <1>1, <1>10 DEF Onward, Inplace, Opening, Waiting
<1>12. \A c \in cut' : c \in cut \/ (~Headed(c.j) /\ c.oldj = dir.oldj
                                     /\ dir.oldb \subseteq c.oldb)
  BY <1>9, <1>10
<1>13. ~Headed(dir'.j) /\ dir'.oldj = dir.oldj /\ dir.oldb \subseteq dir'.oldb
  BY <1>9, <1>10
<1> QED BY <1>1, <1>2, <1>5, <1>7, <1>10, <1>11, <1>12, <1>13, NameGone

(* create_base.                                                              *)
LEMMA CreateBaseKept ==
  ASSUME Alone, Kit, NEW p \in Editors, TypeInv', CreateBase(p)
  PROVE  KeepInv'
<1> DEFINE e == ed'[p]
<1>1. /\ TypeInv /\ p \in DOMAIN ed /\ DOMAIN ed[p] = Fields /\ Stores
      /\ Keeps(ed[p]) /\ ed[p].pc = "base" /\ ed[p].prot = Nothing
  BY KitAt, FreeProt DEF CreateBase, Protected, Inplace
<1>2. UNCHANGED <<disk, dst, backups, spoilt, owed, baseless, journals, unread>>
  BY DEF CreateBase, files, history
<1>3. DOMAIN dir = {"j", "b", "oldj", "oldb", "near"}
  BY <1>1, DirFields
<1>4. dir.j = ed[p].fd /\ Sited(ed[p])
  BY <1>1, EditorAt DEF Inside
<1>5. Settled
  BY <1>1, <1>2, StillSettled
<1>6. ~Headed(dir.j) /\ dir.b = NoBase
  BY <1>1, <1>4 DEF Sited
<1>7. \A f, t : Reached(f, t) => f # dir.j
  BY <1>1, <1>6, NotLive DEF Early, Opening, Waiting
<1>8. CASE /\ ed[p].meta \in {MetaOf(dst), MetaOf(0)}
           /\ Commit([dir EXCEPT !.b = NewBase(p)]) /\ Based(p)
  <2>1. PICK b : b = NewBase(p)
    OBVIOUS
  <2>2. /\ e.pc = "header" /\ e.base = b /\ e.fd = ed[p].fd
        /\ e.meta = ed[p].meta /\ e.prot = ed[p].prot
    BY <1>1, <1>8, <2>1 DEF Based, Fields
  <2>3. PICK d : d = [dir EXCEPT !.b = b]
    OBVIOUS
  <2>4. d.j = dir.j /\ d.oldj = dir.oldj /\ d.oldb = dir.oldb /\ d.b = b
    BY <1>3, <2>3
  <2>5. dir' = d /\ cut' = {d}
    BY <1>8, <2>1, <2>3 DEF Commit
  <2>6. \A f : Headed(f)' <=> Headed(f)
    BY <1>2 DEF Headed, H
  <2>7. Stores'
    <3>1. ~Headed(dir.j)'
      BY <1>2, <1>6, <2>4, <2>5 DEF Headed, H
    <3>2. \A c \in cut' : c \in cut \/ Drained(c)
      BY <1>6, <2>4, <2>5, <2>6 DEF Drained
    <3> QED BY <1>1, <1>5, <3>1, <3>2, StoresGone
  <2>8. \A f, t : Reached(f, t) => Steady(f)
    <3>1. SUFFICES ASSUME NEW f, NEW t, Reached(f, t) PROVE Steady(f)
      OBVIOUS
    <3>2. f # dir.j /\ f \in NamesIn(dir)
      BY <1>7, <3>1, ReachedClear
    <3>3. Stay(d, f)
      BY <2>4, <3>2, StayOld
    <3> QED BY <1>2, <2>5, <3>3 DEF Steady
  <2>9. Onward(ed[p], e)
    BY <1>1, <2>2 DEF Onward, Inplace, Opening, Waiting, Holding
  <2>10. Linked(Mark(e)) /\ Intact(disk, Mark(e))
    <3>1. CASE ed[p].meta.ino = 0 \/ ~dir.near
      <4>1. b.kind = "copy"
        BY <2>1, <3>1 DEF NewBase, NoBase
      <4> QED BY <2>2, <4>1 DEF Linked, Intact, Mark
    <3>2. CASE ed[p].meta.ino # 0 /\ dir.near
      <4>1. b.kind = "link" /\ b.ino = dst
        BY <2>1, <3>2 DEF NewBase, NoBase
      <4>2. ed[p].meta.ino = dst /\ dst # 0 /\ ed[p].meta.mtime = disk[dst].mtime
        BY <1>8, <3>2 DEF MetaOf, At
      <4> QED BY <2>2, <4>1, <4>2 DEF Linked, Intact, Mark
    <3> QED BY <3>1, <3>2
  <2>11. Keeps(ed[p])'
    <3>1. Behind(ed[p].meta)'
      BY <1>1, <1>5, <2>2, <2>4, <2>5, BehindMeta
    <3>2. e.fd \notin dir'.oldj
      BY <1>1, <2>2, <2>4, <2>5 DEF Keeps, Creating
    <3>3. dir'.b = e.base /\ cut' = {dir'}
      BY <2>2, <2>4, <2>5
    <3>4. ~Fit(Log.hdr', e.meta)
      BY <1>2, <1>6, <2>4, <2>5 DEF Log, NoLog, Fit, Headed, H
    <3>5. Intact(disk, Mark(e)) => Intact(disk', Mark(e))
      BY <1>2
    <3> QED BY <2>2, <2>10, <3>1, <3>2, <3>3, <3>4, <3>5 DEF Keeps, Mark
  <2> QED BY <1>1, <1>2, <1>5, <2>2, <2>7, <2>8, <2>9, <2>11, MoveKept
<1>9. dir.b.kind # "link"
  BY <1>6 DEF NoBase
<1>10. ASSUME NEW base \in BOOLEAN, GiveUp(p, base) PROVE KeepInv'
  <2>1. ed[p].pc \notin Inplace \cup Opening /\ ~Waiting(ed[p])
    BY <1>1 DEF Inplace, Opening, Waiting
  <2> QED BY <1>1, <1>2, <1>6, <1>7, <1>10, <2>1, GiveUpKept
<1> QED BY <1>8, <1>9, <1>10 DEF CreateBase

(* write_header.                                                             *)
LEMMA WriteHeaderKept ==
  ASSUME Alone, Kit, NEW p \in Editors, TypeInv', WriteHeader(p)
  PROVE  KeepInv'
<1> DEFINE e == ed'[p]
<1>1. /\ TypeInv /\ p \in DOMAIN ed /\ DOMAIN ed[p] = Fields /\ Stores
      /\ Keeps(ed[p]) /\ ed[p].pc = "header" /\ ed[p].prot = Nothing
  BY KitAt, FreeProt DEF WriteHeader, Protected, Inplace
<1>2. UNCHANGED <<disk, dst, backups, spoilt, owed, baseless, unread>>
  BY DEF WriteHeader, files, history
<1>4. /\ dir.j = ed[p].fd /\ Sited(ed[p]) /\ dir.j \in 1 .. Len(journals)
      /\ dir.j # 0
  BY <1>1, EditorAt DEF Inside
<1>6. ~Headed(dir.j)
  BY <1>1, <1>4 DEF Sited
<1>7. \A f, t : Reached(f, t) => f # dir.j
  BY <1>1, <1>6, NotLive DEF Early, Opening, Waiting
<1>8. CASE /\ SetJournal(ed[p].fd, [journals[ed[p].fd] EXCEPT !.hdr = Mark(ed[p])])
           /\ ed' = [ed EXCEPT ![p].pc = "barrier", ![p].base = NoBase]
           /\ UNCHANGED <<dir, cut>>
  <2>1. /\ e.pc = "barrier" /\ e.fd = ed[p].fd
        /\ e.meta = ed[p].meta /\ e.prot = ed[p].prot
    BY <1>1, <1>8 DEF Fields
  <2>2. PICK h : h = Mark(ed[p])
    OBVIOUS
  <2>3. PICK f : f = dir.j
    OBVIOUS
  <2>4. /\ Len(journals') = Len(journals) /\ Len(journals) \in Nat
        /\ \A g \in 1 .. Len(journals) : g # f => journals'[g] = journals[g]
        /\ journals'[f].hdr = h
    <3>1. Numbered /\ GoodLog(journals[f])
      BY <1>1, <1>4, <2>3, LogOf DEF TypeInv, LockInv
    <3>2. PICK x : x = [journals[f] EXCEPT !.hdr = h]
      OBVIOUS
    <3>3. SetJournal(f, x) /\ f \in 1 .. Len(journals)
      BY <1>4, <1>8, <2>2, <2>3, <3>2
    <3>4. x.hdr = h
      BY <3>1, <3>2 DEF GoodLog
    <3>5. /\ Len(journals') = Len(journals)
          /\ \A g \in 1 .. Len(journals) :
               journals'[g] = IF g = f THEN x ELSE journals[g]
      BY <3>1, <3>3, LogsSet
    <3>6. Len(journals) \in Nat
      BY <3>1, LogsSeq
    <3> QED BY <3>3, <3>4, <3>5, <3>6
  <2>5. /\ H(f)' = h
        /\ \A g \in 1 .. Len(journals) : g # f => H(g)' = H(g) /\ (Headed(g)' <=> Headed(g))
    BY <2>4 DEF H, Headed
  <2>6. /\ dir.b = ed[p].base /\ Linked(h) /\ (~spoilt => Intact(disk, h))
        /\ f \notin dir.oldj /\ cut = {dir} /\ Behind(ed[p].meta)
    BY <1>1, <1>4, <2>2, <2>3 DEF Keeps, Creating
  <2>7. h.ino = ed[p].meta.ino /\ h.mtime = ed[p].meta.mtime /\ h.base = dir.b
    BY <2>2, <2>6 DEF Mark
  <2>8. Now' = Now
    BY <1>2, NowStill
  <2>9. dir.oldj \subseteq 1 .. Len(journals)
    BY <1>1 DEF TypeInv, DirsOK, GoodDir
  <2>10. Like(dir.b, h) /\ Beside(dir, f, h)
    BY <2>3, <2>6, <2>7 DEF Like, Linked, Beside
  <2>11. Stack(dir)'
    <3>1. SUFFICES ASSUME NEW g \in dir.oldj, Headed(g)'
                   PROVE  Older(H(g)', Now') /\ Older(H(g)', h)
      BY <1>8, <2>3, <2>5 DEF Stack
    <3>2. Headed(g) /\ H(g)' = H(g)
      BY <2>5, <2>6, <2>9, <3>1
    <3>3. Older(H(g), Now) /\ Older(H(g), ed[p].meta)
      BY <1>1, <2>6, <3>2 DEF Stores, Stack, Behind
    <3> QED BY <2>7, <2>8, <3>2, <3>3 DEF Older
  <2>12. Rests(dir)' /\ Level(dir)'
    BY <1>8, <2>3, <2>5, <2>10 DEF Rests, Level, Beside, Like
  <2>13. HeadsOK'
    <3>1. SUFFICES ASSUME NEW g \in 1 .. Len(journals'), Headed(g)'
                   PROVE  Linked(H(g)')
      BY DEF HeadsOK, Linked
    <3>2. CASE g = f
      BY <2>5, <2>6, <3>2
    <3>3. CASE g # f
      <4>1. g \in 1 .. Len(journals) /\ H(g)' = H(g) /\ Headed(g)
        BY <2>4, <2>5, <3>1, <3>3
      <4> QED BY <1>1, <4>1 DEF Stores, HeadsOK
    <3> QED BY <3>2, <3>3
  <2>14. Stores'
    BY <1>8, <2>6, <2>11, <2>12, <2>13 DEF Stores
  <2>15. Log'.hdr = h
    BY <1>4, <1>8, <2>3, <2>4 DEF Log
  <2>16. Fit(h, e.meta)
    <3>1. h # NoHeader
      BY <2>6 DEF NoHeader, NoBase, Linked
    <3> QED BY <2>1, <2>7, <3>1 DEF Fit
  <2>17. Keeps(ed[p])'
    <3>1. Behind(ed[p].meta)'
      BY <1>8, <2>1, <2>5, <2>6, <2>9 DEF Behind
    <3>2. ~spoilt => Stands'
      <4>1. Stands' = (\/ dir.j \in baseless
                       \/ Intact(disk, h) /\ Beside(dir, dir.j, h))
        BY <1>2, <1>8, <2>15 DEF Stands, Intact, Beside, Like
      <4> QED BY <2>3, <2>6, <2>10, <4>1
    <3> QED BY <1>2, <1>8, <2>1, <2>6, <2>15, <2>16, <3>1, <3>2 DEF Keeps, Creating
  <2>18. Unmoving(p)
    <3>1. Onward(ed[p], e)
      BY <1>1, <2>1 DEF Onward, Inplace, Opening, Waiting, Holding
    <3>2. ASSUME NEW g, NEW t, Reached(g, t) PROVE Steady(g)
      <4>1. g # f /\ g \in 1 .. Len(journals) /\ g \in NamesIn(dir)
        BY <1>7, <2>3, <3>2, ReachedClear
      <4> QED BY <1>2, <1>8, <2>4, <4>1 DEF Steady, Stay
    <3> QED BY <3>1, <3>2, OnwardUnmoving
  <2>19. Guarded(ed[p])'
    BY <1>1, <2>1, ProtFree
  <2>20. Len(journals) <= Len(journals') /\ ed[p].pc \notin Inplace /\ e.pc \notin Inplace
    BY <1>1, <2>1, <2>4 DEF Inplace
  <2> QED BY <1>2, <2>14, <2>17, <2>18, <2>19, <2>20, QuietKept
<1>9. CASE GiveUp(p, TRUE) /\ UNCHANGED journals
  <2>1. ed[p].pc \notin Inplace \cup Opening /\ ~Waiting(ed[p]) /\ TRUE \in BOOLEAN
    BY <1>1 DEF Inplace, Opening, Waiting
  <2> QED BY <1>1, <1>2, <1>6, <1>7, <1>9, <2>1, GiveUpKept
<1> QED BY <1>8, <1>9 DEF WriteHeader, Mark

(* The editor goes on to record into the live journal.                       *)
LEMMA EditKeeps ==
  ASSUME Alone, Kit, NEW p \in Editors, TypeInv', Settled,
         UNCHANGED <<dir, cut, backups, spoilt, baseless>>,
         NEW e, e = ed'[p], e.pc = "edit", e.fd = dir.j, e.meta = ed[p].meta,
         ~Idle(ed[p]), Fit(Log.hdr, e.meta), Log'.hdr = Log.hdr
  PROVE  Stores' /\ Keeps(ed[p])' /\ ed[p].pc \notin Inplace /\ e.pc \notin Inplace
<1>1. TypeInv /\ Stores /\ Keeps(ed[p])
  BY KitAt
<1>2. Stores'
  BY <1>1, StoresStill
<1>3. Keeps(ed[p])'
  <2>1. ed[p].pc # "out"
    BY DEF Idle
  <2>2. Behind(ed[p].meta)'
    BY <2>1, BehindMeta
  <2>3. ~spoilt => Stands
    BY <1>1 DEF Keeps
  <2>4. Stands => Stands'
    BY DEF Stands, Intact, Beside, Like, Settled
  <2> QED BY <2>2, <2>3, <2>4 DEF Keeps, Creating
<1> QED BY <1>2, <1>3 DEF Inplace, Idle

LEMMA EditKept ==
  ASSUME Alone, Kit, NEW p \in Editors, TypeInv', Settled,
         UNCHANGED <<dir, cut, backups, spoilt, owed, baseless, unread>>,
         NEW e, e = ed'[p], e.pc = "edit", e.fd = dir.j, e.meta = ed[p].meta,
         ~Early(ed[p]), ~Idle(ed[p]), Fit(Log.hdr, e.meta),
         Log'.hdr = Log.hdr,
         \A f \in 1 .. Len(journals) : f # dir.j => journals'[f] = journals[f]
  PROVE  /\ Unmoving(p)
         /\ Guarded(ed[p])' => KeepInv'
<1>2. ASSUME NEW f, NEW t, Reached(f, t)
      PROVE  /\ f # dir.j /\ Steady(f) /\ Clear(e, H(f), f, t)
  <2>1. /\ f \in NamesIn(dir) /\ f \in 1 .. Len(journals)
        /\ Clear(ed[p], H(f), f, t)
    BY <1>2, ReachedClear
  <2>2. f # dir.j
    BY <1>2, NotLive
  <2>3. Steady(f)
    BY <2>1, <2>2 DEF Steady, Stay
  <2>4. Older(H(f), e.meta)
    BY <2>1 DEF Clear
  <2>5. Clear(e, H(f), f, t)
    BY <1>2, <2>2, <2>4, OlderUnfit DEF Clear
  <2> QED BY <2>2, <2>3, <2>5
<1>3. Unmoving(p)
  BY <1>2 DEF Unmoving
<1>4. Stores' /\ Keeps(ed[p])' /\ ed[p].pc \notin Inplace /\ e.pc \notin Inplace
  BY EditKeeps
<1>5. Len(journals) <= Len(journals')
  BY DEF Settled, HeadsSame
<1>6. Guarded(ed[p])' => KeepInv'
  BY <1>3, <1>4, <1>5, QuietKept DEF Settled
<1> QED BY <1>3, <1>6

(* The fsyncs at the end of yew_journal_open.                                *)
LEMMA BarrierKept ==
  ASSUME Alone, Kit, NEW p \in Editors, TypeInv', Barrier(p)
  PROVE  KeepInv'
<1> DEFINE e == ed'[p]
<1>1. /\ TypeInv /\ p \in DOMAIN ed /\ DOMAIN ed[p] = Fields /\ Stores
      /\ Keeps(ed[p]) /\ ed[p].pc = "barrier" /\ ed[p].prot = Nothing
  BY KitAt, FreeProt DEF Barrier, Protected, Inplace
<1>2. UNCHANGED <<disk, dst, backups, spoilt, owed, baseless, unread>>
  BY DEF Barrier, files, history
<1>4. /\ dir.j = ed[p].fd /\ dir.j \in 1 .. Len(journals) /\ dir.j # 0
      /\ Log = journals[dir.j]
  BY <1>1, EditorAt DEF Inside
<1>5. Fit(Log.hdr, ed[p].meta) /\ cut = {dir}
  BY <1>1 DEF Keeps
<1>6. ~Early(ed[p]) /\ ~Idle(ed[p])
  BY <1>1 DEF Early, Opening, Waiting, Inplace, Idle
<1>7. \A f, t : Reached(f, t) => f # dir.j
  BY <1>5, <1>6, NotLive
<1>8. CASE /\ SetJournal(ed[p].fd, [journals[ed[p].fd] EXCEPT !.safe = 1])
           /\ Commit(dir) /\ Goto(p, "edit")
  <2>1. /\ e.pc = "edit" /\ e.fd = ed[p].fd /\ e.meta = ed[p].meta
        /\ e.prot = ed[p].prot
    BY <1>1, <1>8, GotoFields, EdKept
  <2>2. UNCHANGED <<dir, cut>>
    BY <1>5, <1>8 DEF Commit
  <2>3. PICK f : f = dir.j
    OBVIOUS
  <2>4. PICK x : x = [journals[f] EXCEPT !.safe = 1]
    OBVIOUS
  <2>5. /\ SetJournal(f, x) /\ f \in 1 .. Len(journals) /\ x.hdr = journals[f].hdr
    <3>1. GoodLog(journals[f])
      BY <1>1, <1>4, <2>3, LogOf
    <3> QED BY <1>4, <1>8, <2>3, <2>4, <3>1 DEF GoodLog
  <2>6. Settled
    BY <1>1, <1>2, <2>5, HeadsSet DEF Settled
  <2>7. \A g \in 1 .. Len(journals) :
          journals'[g] = IF g = f THEN x ELSE journals[g]
    BY <1>1, <2>5, LogsSet DEF TypeInv, LockInv
  <2>8. Log'.hdr = Log.hdr
    BY <1>4, <2>2, <2>3, <2>5, <2>7 DEF Log
  <2>9. Guarded(ed[p])'
    BY <1>1, <2>1, ProtFree
  <2> QED BY <1>2, <1>4, <1>5, <1>6, <2>1, <2>2, <2>3, <2>6, <2>7, <2>8, <2>9,
             EditKept
<1>9. CASE GiveUp(p, TRUE) /\ UNCHANGED journals
  <2>1. ed[p].pc \notin Inplace \cup Opening /\ ~Waiting(ed[p]) /\ TRUE \in BOOLEAN
    BY <1>6 DEF Early, Idle
  <2> QED BY <1>1, <1>2, <1>7, <1>9, <2>1, GiveUpKept
<1> QED BY <1>8, <1>9 DEF Barrier

-----------------------------------------------------------------------------
(* Journals rewritten: adopting, recording, syncing.                         *)

LEMMA LogsRange ==
  ASSUME TypeInv PROVE Len(journals) \in Nat
BY LenProperties DEF TypeInv, LockInv, Numbered

(* One journal rewritten; the headers are as they were.                      *)
LEMMA LogSetTo ==
  ASSUME TypeInv, NEW f \in 1 .. Len(journals), NEW y, SetJournal(f, y),
         y.hdr = journals[f].hdr
  PROVE  /\ HeadsSame /\ Len(journals') = Len(journals) /\ journals'[f] = y
         /\ \A g \in 1 .. Len(journals) : g # f => journals'[g] = journals[g]
<1>1. Numbered
  BY DEF TypeInv, LockInv
<1> QED BY <1>1, HeadsSet, LogsSet

(* A journal cut to its valid prefix, or not.                                *)
LEMMA LogTrimmed ==
  ASSUME TypeInv, NEW f \in 1 .. Len(journals), NEW x, x = journals[f],
         x.hdr # NoHeader, NEW r, r = ValidPrefix(x.recs),
         \/ UNCHANGED journals
         \/ SetJournal(f, [x EXCEPT !.recs = r, !.safe = Len(r) + 1])
  PROVE  /\ HeadsSame /\ Len(journals') = Len(journals)
         /\ \A g \in 1 .. Len(journals) : g # f => journals'[g] = journals[g]
         /\ Alike(x, journals'[f])
         /\ journals'[f] = x \/ journals'[f].safe = Size(journals'[f])
<1>1. CASE UNCHANGED journals
  BY <1>1, HeadsStill, AlikeSelf
<1>2. CASE SetJournal(f, [x EXCEPT !.recs = r, !.safe = Len(r) + 1])
  <2> DEFINE y == [x EXCEPT !.recs = r, !.safe = Len(r) + 1]
  <2>1. GoodLog(x)
    BY LogOf
  <2>2. y.hdr = x.hdr /\ y.recs = r /\ y.safe = Len(r) + 1 /\ SetJournal(f, y)
    BY <1>2, <2>1 DEF GoodLog
  <2> HIDE DEF y
  <2>3. Alike(x, y) /\ y.safe = Size(y)
    BY <2>1, <2>2, CutAlike DEF Size
  <2>4. /\ HeadsSame /\ Len(journals') = Len(journals) /\ journals'[f] = y
        /\ \A g \in 1 .. Len(journals) : g # f => journals'[g] = journals[g]
    BY <2>2, LogSetTo
  <2> QED BY <2>3, <2>4
<1> QED BY <1>1, <1>2

(* What the session itself is owed, when its journal is rewritten.           *)
LEMMA MineTo ==
  ASSUME UNCHANGED <<disk, dir, cut, backups, baseless>>, NEW f, f = dir.j,
         f \in 1 .. Len(journals'), NEW y, y = journals'[f], NEW h, h = y.hdr,
         NEW t, NEW S, NEW L, NEW B, B = ToSet(backups),
         Bears(disk, baseless, {dir}, f, h, t, B), Told({y}, h, t, S),
         \/ Bears(disk, baseless, cut, f, h, t, B) /\ Told(Survivors(y), h, t, L)
         \/ Later(L)'
  PROVE  Mine(S, L)'
<1>1. H(f)' = h
  BY DEF H
<1>2. HoldsNow(S, f, t, B)'
  BY <1>1 DEF HoldsNow
<1>3. HoldsLate(L, f, t, B)' \/ Later(L)'
  BY <1>1 DEF HoldsLate
<1>4. ToSet(backups)' = B /\ dir'.j = f
  OBVIOUS
<1> QED BY <1>2, <1>3, <1>4 DEF Mine

LEMMA MineOf ==
  ASSUME NEW S, NEW L, Mine(S, L), NEW f, f = dir.j,
         NEW x, x = journals[f], NEW h, h = x.hdr, NEW B, B = ToSet(backups)
  PROVE  \E t : /\ Bears(disk, baseless, {dir}, f, h, t, B) /\ Told({x}, h, t, S)
                /\ \/ Bears(disk, baseless, cut, f, h, t, B)
                      /\ Told(Survivors(x), h, t, L)
                   \/ Later(L)
BY DEF Mine, HoldsNow, HoldsLate, H

LEMMA MineAlike ==
  ASSUME Alone, NEW p \in Editors, TypeInv, TypeInv',
         UNCHANGED <<disk, dir, cut, backups, baseless>>, Spare \subseteq Spare',
         NEW f \in 1 .. Len(journals), f = dir.j, Len(journals) = Len(journals'),
         NEW x, x = journals[f], NEW y, y = journals'[f], Alike(x, y),
         y = x \/ y.safe = Size(y), x.hdr # NoHeader,
         NEW S, NEW L, Mine(S, L), Unmoved(p, L)
  PROVE  Mine(S, L)'
<1>1. PICK B, h : B = ToSet(backups) /\ h = x.hdr
  OBVIOUS
<1>2. PICK t : /\ Bears(disk, baseless, {dir}, f, h, t, B) /\ Told({x}, h, t, S)
               /\ \/ Bears(disk, baseless, cut, f, h, t, B)
                     /\ Told(Survivors(x), h, t, L)
                  \/ Later(L)
  BY <1>1, MineOf
<1>3. h = y.hdr /\ Told({y}, h, t, S)
  BY <1>1, <1>2, ToldAlike DEF Alike
<1>4. Proper(x) /\ Proper(y)
  <2>1. f \in 1 .. Len(journals')
    OBVIOUS
  <2>2. GoodLog(y)'
    BY <2>1 DEF TypeInv, LogsOK
  <2>3. y.recs \in Seq(Recs)
    BY <2>2 DEF GoodLog, Recs
  <2> QED BY <2>2, <2>3, LogProper DEF GoodLog, Proper
<1>5. Told(Survivors(x), h, t, L) => Told(Survivors(y), h, t, L)
  <2>1. SUFFICES ASSUME Told(Survivors(x), h, t, L), y # x
                 PROVE  Told(Survivors(y), h, t, L)
    OBVIOUS
  <2>2. Told({x}, h, t, L)
    BY <1>1, <1>4, <2>1, ToldWhole
  <2>3. Told({y}, h, t, L)
    BY <2>2, ToldAlike
  <2> QED BY <1>1, <1>4, <2>1, <2>3, ToldSafe
<1>6. Later(L) => Later(L)'
  <2>1. Len(journals) <= Len(journals')
    BY LogsRange
  <2> QED BY <2>1, LaterStays
<1> QED BY <1>1, <1>2, <1>3, <1>5, <1>6, MineTo

(* adopt_existing_journal.                                                   *)
LEMMA AdoptKept ==
  ASSUME Alone, Kit, NEW p \in Editors, TypeInv', Adopt(p)
  PROVE  KeepInv'
<1> DEFINE e == ed[p]
           u == ed'[p]
           f == e.fd
           x == journals[f]
           r == ValidPrefix(x.recs)
<1>1. /\ TypeInv /\ DOMAIN e = Fields /\ p \in DOMAIN ed /\ Guarded(e) /\ e.pc = "adopt"
      /\ OwedOK /\ BackupsOK /\ Keeps(e)
  BY KitAt DEF Adopt
<1>2. UNCHANGED <<disk, dst, backups, spoilt, baseless, dir, cut>>
  BY DEF Adopt, files, history
<1>3. /\ dir.j = f /\ f \in 1 .. Len(journals) /\ Log = x /\ f # 0
  BY <1>1, EditorAt DEF Inside
<1>4. CASE /\ HeaderMatches(f, e.meta) /\ Unread(p, f, r)
           /\ ed' = [ed EXCEPT ![p].pc = "edit", ![p].held = TRUE]
           /\ IF r = x.recs THEN UNCHANGED journals
              ELSE SetJournal(f, [x EXCEPT !.recs = r, !.safe = Len(r) + 1])
  <2>1. Fit(x.hdr, e.meta) /\ x.hdr # NoHeader
    BY <1>4 DEF Fit, HeaderMatches
  <2>2. /\ u.pc = "edit" /\ u.fd = f /\ u.meta = e.meta /\ u.text = e.text
        /\ u.prot = e.prot
    BY <1>1, <1>4 DEF Fields
  <2>3. /\ HeadsSame /\ Len(journals') = Len(journals)
        /\ \A g \in 1 .. Len(journals) : g # f => journals'[g] = journals[g]
        /\ Alike(x, journals'[f])
        /\ journals'[f] = x \/ journals'[f].safe = Size(journals'[f])
    BY <1>1, <1>3, <1>4, <2>1, LogTrimmed
  <2>4. Settled
    BY <1>2, <2>3 DEF Settled
  <2>5. Log'.hdr = Log.hdr
    BY <1>2, <1>3, <2>3 DEF Log, Alike
  <2>6. ~Idle(e) /\ e.pc \notin Inplace
    BY <1>1 DEF Inplace, Idle
  <2>7. Fit(Log.hdr, u.meta)
    BY <1>3, <2>1, <2>2
  <2>8. CASE e.goal # "aside"
    <3>1. ~Early(e) /\ ~Waiting(u)
      BY <1>1, <1>3, <2>2, <2>8 DEF Early, Opening, Waiting
    <3>2. UNCHANGED <<owed, unread>>
      BY <1>4, <2>8 DEF Unread
    <3>3. Unmoving(p) /\ (Guarded(ed[p])' => KeepInv')
      BY <1>2, <1>3, <2>2, <2>3, <2>4, <2>5, <2>6, <2>7, <3>1, <3>2, EditKept
    <3>4. Guarded(ed[p])'
      <4>1. SUFFICES ASSUME e.prot # Nothing PROVE Guarded(ed[p])'
        BY <2>2, ProtFree
      <4>2. /\ DOMAIN e.prot = {"now", "late"} /\ e.prot.now = {e.text}
            /\ dir.j \notin unread /\ (~spoilt => Mine(e.prot.now, e.prot.late))
        BY <1>1, <4>1 DEF Guarded
      <4>3. PICK S, L : S = e.prot.now /\ L = e.prot.late
        OBVIOUS
      <4>4. Mine(S, L) => Mine(S, L)'
        <5>1. Unmoved(p, L)
          BY <3>3, UnmovingAny
        <5>2. Spare' = Spare
          BY <1>2, <2>2, <2>6, SpareStill DEF Inplace
        <5> QED BY <1>1, <1>2, <1>3, <2>1, <2>3, <5>1, <5>2, MineAlike
      <4>5. ~spoilt' => Mine(S, L)'
        BY <1>2, <4>2, <4>3, <4>4
      <4>6. ~spoilt' => Mine(ed[p].prot.now, ed[p].prot.late)'
        BY <2>2, <4>3, <4>5
      <4>7. Fit(Log.hdr', u.meta) /\ dir'.j \notin unread' /\ ~Waiting(ed[p])'
        BY <1>2, <2>5, <2>7, <3>1, <3>2, <4>2 DEF Waiting
      <4> QED BY <1>3, <2>2, <4>2, <4>6, <4>7 DEF Guarded, Protected
    <3> QED BY <3>3, <3>4
  (* Nobody is owed what the journal gives any more, and the others stay.    *)
  <2>9. CASE e.goal = "aside"
    <3>1. Waiting(e) /\ Early(e) /\ e.pc # "out" /\ e.prot = Nothing
      BY <1>1, <2>9 DEF Waiting, Early, Guarded
    <3>2. /\ owed' = owed \ Answered(f, After(e.text, r, Len(r)))
          /\ unread' \subseteq unread \cup {f}
      BY <1>4, <2>9 DEF Unread
    <3>3. ASSUME NEW g, NEW t, Reached(g, t), g # f
          PROVE  Steady(g) /\ Clear(u, H(g), g, t)
      <4>1. /\ g # 0 /\ Headed(g) /\ g \in NamesIn(dir) /\ g \in 1 .. Len(journals)
            /\ g \in dir.oldj
        BY <1>3, <3>3, ReachedClear DEF NamesIn
      <4>2. Older(H(g), e.meta)
        BY <1>1, <4>1 DEF Keeps, Behind
      <4>3. Clear(u, H(g), g, t)
        BY <2>2, <3>3, <4>2, ClearNext
      <4>4. Steady(g)
        BY <1>2, <2>3, <3>2, <3>3, <4>1 DEF Steady, Stay
      <4> QED BY <4>3, <4>4
    <3>4. ASSUME NEW o \in owed', NEW S \in {o.now, o.late}
          PROVE  o \in owed /\ Unmoved(p, S)
      <4>1. o \in owed /\ o \notin Answered(f, After(e.text, r, Len(r)))
        BY <3>2, <3>4
      <4>2. SUFFICES ASSUME NEW g, NEW t, Reached(g, t), Gives(journals[g], t) \in S,
                            g = f
                     PROVE  FALSE
        BY <3>3, <4>1 DEF Unmoved
      <4>3. f \notin unread /\ Clear(e, H(f), f, t)
        BY <4>2, ReachedClear DEF Reached, AllClear
      <4>4. t = e.text
        BY <2>1, <3>1, <4>3 DEF Clear, H
      <4>5. After(e.text, r, Len(r)) \in S
        BY <4>2, <4>4 DEF Gives, Leads
      <4> QED BY <3>4, <4>1, <4>3, <4>5 DEF Answered
    <3>5. \A o \in owed' : o \in owed /\ Unmoved(p, o.now) /\ Unmoved(p, o.late)
      BY <3>4
    <3>6. Stores' /\ Keeps(ed[p])' /\ u.pc \notin Inplace
      BY <1>2, <1>3, <2>2, <2>4, <2>5, <2>6, <2>7, EditKeeps
    <3>7. Spare' = Spare /\ Len(journals) <= Len(journals')
      BY <1>2, <2>3, <2>4, <2>6, <3>6, SpareStill DEF Settled, HeadsSame
    <3>8. OwedOK'
      BY <1>1, <1>2, <3>5, <3>7, OwedStays
    <3>9. BackupsOK'
      <4>1. \A q \in Editors : q = p
        BY DEF Alone
      <4> QED BY <1>1, <1>2, <3>6, <4>1 DEF BackupsOK
    <3>10. Guarded(ed[p])'
      BY <2>2, <3>1, ProtFree
    <3> QED BY <3>6, <3>8, <3>9, <3>10, KeepOf
  <2> QED BY <2>8, <2>9
<1>5. CASE /\ UNCHANGED <<journals, unread, owed>> /\ ~HeaderMatches(f, e.meta)
           /\ ed' = [ed EXCEPT ![p].pc = "oldBase", ![p].goal = "again",
                               ![p].held = TRUE]
  <2>1. /\ u.pc = "oldBase" /\ u.meta = e.meta /\ u.prot = e.prot /\ u.fd = f
        /\ u.goal = "again"
    BY <1>1, <1>5 DEF Fields
  <2>2. ~Fit(Log.hdr, e.meta)
    BY <1>3, <1>5 DEF Fit, HeaderMatches
  <2>3. Guarded(ed[p])'
    BY <1>1, <2>1, <2>2, ProtFree DEF Guarded
  <2>4. Waits
    BY <1>2, <1>5 DEF Waits
  <2>5. Unmoving(p)
    <3>1. SUFFICES ASSUME NEW g, NEW t, Reached(g, t)
                   PROVE  Steady(g) /\ Clear(u, H(g), g, t)
      BY DEF Unmoving
    <3>2. Older(H(g), e.meta)
      BY <1>1, <1>3, <1>5, <3>1, PastPrompt
    <3>3. u.pc \notin Holding
      BY <2>1 DEF Holding
    <3> QED BY <2>1, <2>4, <3>1, <3>2, <3>3, ClearNext, SteadyStill DEF Waits
  <2>6. {e.pc, u.pc} \cap Inplace = {}
    BY <1>1, <2>1 DEF Inplace
  <2> QED BY <1>1, <2>1, <2>2, <2>3, <2>4, <2>5, <2>6, WaitOn DEF Creating
<1>6. CASE Close(p, "stuck") /\ UNCHANGED <<journals, unread, owed>>
  <2>1. Waits
    BY <1>2, <1>6 DEF Waits
  <2> QED BY <1>1, <1>6, <2>1, CloseKept DEF Idle, Inplace, Opening
<1> QED BY <1>4, <1>5, <1>6 DEF Adopt

LEMMA ToldWider ==
  ASSUME NEW X, NEW h, NEW t, NEW S, NEW T, S \subseteq T, Told(X, h, t, S)
  PROVE  Told(X, h, t, T)
BY DEF Told

LEMMA LaterWider ==
  ASSUME NEW S, NEW T, S \subseteq T, S # {}, Later(S)
  PROVE  Later(T)
<1>1. PICK f, t : AllClear(f, t) /\ HoldsLate(S, f, t, Spare)
  BY DEF Later
<1>2. HoldsLate(T, f, t, Spare)
  BY <1>1, ToldWider DEF HoldsLate
<1> QED BY <1>1, <1>2 DEF Later

(* Where the editor records, the directory bears the journal, in whatever    *)
(* the power may leave of it too.                                            *)
LEMMA EditBears ==
  ASSUME Kit, NEW p \in Editors, Ready(p), ~spoilt, NEW f, f = ed[p].fd,
         NEW h, h = journals[f].hdr, NEW t \in Texts, Grounds(disk, h) \subseteq {t},
         NEW B
  PROVE  /\ Bears(disk, baseless, {dir}, f, h, t, B)
         /\ Bears(disk, baseless, cut, f, h, t, B)
<1>1. /\ TypeInv /\ PlaceInv /\ Stores /\ Keeps(ed[p]) /\ ed[p].pc = "edit" /\ f # 0
  BY KitAt DEF Ready
<1>2. dir.j = f /\ Log = journals[f]
  BY <1>1, LogOpen
<1>3. Fit(Log.hdr, ed[p].meta) /\ h = Log.hdr /\ h # NoHeader /\ h = H(f) /\ Headed(f)
  BY <1>1, <1>2 DEF Keeps, Fit, Headed, H
<1>4. Stands
  BY <1>1, <1>3 DEF Keeps, Idle, Inplace
<1>5. f \in baseless \/ (Intact(disk, h) /\ Beside(dir, f, h))
  BY <1>2, <1>3, <1>4 DEF Stands
<1>6. \A d \in cut : d.j = f /\ (Beside(dir, f, h) => Beside(d, f, h))
  BY <1>1, <1>2, <1>3 DEF Stores, Level
<1>7. dir \in cut
  BY <1>1 DEF TypeInv, DirsOK
<1>8. Bears(disk, baseless, cut, f, h, t, B)
  BY <1>3, <1>5, <1>6 DEF Bears, NamesIn
<1> QED BY <1>7, <1>8, BearsDir

(* edit_apply and its record.                                                *)
LEMMA RecordKept ==
  ASSUME Alone, Kit, NEW p \in Editors, TypeInv', Record(p)
  PROVE  KeepInv'
<1> DEFINE e == ed[p]
           u == ed'[p]
           f == e.fd
           x == journals[f]
           h == x.hdr
           t == Append(e.text, clock + 1)
           B == ToSet(backups)
<1>0. /\ Ready(p) /\ ~e.bad /\ clock < MaxClock
      /\ UNCHANGED <<disk, dst, dir, cut, backups, spoilt, owed, baseless, unread>>
  BY DEF Record, files, history
<1>1. /\ TypeInv /\ DOMAIN e = Fields /\ p \in DOMAIN ed /\ e.pc = "edit"
      /\ f # 0 /\ dir.j = f /\ Log = x /\ f \in 1 .. Len(journals)
      /\ GoodLog(x) /\ x.recs \in Seq(Recs) /\ h # NoHeader
      /\ e.text \in Texts
      /\ ValidPrefix(x.recs) = x.recs /\ (Known => Made(disk, x, e.text))
  BY <1>0, EditAt DEF Kit
<1>2. DOMAIN x = {"hdr", "recs", "safe"} /\ Proper(x)
  BY <1>1, LogProper DEF GoodLog
<1>3. Keeps(e) /\ Guarded(e) /\ Fit(Log.hdr, e.meta)
  BY <1>1, KitAt DEF Keeps
<1> DEFINE q == [now |-> {t}, late |-> IF e.prot.late = {} THEN {}
                                        ELSE e.prot.late \cup {t}]
           z == IF f \in unread THEN e.prot ELSE q
<1>4. \/ /\ ed' = [ed EXCEPT ![p].text = t, ![p].synced = FALSE, ![p].prot = z]
         /\ SetJournal(f, [x EXCEPT
                !.recs = Append(@, [op |-> clock + 1, on |-> e.text])])
      \/ /\ ed' = [ed EXCEPT ![p].text = t, ![p].bad = TRUE]
         /\ \/ SetJournal(f, [x EXCEPT !.recs = Append(@, Bad)])
            \/ UNCHANGED journals
  BY Zenon DEF Record
<1>5. /\ u.pc = "edit" /\ u.fd = f /\ u.meta = e.meta /\ u.text = t
      /\ \/ /\ ~u.bad /\ u.prot = z
            /\ SetJournal(f, [x EXCEPT
                !.recs = Append(@, [op |-> clock + 1, on |-> e.text])])
         \/ /\ u.bad /\ u.prot = e.prot
            /\ \/ SetJournal(f, [x EXCEPT !.recs = Append(@, Bad)])
               \/ UNCHANGED journals
  <2> HIDE DEF t, q, z, x
  <2>1. CASE /\ ed' = [ed EXCEPT ![p].text = t, ![p].synced = FALSE, ![p].prot = z]
             /\ SetJournal(f, [x EXCEPT
                  !.recs = Append(@, [op |-> clock + 1, on |-> e.text])])
    <3>1. u.pc = e.pc /\ u.fd = f /\ u.meta = e.meta /\ u.text = t
          /\ u.bad = e.bad /\ u.prot = z
      BY <1>1, <2>1 DEF Fields
    <3> QED BY <1>0, <1>1, <2>1, <3>1
  <2>2. CASE /\ ed' = [ed EXCEPT ![p].text = t, ![p].bad = TRUE]
             /\ \/ SetJournal(f, [x EXCEPT !.recs = Append(@, Bad)])
                \/ UNCHANGED journals
    <3>1. u.pc = e.pc /\ u.fd = f /\ u.meta = e.meta /\ u.text = t
          /\ u.bad = TRUE /\ u.prot = e.prot
      BY <1>1, <2>2 DEF Fields
    <3> QED BY <1>1, <2>2, <3>1
  <2> QED BY <1>4, <2>1, <2>2
<1>6. ~Early(e) /\ ~Idle(e)
  BY <1>1 DEF Early, Opening, Waiting, Inplace, Idle
<1> HIDE DEF x, t, q, z
(* What the journal becomes.                                                 *)
<1>7. PICK r, y :
        /\ r \in Recs /\ HeadsSame /\ Len(journals') = Len(journals) /\ journals'[f] = y
        /\ \A g \in 1 .. Len(journals) : g # f => journals'[g] = journals[g]
        /\ y.hdr = h /\ y.safe = x.safe /\ DOMAIN y = DOMAIN x
        /\ \/ y = x /\ u.bad
           \/ y.recs = Append(x.recs, r) /\ r = Bad /\ u.bad
           \/ y.recs = Append(x.recs, r) /\ r # Bad /\ r.op = clock + 1 /\ ~u.bad
  <2>1. CASE UNCHANGED journals /\ u.bad
    <3>1. Bad \in Recs
      BY DEF Bad, Recs, Texts
    <3> QED BY <1>1, <2>1, <3>1, HeadsStill DEF x
  <2>2. ASSUME NEW r \in Recs, SetJournal(f, [x EXCEPT !.recs = Append(@, r)])
        PROVE  \E y :
        /\ HeadsSame /\ Len(journals') = Len(journals) /\ journals'[f] = y
        /\ \A g \in 1 .. Len(journals) : g # f => journals'[g] = journals[g]
        /\ y.hdr = h /\ y.safe = x.safe /\ DOMAIN y = DOMAIN x
        /\ y.recs = Append(x.recs, r)
    <3> DEFINE y == [x EXCEPT !.recs = Append(@, r)]
    <3>1. y.hdr = h /\ y.safe = x.safe /\ DOMAIN y = DOMAIN x
          /\ y.recs = Append(x.recs, r) /\ SetJournal(f, y)
      BY <1>2, <2>2
    <3> HIDE DEF y
    <3>2. y.hdr = journals[f].hdr
      BY <3>1 DEF x
    <3>3. /\ HeadsSame /\ Len(journals') = Len(journals) /\ journals'[f] = y
          /\ \A g \in 1 .. Len(journals) : g # f => journals'[g] = journals[g]
      BY <1>1, <3>1, <3>2, LogSetTo
    <3> QED BY <3>1, <3>3
  <2>3. CASE u.bad /\ SetJournal(f, [x EXCEPT !.recs = Append(@, Bad)])
    <3>1. Bad \in Recs
      BY DEF Bad, Recs, Texts
    <3> QED BY <2>2, <2>3, <3>1
  <2>4. CASE ~u.bad /\ SetJournal(f, [x EXCEPT
                !.recs = Append(@, [op |-> clock + 1, on |-> e.text])])
    <3>1. PICK r : r = [op |-> clock + 1, on |-> e.text]
      OBVIOUS
    <3>2. clock + 1 \in Nat /\ clock \in Nat
      BY <1>0, <1>1, ClockNext
    <3>3. r \in Recs /\ r.op = clock + 1
      BY <1>1, <3>1, <3>2 DEF Recs
    <3>4. r # Bad
      BY <3>2, <3>3 DEF Bad
    <3> QED BY <2>2, <2>4, <3>1, <3>3, <3>4
  <2> QED BY <1>5, <2>1, <2>3, <2>4
<1>8. Settled
  BY <1>0, <1>7 DEF Settled
<1>9. Log'.hdr = Log.hdr
  BY <1>0, <1>1, <1>7 DEF Log
<1>10. Unmoving(p) /\ (Guarded(ed[p])' => KeepInv')
  BY <1>0, <1>1, <1>3, <1>5, <1>6, <1>7, <1>8, <1>9, EditKept
<1>11. Spare' = Spare /\ B = ToSet(backups)
  BY <1>0, <1>1, <1>5, SpareStill DEF Inplace
<1>12. ASSUME NEW L, Later(L) PROVE Later(L)'
  <2>1. Len(journals) <= Len(journals') /\ Unmoved(p, L)
    BY <1>1, <1>7, <1>10, LogsRange, UnmovingAny
  <2> QED BY <1>0, <1>1, <1>8, <1>11, <2>1, <1>12, LaterStays
(* Where the journal is replayed on.                                         *)
<1>13. CASE u.prot = Nothing
  BY <1>10, <1>13, ProtFree
<1>14. CASE u.prot # Nothing
  <2>0. Known /\ z = q
    <3>1. SUFFICES ASSUME f \in unread PROVE FALSE
      BY <1>1 DEF Known, z
    <3>2. e.prot # Nothing
      BY <1>5, <1>14, <3>1 DEF z
    <3> QED BY <1>1, <1>3, <3>1, <3>2 DEF Guarded
  <2>1. ~u.bad \/ e.prot # Nothing
    BY <1>5, <1>14
  <2>2. e.prot # Nothing => /\ DOMAIN e.prot = {"now", "late"}
                            /\ e.prot.now = {e.text}
                            /\ ~spoilt => Mine(e.prot.now, e.prot.late)
    BY <1>0, <1>1, <1>3 DEF Guarded
  <2>3. PICK S, L : S = e.prot.now /\ L = e.prot.late
    OBVIOUS
  <2>4. ASSUME ~spoilt
        PROVE  \E b : /\ Bears(disk, baseless, {dir}, f, h, b, B)
                      /\ Gives(x, b) = e.text
                      /\ (e.prot # Nothing => Told({x}, h, b, S))
                      /\ \/ L = {} \/ Later(L)
                         \/ /\ Bears(disk, baseless, cut, f, h, b, B)
                            /\ Told(Survivors(x), h, b, L)
    <3>1. CASE e.prot = Nothing
      <4>1. PICK b \in Texts : Basis(disk, x, b)
                               /\ e.text = Leads(ValidPrefix(x.recs), b)
        BY <1>1, <2>0 DEF Made
      <4>2. Grounds(disk, h) \subseteq {b} /\ Gives(x, b) = e.text
        BY <4>1 DEF Basis, Gives
      <4>3. Bears(disk, baseless, {dir}, f, h, b, B)
        BY <1>0, <2>4, <4>2, EditBears DEF x
      <4>4. L = {}
        BY <2>3, <3>1 DEF Nothing
      <4> QED BY <3>1, <4>2, <4>3, <4>4
    <3>2. CASE e.prot # Nothing
      <4>1. S = {e.text} /\ Mine(S, L)
        BY <2>2, <2>3, <2>4, <3>2
      <4>2. PICK b : /\ Bears(disk, baseless, {dir}, f, h, b, B) /\ Told({x}, h, b, S)
                     /\ \/ Bears(disk, baseless, cut, f, h, b, B)
                           /\ Told(Survivors(x), h, b, L)
                        \/ Later(L)
        BY <1>1, <4>1, MineOf DEF x
      <4>3. Gives(x, b) = e.text
        BY <4>1, <4>2 DEF Told
      <4> QED BY <4>2, <4>3
    <3> QED BY <3>1, <3>2
  <2>5. PICK M, N : M = u.prot.now /\ N = u.prot.late
    OBVIOUS
  <2>6. ASSUME ~spoilt PROVE Mine(M, N)'
    <3>1. PICK b : /\ Bears(disk, baseless, {dir}, f, h, b, B)
                   /\ Gives(x, b) = e.text
                   /\ (e.prot # Nothing => Told({x}, h, b, S))
                   /\ \/ L = {} \/ Later(L)
                      \/ /\ Bears(disk, baseless, cut, f, h, b, B)
                         /\ Told(Survivors(x), h, b, L)
      BY <2>4, <2>6
    <3>2. b \in Texts /\ y.hdr = h /\ f \in 1 .. Len(journals') /\ f = dir.j
      BY <1>1, <1>7, <3>1 DEF Bears
    <3>3. SUFFICES /\ Told({y}, h, b, M)
                   /\ \/ /\ Bears(disk, baseless, cut, f, h, b, B)
                         /\ Told(Survivors(y), h, b, N)
                      \/ Later(N)'
      <4> HIDE DEF B, e, h
      <4>1. y = journals'[f] /\ h = y.hdr /\ B = ToSet(backups)
        BY <1>7, <1>11
      <4> QED BY <1>0, <3>1, <3>2, <3>3, <4>1, MineTo
    <3>4. CASE /\ ~u.bad /\ r # Bad /\ r.op = clock + 1
               /\ y.recs = Append(x.recs, r)
      <4>1. M = {t} /\ N = IF L = {} THEN {} ELSE L \cup {t}
        <5>1. u.prot = q
          BY <1>5, <2>0, <3>4
        <5>2. q.now = {t} /\ q.late = IF e.prot.late = {} THEN {}
                                      ELSE e.prot.late \cup {t}
          BY DEF q
        <5> QED BY <2>3, <2>5, <5>1, <5>2
      <4>2. Gives(y, b) = t
        <5>1. Gives(y, b) = Append(Gives(x, b), r.op)
          BY <1>1, <1>7, <3>2, <3>4, GivesMore
        <5> QED BY <3>1, <3>4, <5>1 DEF t
      <4>3. Told({y}, h, b, M)
        BY <3>2, <4>1, <4>2 DEF Told
      <4>4. CASE L = {}
        <5>1. N = {}
          BY <4>1, <4>4
        <5>2. Later(N)'
          BY <5>1 DEF Later
        <5> QED BY <4>3, <5>2
      <4>5. CASE L # {} /\ Later(L)
        <5>1. L \subseteq N
          BY <4>1
        <5>2. Later(N)
          BY <4>5, <5>1, LaterWider
        <5> QED BY <1>12, <4>3, <5>2
      <4>6. CASE /\ L # {} /\ Bears(disk, baseless, cut, f, h, b, B)
                 /\ Told(Survivors(x), h, b, L)
        <5>1. L \subseteq N /\ t \in N
          BY <4>1, <4>6
        <5>2. Told(Survivors(y), h, b, N)
          BY <1>1, <1>2, <1>7, <3>4, <4>2, <4>6, <5>1, ToldMore
        <5> QED BY <4>3, <4>6, <5>2
      <4> QED BY <3>1, <4>4, <4>5, <4>6
    <3>5. CASE u.bad /\ (y = x \/ (y.recs = Append(x.recs, r) /\ r = Bad))
      <4>1. M = S /\ N = L /\ e.prot # Nothing
        BY <1>5, <2>1, <2>3, <2>5, <3>5
      <4>2. Alike(x, y) /\ Gives(y, b) = Gives(x, b)
        <5>1. ValidPrefix(y.recs) = ValidPrefix(x.recs)
          BY <1>1, <1>7, <3>5, ValidMore
        <5> QED BY <1>1, <3>2, <5>1 DEF Alike, Gives
      <4>3. Told({y}, h, b, M)
        BY <3>1, <4>1, <4>2, ToldAlike
      <4>4. CASE L = {}
        BY <4>1, <4>3, <4>4 DEF Later
      <4>5. CASE Later(L)
        BY <1>12, <4>1, <4>3, <4>5
      <4>6. CASE /\ Bears(disk, baseless, cut, f, h, b, B)
                 /\ Told(Survivors(x), h, b, L)
        <5>1. Told(Survivors(y), h, b, L)
          <6>1. Told({x}, h, b, L)
            BY <1>1, <1>2, <4>6, ToldWhole
          <6>2. Gives(y, b) \in L
            BY <4>2, <6>1 DEF Told
          <6>3. CASE y = x
            BY <4>6, <6>3
          <6>4. CASE y.recs = Append(x.recs, r)
            BY <1>1, <1>2, <1>7, <4>6, <6>2, <6>4, ToldMore
          <6> QED BY <3>5, <6>3, <6>4
        <5> QED BY <4>1, <4>3, <4>6, <5>1
      <4> QED BY <3>1, <4>4, <4>5, <4>6
    <3> QED BY <1>7, <3>4, <3>5
  <2>7. DOMAIN u.prot = {"now", "late"} /\ (~u.bad => u.prot.now = {u.text})
    BY <1>5, <2>0, <2>1, <2>2 DEF q
  <2>8. Fit(Log.hdr', u.meta)
    BY <1>3, <1>5, <1>9
  <2>9. ~spoilt' => Mine(ed[p].prot.now, ed[p].prot.late)'
    BY <1>0, <2>5, <2>6
  <2>10. Guarded(ed[p])'
    <3>1. dir'.j \notin unread' /\ ~Waiting(u)
      BY <1>0, <1>1, <1>5, <2>0 DEF Known, Waiting
    <3>2. Waiting(ed[p])' <=> Waiting(u)
      BY DEF Waiting
    <3> QED BY <1>1, <1>5, <2>7, <2>8, <2>9, <3>1, <3>2 DEF Guarded, Protected
  <2> QED BY <1>10, <2>10
<1> QED BY <1>13, <1>14

(* yew_journal_sync.                                                         *)
LEMMA SyncKept ==
  ASSUME Alone, Kit, NEW p \in Editors, TypeInv', Sync(p)
  PROVE  KeepInv'
<1> DEFINE e == ed[p]
           u == ed'[p]
           f == e.fd
           x == journals[f]
           h == x.hdr
           B == ToSet(backups)
<1>0. /\ Ready(p) /\ ~e.bad
      /\ UNCHANGED <<disk, dst, dir, cut, backups, spoilt, owed, baseless, unread>>
  BY DEF Sync, files, history
<1>1. /\ TypeInv /\ DOMAIN e = Fields /\ p \in DOMAIN ed /\ e.pc = "edit"
      /\ f # 0 /\ dir.j = f /\ Log = x /\ f \in 1 .. Len(journals)
      /\ GoodLog(x) /\ x.recs \in Seq(Recs) /\ h # NoHeader
      /\ e.text \in Texts
  BY <1>0, EditAt DEF Kit
<1>2. DOMAIN x = {"hdr", "recs", "safe"} /\ Proper(x)
  BY <1>1, LogProper DEF GoodLog
<1>3. Keeps(e) /\ Guarded(e) /\ Fit(Log.hdr, e.meta)
  BY <1>1, KitAt DEF Keeps
<1> DEFINE q == IF e.prot = Nothing THEN e.prot
                ELSE [e.prot EXCEPT !.late = {e.text}]
<1>4. \/ /\ ed' = [ed EXCEPT ![p].synced = TRUE, ![p].prot = q]
         /\ SetJournal(f, [x EXCEPT !.safe = Size(x)])
      \/ ed' = [ed EXCEPT ![p].bad = TRUE] /\ UNCHANGED journals
  BY Zenon DEF Sync
<1>5. /\ u.pc = "edit" /\ u.fd = f /\ u.meta = e.meta /\ u.text = e.text
      /\ \/ /\ u.bad = e.bad /\ u.prot = q
            /\ SetJournal(f, [x EXCEPT !.safe = Size(x)])
         \/ u.bad /\ u.prot = e.prot /\ UNCHANGED journals
  <2> HIDE DEF q, x
  <2>1. CASE /\ ed' = [ed EXCEPT ![p].synced = TRUE, ![p].prot = q]
             /\ SetJournal(f, [x EXCEPT !.safe = Size(x)])
    <3>1. u.pc = e.pc /\ u.fd = f /\ u.meta = e.meta /\ u.text = e.text
          /\ u.bad = e.bad /\ u.prot = q
      BY <1>1, <2>1 DEF Fields
    <3> QED BY <1>1, <2>1, <3>1
  <2>2. CASE ed' = [ed EXCEPT ![p].bad = TRUE] /\ UNCHANGED journals
    <3>1. u.pc = e.pc /\ u.fd = f /\ u.meta = e.meta /\ u.text = e.text
          /\ u.bad = TRUE /\ u.prot = e.prot
      BY <1>1, <2>2 DEF Fields
    <3> QED BY <1>1, <2>2, <3>1
  <2> QED BY <1>4, <2>1, <2>2
<1>6. ~Early(e) /\ ~Idle(e)
  BY <1>1 DEF Early, Opening, Waiting, Inplace, Idle
<1> HIDE DEF x, q
<1>7. PICK y :
        /\ HeadsSame /\ Len(journals') = Len(journals) /\ journals'[f] = y
        /\ \A g \in 1 .. Len(journals) : g # f => journals'[g] = journals[g]
        /\ y.hdr = h /\ y.recs = x.recs /\ DOMAIN y = DOMAIN x
        /\ \/ u.prot = q /\ y.safe = Size(x) /\ u.bad = e.bad
           \/ u.prot = e.prot /\ UNCHANGED journals /\ u.bad
  <2>1. CASE UNCHANGED journals /\ u.bad /\ u.prot = e.prot
    BY <1>1, <2>1, HeadsStill DEF x
  <2>2. CASE /\ u.bad = e.bad /\ u.prot = q
             /\ SetJournal(f, [x EXCEPT !.safe = Size(x)])
    <3> DEFINE y == [x EXCEPT !.safe = Size(x)]
    <3>1. y.hdr = h /\ y.safe = Size(x) /\ DOMAIN y = DOMAIN x
          /\ y.recs = x.recs /\ SetJournal(f, y)
      BY <1>2, <2>2
    <3> HIDE DEF y
    <3>2. y.hdr = journals[f].hdr
      BY <3>1 DEF x
    <3>3. /\ HeadsSame /\ Len(journals') = Len(journals) /\ journals'[f] = y
          /\ \A g \in 1 .. Len(journals) : g # f => journals'[g] = journals[g]
      BY <1>1, <3>1, <3>2, LogSetTo
    <3> QED BY <2>2, <3>1, <3>3
  <2> QED BY <1>5, <2>1, <2>2
<1>8. Settled
  BY <1>0, <1>7 DEF Settled
<1>9. Log'.hdr = Log.hdr
  BY <1>0, <1>1, <1>7 DEF Log
<1>10. Unmoving(p) /\ (Guarded(ed[p])' => KeepInv')
  BY <1>0, <1>1, <1>3, <1>5, <1>6, <1>7, <1>8, <1>9, EditKept
<1>11. Spare' = Spare /\ B = ToSet(backups)
  BY <1>0, <1>1, <1>5, SpareStill DEF Inplace
<1>13. CASE u.prot = Nothing
  BY <1>10, <1>13, ProtFree
<1>14. CASE u.prot # Nothing
  <2>1. e.prot # Nothing
    BY <1>7, <1>14 DEF q
  <2>2. /\ DOMAIN e.prot = {"now", "late"}
        /\ e.prot.now = {e.text} /\ dir.j \notin unread
        /\ ~spoilt => Mine(e.prot.now, e.prot.late)
    BY <1>0, <1>1, <1>3, <2>1 DEF Guarded
  <2>3. PICK S, L : S = e.prot.now /\ L = e.prot.late
    OBVIOUS
  <2>4. PICK M, N : M = u.prot.now /\ N = u.prot.late
    OBVIOUS
  <2>5. /\ DOMAIN u.prot = {"now", "late"} /\ M = S
        /\ \/ N = S /\ y.safe = Size(x)
           \/ N = L /\ UNCHANGED journals
    <3>1. CASE u.prot = q /\ y.safe = Size(x)
      <4>1. u.prot = [e.prot EXCEPT !.late = {e.text}]
        BY <2>1, <3>1 DEF q
      <4>2. DOMAIN u.prot = {"now", "late"} /\ u.prot.now = e.prot.now
            /\ u.prot.late = {e.text}
        BY <2>2, <4>1
      <4> QED BY <2>2, <2>3, <2>4, <3>1, <4>2
    <3>2. CASE u.prot = e.prot /\ UNCHANGED journals
      BY <2>2, <2>3, <2>4, <3>2
    <3> QED BY <1>7, <3>1, <3>2
  <2>6. ASSUME ~spoilt PROVE Mine(M, N)'
    <3>1. Mine(S, L)
      BY <2>2, <2>3, <2>6
    <3>2. CASE N = L /\ UNCHANGED journals
      <4>1. Unmoved(p, L)
        BY <1>10, UnmovingAny
      <4>2. Mine(S, L)'
        BY <1>0, <1>1, <1>11, <3>1, <3>2, <4>1, MineStays
      <4> QED BY <2>5, <3>2, <4>2
    <3>3. CASE N = S /\ y.safe = Size(x)
      <4>1. PICK b : /\ Bears(disk, baseless, {dir}, f, h, b, B)
                     /\ Told({x}, h, b, S)
        BY <1>1, <3>1, MineOf DEF x
      <4>2. b \in Texts /\ Grounds(disk, h) \subseteq {b}
        BY <4>1 DEF Bears
      <4>3. Bears(disk, baseless, cut, f, h, b, B)
        BY <1>0, <2>6, <4>2, EditBears DEF x
      <4>4. Told({y}, h, b, S)
        BY <1>7, <4>1 DEF Told, Gives
      <4>5. Proper(y) /\ y.safe = Size(y)
        BY <1>2, <1>7, <3>3 DEF Proper, Size
      <4>6. Told(Survivors(y), h, b, N)
        BY <1>1, <3>3, <4>4, <4>5, ToldSafe
      <4>7. Told({y}, h, b, M)
        BY <2>5, <4>4
      <4> HIDE DEF B, e, h
      <4>8. /\ y = journals'[f] /\ h = y.hdr /\ B = ToSet(backups)
            /\ f \in 1 .. Len(journals') /\ f = dir.j
        BY <1>1, <1>7, <1>11
      <4> QED BY <1>0, <4>1, <4>3, <4>6, <4>7, <4>8, MineTo
    <3> QED BY <2>5, <3>2, <3>3
  <2>7. ~u.bad => u.prot.now = {u.text}
    BY <1>5, <2>2, <2>3, <2>4, <2>5
  <2>8. Fit(Log.hdr', u.meta)
    BY <1>3, <1>5, <1>9
  <2>9. ~spoilt' => Mine(ed[p].prot.now, ed[p].prot.late)'
    BY <1>0, <2>4, <2>6
  <2>10. Guarded(ed[p])'
    <3>1. dir'.j \notin unread' /\ ~Waiting(u)
      BY <1>0, <1>1, <1>5, <2>2 DEF Waiting
    <3>2. Waiting(ed[p])' <=> Waiting(u)
      BY DEF Waiting
    <3> QED BY <1>1, <1>5, <2>5, <2>7, <2>8, <2>9, <3>1, <3>2
            DEF Guarded, Protected
  <2> QED BY <1>10, <2>10
<1> QED BY <1>13, <1>14

-----------------------------------------------------------------------------
(* Discarding.                                                               *)

(* yew_journal_discard, from its last step to its first.                     *)
LEMMA DropSyncKept ==
  ASSUME Alone, Kit, NEW p \in Editors, TypeInv', DropSync(p)
  PROVE  KeepInv'
<1> DEFINE e == ed[p]
           u == ed'[p]
<1>1. /\ TypeInv /\ DOMAIN e = Fields /\ p \in DOMAIN ed /\ e.pc = "dropSync"
      /\ Stores
  BY KitAt DEF DropSync
<1>2. UNCHANGED <<disk, dst, backups, spoilt, owed, baseless, journals, unread>>
      /\ Close(p, "edit")
  BY DEF DropSync, files, history
<1>3. e.pc \in Inside /\ Misfit(e) /\ e.prot = Nothing
  BY <1>1, FreeProt DEF Inside, Misfit, Protected, Inplace
<1>4. Sure(e, disk, Log, Sound(dir.j), Known)
  BY <1>3, WorkAt DEF Kit
<1>5. ~Fit(Log.hdr, e.meta)
  BY <1>3, <1>4 DEF Sure
<1>6. CASE UNCHANGED <<dir, cut>>
  <2>1. Waits
    BY <1>2, <1>6 DEF Waits
  <2> QED BY <1>1, <1>2, <1>3, <1>5, <2>1, CloseKept DEF Inplace, Opening, Waiting
<1>7. CASE Commit(dir)
  <2>1. /\ u.pc = "edit" /\ u.fd = 0 /\ u.meta = e.meta /\ u.prot = Nothing
    BY <1>1, <1>2, <1>3, CloseFields, EdKept
  <2>2. dir' = dir /\ cut' = {dir} /\ dir \in cut
    BY <1>1, <1>7 DEF Commit, TypeInv, DirsOK
  <2>3. Settled
    BY <1>1, <1>2, StillSettled
  <2>4. Stores'
    <3>1. \A d \in cut' : d \in cut
      BY <2>2
    <3> QED BY <1>1, <2>2, <2>3, <3>1, StoresSame
  <2>5. ASSUME NEW f, NEW t, Reached(f, t) PROVE Steady(f)
    <3>1. f \in NamesIn(dir)
      BY <2>5, ReachedClear
    <3> QED BY <1>2, <2>2, <3>1 DEF Steady, Stay
  <2>6. Onward(e, u)
    BY <1>1, <2>1 DEF Onward, Inplace, Opening, Waiting, Holding
  <2>7. Keeps(ed[p])'
    <3>1. Behind(ed[p].meta)'
      BY <1>1, <2>1, <2>2, <2>3, BehindMeta
    <3>2. Log' = Log
      BY <1>2, <2>2, LogSame
    <3> QED BY <1>5, <2>1, <3>1, <3>2, KeepsFree
  <2> QED BY <1>2, <2>1, <2>3, <2>4, <2>5, <2>6, <2>7, MoveKept
<1> QED BY <1>6, <1>7 DEF DropSync

LEMMA DropLogKept ==
  ASSUME Alone, Kit, NEW p \in Editors, TypeInv', DropLog(p)
  PROVE  KeepInv'
<1> DEFINE e == ed[p]
           u == ed'[p]
<1>1. /\ TypeInv /\ DOMAIN e = Fields /\ p \in DOMAIN ed /\ e.pc = "dropLog"
      /\ Stores
  BY KitAt DEF DropLog
<1>2. UNCHANGED <<disk, dst, backups, spoilt, owed, baseless, journals, unread>>
  BY DEF DropLog, files, history
<1>3. e.pc \in Inside /\ e.prot = Nothing /\ ~Early(e) /\ e.pc \notin Inplace
      /\ e.pc \in Holding
  BY <1>1, FreeProt DEF Inside, Protected, Inplace, Early, Opening, Waiting, Holding
<1>4. dir.j = e.fd
  BY <1>1, <1>3, EditorAt
<1>5. CASE NotDropped(p)
  <2>1. Close(p, "edit") /\ UNCHANGED <<dir, cut>>
    BY <1>5 DEF NotDropped
  <2>2. Sure(e, disk, Log, Sound(dir.j), Known)
    BY <1>3, WorkAt DEF Kit
  <2>3. Idle(e) => ~Fit(Log.hdr, e.meta)
    BY <1>1, <2>2 DEF Sure, Misfit, Idle, Inplace
  <2>4. Waits
    BY <1>2, <2>1 DEF Waits
  <2> QED BY <1>1, <1>3, <2>1, <2>3, <2>4, CloseKept DEF Opening
<1>6. CASE Change([dir EXCEPT !.j = 0]) /\ Goto(p, "dropSync")
  <2>1. u.pc = "dropSync" /\ u.meta = e.meta /\ u.prot = Nothing
    BY <1>1, <1>3, <1>6, GotoFields, EdKept
  <2>2. /\ dir'.j = 0 /\ dir'.oldj = dir.oldj /\ dir'.oldb = dir.oldb
        /\ cut' = cut \cup {dir'}
    BY <1>1, <1>6, DirFields DEF Change
  <2>3. ~Headed(dir'.j)
    BY <2>2 DEF Headed
  <2>4. Settled
    BY <1>1, <1>2, StillSettled
  <2>5. Onward(e, u)
    BY <1>1, <1>3, <2>1 DEF Onward, Inplace, Opening, Waiting, Holding
  <2>6. ASSUME NEW f, NEW t, Reached(f, t) PROVE f # dir.j
    BY <1>3, <1>4, <2>6, NotLive
  <2> QED BY <1>2, <2>1, <2>2, <2>3, <2>4, <2>5, <2>6, NameGone
<1> QED BY <1>5, <1>6 DEF DropLog

LEMMA DropBaseKept ==
  ASSUME Alone, Kit, NEW p \in Editors, TypeInv', DropBase(p)
  PROVE  KeepInv'
<1> DEFINE e == ed[p]
           u == ed'[p]
<1>1. /\ TypeInv /\ DOMAIN e = Fields /\ p \in DOMAIN ed /\ e.pc = "dropBase"
      /\ Stores /\ HeadsOK /\ Version(e.meta) /\ PlaceInv
  BY KitAt DEF DropBase, Stores
<1>2. UNCHANGED <<disk, dst, backups, spoilt, owed, journals, unread>>
  BY DEF DropBase, files
<1>3. e.pc \in Inside /\ e.prot = Nothing /\ ~Early(e) /\ e.pc \notin Inplace
      /\ e.pc \in Holding
  BY <1>1, FreeProt DEF Inside, Protected, Inplace, Early, Opening, Waiting, Holding
<1>4. dir.j = e.fd /\ dir.j \in 1 .. Len(journals) /\ Sited(e) /\ Upto(e.meta, Now)
  BY <1>1, <1>3, EditorAt
<1>5. e.goal # "decline" /\ Headed(dir.j) => Older(H(dir.j), e.meta)
  BY <1>1, <1>4 DEF Sited
<1>6. CASE NotDropped(p) /\ UNCHANGED baseless
  <2>1. Close(p, "edit") /\ UNCHANGED <<dir, cut>>
    BY <1>6 DEF NotDropped
  <2>2. Idle(e) => ~Fit(Log.hdr, e.meta)
    BY <1>1, <1>5, OlderMisfit DEF Idle, Inplace
  <2>3. Waits
    BY <1>2, <1>6, <2>1 DEF Waits
  <2> QED BY <1>1, <1>3, <2>1, <2>2, <2>3, CloseKept DEF Opening
<1>7. CASE /\ Change([dir EXCEPT !.b = NoBase]) /\ Goto(p, "dropLog")
           /\ baseless' = IF e.goal = "decline" THEN baseless \cup {e.fd}
                          ELSE baseless
  <2>1. u.pc = "dropLog" /\ u.meta = e.meta /\ u.prot = Nothing /\ u.fd = e.fd
        /\ u.goal = e.goal
    BY <1>1, <1>3, <1>7, GotoFields, EdKept
  <2>2. /\ dir'.j = dir.j /\ dir'.oldj = dir.oldj /\ dir'.oldb = dir.oldb
        /\ dir'.b = NoBase /\ cut' = cut \cup {dir'}
    BY <1>1, <1>7, DirFields DEF Change
  <2>3. Settled
    BY <1>1, <1>2, <1>7, HeadsStill DEF Settled
  <2>4. Headed(dir.j) /\ dir.j \notin baseless' => Older(H(dir.j), Now)
    <3>1. SUFFICES ASSUME Headed(dir.j), dir.j \notin baseless'
                   PROVE  Older(H(dir.j), Now)
      OBVIOUS
    <3>2. e.goal # "decline"
      BY <1>4, <1>7, <3>1
    <3>3. Version(H(dir.j)) /\ Version(Now)
      BY <1>1, <1>4, HeaderVersion, NowVersion
    <3> QED BY <1>1, <1>4, <1>5, <3>1, <3>2, <3>3, OlderUpto
  <2>5. Headed(dir.j) /\ Beside(dir', dir.j, H(dir.j)) =>
          Beside(dir, dir.j, H(dir.j))
    BY <1>1, <1>4, <2>2, BareBeside
  <2>6. \A d \in cut' : d \in cut \/ Ranged(d)
    <3>1. SUFFICES ASSUME NEW d, d = dir' PROVE Ranged(d)
      BY <2>2
    <3>2. d.j = dir.j /\ d.oldj = dir.oldj
      BY <2>2, <3>1
    <3> QED BY <1>1, <1>2, <2>3, <2>4, <3>1, <3>2, RangedBy
  <2>7. Stores'
    BY <1>1, <2>2, <2>3, <2>5, <2>6, StoresSame
  <2>8. ASSUME NEW f, NEW t, Reached(f, t) PROVE Steady(f)
    <3>1. f # dir.j /\ f \in NamesIn(dir)
      BY <1>3, <1>4, <2>8, NotLive, ReachedClear
    <3>2. Stay(dir', f)
      BY <2>2, <3>1, StayOld
    <3> QED BY <1>2, <2>2, <3>2 DEF Steady
  <2>9. Onward(e, u)
    BY <1>1, <1>3, <2>1 DEF Onward, Inplace, Opening, Waiting, Holding
  <2>10. Keeps(ed[p])'
    <3>1. Behind(ed[p].meta)'
      BY <1>1, <2>1, <2>2, <2>3, BehindMeta
    <3>2. ~Idle(u) => Stands'
      BY <1>4, <1>7, <2>1, <2>2 DEF Idle, Stands
    <3> QED BY <2>1, <3>1, <3>2, KeepsFree
  <2> QED BY <1>2, <2>1, <2>3, <2>7, <2>8, <2>9, <2>10, MoveKept
<1> QED BY <1>6, <1>7 DEF DropBase

-----------------------------------------------------------------------------
(* Answering the prompt.                                                     *)

LEMMA LaterOne ==
  ASSUME Alone, NEW p \in Editors, TypeInv, TypeInv', UNCHANGED disk,
         baseless \subseteq baseless', Spare \subseteq Spare',
         Len(journals) <= Len(journals'), NEW S, NEW f, NEW t,
         HoldsLate(S, f, t, Spare), f \notin unread, Steady(f), Clear(ed'[p], H(f), f, t)
  PROVE  Later(S)'
<1>1. PICK B, C : B = Spare /\ C = Spare'
  OBVIOUS
<1>2. HoldsLate(S, f, t, B) /\ B \subseteq C
  BY <1>1
<1>3. H(f)' = H(f)
  BY DEF Steady, H
<1>8. f \notin unread'
  BY DEF Steady
<1>4. AllClear(f, t)'
  BY <1>3, <1>8, ClearOf
<1>5. Len(journals) \in Nat /\ Len(journals') \in Nat /\ dir \in cut
  <2>1. Numbered /\ Numbered' /\ dir \in cut
    BY DEF TypeInv, LockInv, DirsOK
  <2> QED BY <2>1, LenProperties DEF Numbered
<1>6. HoldsLate(S, f, t, C)'
  BY <1>2, <1>5, LateStays
<1>7. HoldsLate(S, f, t, Spare)'
  BY <1>1, <1>6
<1> QED BY <1>4, <1>7 DEF Later

(* A base that matches a header is the text its journal was begun on.        *)
LEMMA BaseGround ==
  ASSUME TypeInv, dir.j # 0, BaseMatches(dir.j), NEW h, h = journals[dir.j].hdr
  PROVE  /\ BaseText(dir.b) \in Grounds(disk, h)
         /\ Like(dir.b, h) /\ Intact(disk, h)
<1>1. GoodDir(dir)
  BY DEF TypeInv, DirsOK
<1>2. CASE dir.b.kind = "link"
  <2>1. /\ MetaOf(dir.b.ino) = [ino |-> h.ino, mtime |-> h.mtime]
        /\ dir.b.ino \in 1 .. Len(disk) /\ BaseText(dir.b) = disk[dir.b.ino].text
    BY <1>1, <1>2 DEF BaseMatches, BaseText, GoodDir
  <2>2. /\ h.ino = dir.b.ino /\ dir.b.ino # 0
        /\ disk[h.ino].mtime = h.mtime
    BY <2>1 DEF MetaOf, At
  <2>3. Like(dir.b, h) /\ Intact(disk, h)
    BY <1>2, <2>2 DEF BaseMatches, Like, Intact
  <2> QED BY <2>1, <2>2, <2>3 DEF Grounds, Written
<1>3. CASE dir.b.kind # "link"
  <2>1. dir.b.kind = "copy" /\ dir.b = h.base
    BY <1>3 DEF BaseMatches
  <2> QED BY <2>1 DEF BaseText, Grounds, Like, Intact
<1> QED BY <1>2, <1>3

(* Recovery replays the live journal on the text it was begun on.            *)
LEMMA MatchedFrom ==
  ASSUME Kit, NEW p \in Editors, ed[p].pc = "asked", dir.j # 0,
         Matches(dir.j, ed[p].meta), NEW t, Reached(dir.j, t)
  PROVE  From(p, dir.j) = t
<1>1. /\ Clear(ed[p], H(dir.j), dir.j, t) /\ Headed(dir.j)
      /\ Grounds(disk, H(dir.j)) \subseteq {t} /\ TypeInv
  BY ReachedClear, KitAt
<1>2. CASE Current(p, dir.j)
  <2>1. Fit(H(dir.j), ed[p].meta) /\ From(p, dir.j) = ed[p].text
    BY <1>2 DEF Current, HeaderMatches, Fit, H, From
  <2>2. Early(ed[p])
    BY DEF Early, Opening
  <2> QED BY <1>1, <2>1, <2>2 DEF Clear
<1>3. CASE ~Current(p, dir.j)
  <2>1. BaseMatches(dir.j) /\ From(p, dir.j) = BaseText(dir.b)
    BY <1>3 DEF Current, Matches, From
  <2>2. BaseText(dir.b) \in Grounds(disk, H(dir.j))
    BY <1>1, <2>1, BaseGround DEF H
  <2> QED BY <1>1, <2>1, <2>2
<1> QED BY <1>2, <1>3

LEMMA MatchedStands ==
  ASSUME Kit, NEW p \in Editors, ed[p].pc = "asked", dir.j # 0, ~spoilt,
         Matches(dir.j, ed[p].meta)
  PROVE  Stands
<1>1. Keeps(ed[p]) /\ TypeInv /\ Log = journals[dir.j]
  BY KitAt DEF Log
<1>2. CASE HeaderMatches(dir.j, ed[p].meta)
  <2>1. Fit(Log.hdr, ed[p].meta)
    BY <1>1, <1>2 DEF HeaderMatches, Fit
  <2> QED BY <1>1, <2>1 DEF Keeps, Idle, Inplace
<1>3. CASE BaseMatches(dir.j)
  <2>1. Like(dir.b, Log.hdr) /\ Intact(disk, Log.hdr)
    BY <1>1, <1>3, BaseGround
  <2> QED BY <2>1 DEF Stands, Beside
<1> QED BY <1>2, <1>3 DEF Matches

(* What the answer gives back is owed no more; the rest is undisturbed.      *)
LEMMA OwedAnswered ==
  ASSUME Kit, NEW p \in Editors, ed[p].pc = "asked", dir.j # 0,
         Matches(dir.j, ed[p].meta),
         owed' = owed \ Answered(dir.j, Gives(journals[dir.j], From(p, dir.j))),
         \A f, t : Reached(f, t) /\ f # dir.j =>
           Steady(f) /\ Clear(ed'[p], H(f), f, t)
  PROVE  \A o \in owed' : o \in owed /\ Unmoved(p, o.now) /\ Unmoved(p, o.late)
<1>1. SUFFICES ASSUME NEW o \in owed' PROVE Unmoved(p, o.now) /\ Unmoved(p, o.late)
  OBVIOUS
<1>2. SUFFICES ASSUME NEW f, NEW t, Reached(f, t),
                      Gives(journals[f], t) \in o.now \cup o.late
               PROVE  Steady(f) /\ Clear(ed'[p], H(f), f, t)
  BY DEF Unmoved
<1>3. f # dir.j
  <2>1. SUFFICES ASSUME f = dir.j PROVE FALSE
    OBVIOUS
  <2>2. From(p, dir.j) = t
    BY <1>2, <2>1, MatchedFrom
  <2>3. o \in Answered(dir.j, Gives(journals[dir.j], From(p, dir.j)))
    BY <1>1, <1>2, <2>1, <2>2 DEF Answered, Reached, AllClear
  <2> QED BY <1>1, <2>3
<1> QED BY <1>2, <1>3

(* Not taking in what the journal holds: the session goes on, and may meet   *)
(* the journal at its first edit.                                            *)
LEMMA GoOnKept ==
  ASSUME Alone, Kit, NEW p \in Editors, TypeInv', Waits, ed[p].pc = "asked",
         GoOn(p)
  PROVE  KeepInv'
<1> DEFINE u == ed'[p]
<1>1. TypeInv /\ Locked(ed[p])
  BY KitAt
<1>2. /\ u.pc = "edit" /\ u.goal = "aside" /\ u.fd = 0
      /\ u.meta = ed[p].meta /\ u.text = ed[p].text /\ u.prot = ed[p].prot
  <2>1. u.fd = ed[p].fd /\ ed[p].fd = 0
    BY <1>1, GoOnFields DEF Locked, Apart
  <2>2. u.prot = ed[p].prot
    BY <1>1 DEF GoOn, TypeInv, LockInv, Shape, Fields
  <2> QED BY <1>1, <2>1, <2>2, GoOnFields
<1>3. Early(ed[p]) /\ Early(u)
  BY <1>2 DEF Early, Opening, Waiting
<1>4. Unmoving(p)
  <2>1. SUFFICES ASSUME NEW f, NEW t, Reached(f, t)
                 PROVE  Steady(f) /\ Clear(u, H(f), f, t)
    BY DEF Unmoving
  <2>2. Steady(f)
    BY <2>1, SteadyStill DEF Waits
  <2>3. f # 0
    BY <2>1, ReachedClear
  <2>4. Clear(u, H(f), f, t)
    BY <1>2, <1>3, <2>1, <2>3, ClearNext
  <2> QED BY <2>2, <2>4
<1>5. Guarded(ed[p])'
  BY <1>2, FreeProt, ProtFree DEF Protected, Inplace
<1> QED BY <1>2, <1>4, <1>5, WaitOn DEF Inplace, Creating, Idle

(* Esc.                                                                      *)
LEMMA AsIsKept ==
  ASSUME Alone, Kit, NEW p \in Editors, TypeInv', AsIs(p)
  PROVE  KeepInv'
<1>1. Waits
  BY DEF AsIs, Waits, files, log, history
<1> QED BY <1>1, GoOnKept DEF AsIs

(* The journal is of another version of the file: it is preserved.           *)
LEMMA PassedKept ==
  ASSUME Alone, Kit, NEW p \in Editors, TypeInv', Waits, ed[p].pc = "asked",
         ~HeaderMatches(dir.j, ed[p].meta),
         NEW e, e = ed'[p], e.meta = ed[p].meta, e.prot = ed[p].prot,
         e.pc = "oldBase", e.goal = "replay"
  PROVE  KeepInv'
<1>1. Unmoving(p)
  <2>1. SUFFICES ASSUME NEW f, NEW t, Reached(f, t)
                 PROVE  Steady(f) /\ Clear(e, H(f), f, t)
    BY DEF Unmoving
  <2>2. Steady(f)
    BY <2>1, SteadyStill DEF Waits
  <2>3. Older(H(f), ed[p].meta)
    BY <2>1, PastPrompt
  <2>4. Clear(e, H(f), f, t)
    BY <2>1, <2>3, ClearNext DEF Holding
  <2> QED BY <2>2, <2>4
<1>2. Guarded(ed[p])'
  BY FreeProt, ProtFree DEF Protected, Inplace
<1> QED BY <1>1, <1>2, WaitOn DEF Inplace, Creating, Idle

(* 'd' at the prompt.                                                        *)
LEMMA DeclineKept ==
  ASSUME Alone, Kit, NEW p \in Editors, TypeInv', Decline(p)
  PROVE  KeepInv'
<1> DEFINE e == ed[p]
           u == ed'[p]
           f == dir.j
           r == ValidPrefix(journals[f].recs)
<1>1. /\ TypeInv /\ DOMAIN e = Fields /\ p \in DOMAIN ed /\ e.pc = "asked"
      /\ Stores /\ Keeps(e) /\ Locked(e) /\ BackupsOK /\ OwedOK
  BY KitAt DEF Decline
<1>2. UNCHANGED <<disk, dst, backups, spoilt, baseless, journals, dir, cut, unread>>
  BY DEF Decline, files, log
<1>3. Free(p, f)
  BY AloneFree
<1>4. CASE GoOn(p) /\ UNCHANGED owed
  <2>1. Waits
    BY <1>2, <1>4 DEF Waits
  <2> QED BY <1>1, <1>4, <2>1, GoOnKept
<1>5. CASE /\ f # 0 /\ Sound(f) /\ Matches(f, e.meta)
           /\ ed' = [ed EXCEPT ![p].pc = "dropBase", ![p].fd = f,
                               ![p].goal = "decline", ![p].held = TRUE]
           /\ owed' = owed \ Answered(f, After(From(p, f), r, Len(r)))
  <2>1. /\ u.pc = "dropBase" /\ u.fd = f /\ u.meta = e.meta /\ u.prot = e.prot
        /\ u.goal = "decline"
    BY <1>1, <1>5 DEF Fields
  <2>2. owed' = owed \ Answered(f, Gives(journals[f], From(p, f)))
    BY <1>5 DEF Gives, Leads
  <2>3. ASSUME NEW g, NEW t, Reached(g, t), g # f
        PROVE  Steady(g) /\ Clear(u, H(g), g, t)
    <3>1. Steady(g)
      BY <1>2, <2>3, SteadyStill
    <3>2. g \in dir.oldj /\ Headed(g)
      BY <2>3, ReachedClear DEF NamesIn
    <3>3. Older(H(g), u.meta)
      BY <1>1, <2>1, <3>2 DEF Keeps, Behind
    <3>4. Clear(u, H(g), g, t)
      BY <2>1, <2>3, <3>3, ClearNext
    <3> QED BY <3>1, <3>4
  <2>4. \A o \in owed' : o \in owed /\ Unmoved(p, o.now) /\ Unmoved(p, o.late)
    BY <1>1, <1>5, <2>2, <2>3, OwedAnswered
  <2>5. Settled
    BY <1>1, <1>2, StillSettled
  <2>6. Stores'
    BY <1>1, <1>2, <2>5, StoresStill
  <2>7. u.pc \notin Inplace /\ e.pc \notin Inplace
    BY <1>1, <2>1 DEF Inplace
  <2>8. Spare' = Spare
    BY <1>2, <2>7, SpareStill
  <2>9. OwedOK'
    <3>1. Len(journals) <= Len(journals')
      BY <2>5 DEF Settled, HeadsSame
    <3> QED BY <1>1, <1>2, <2>4, <2>8, <3>1, OwedStays
  <2>10. BackupsOK'
    <3>1. \A q \in Editors : q = p
      BY DEF Alone
    <3> QED BY <1>1, <1>2, <2>7, <3>1 DEF BackupsOK
  <2>11. Keeps(ed[p])'
    <3>1. Behind(ed[p].meta)'
      BY <1>1, <1>2, <2>1, <2>5, BehindMeta
    <3>2. ~spoilt => Stands
      BY <1>1, <1>5, MatchedStands
    <3>3. Stands => Stands'
      BY <1>2, StandsStill
    <3> QED BY <1>2, <2>1, <3>1, <3>2, <3>3, KeepsFree
  <2>12. Guarded(ed[p])'
    BY <1>1, <2>1, FreeProt, ProtFree DEF Protected, Inplace
  <2> QED BY <2>6, <2>9, <2>10, <2>11, <2>12, KeepOf
<1> QED BY <1>3, <1>4, <1>5 DEF Decline

LEMMA LateAlike ==
  ASSUME NEW x, NEW y, Proper(x), Proper(y), Alike(x, y), NEW h, h = x.hdr,
         h # NoHeader, y = x \/ y.safe = Size(y), NEW t, NEW S,
         Told(Survivors(x), h, t, S)
  PROVE  Told(Survivors(y), h, t, S)
<1>1. CASE y = x
  BY <1>1
<1>2. CASE y.safe = Size(y)
  <2>1. Told({x}, h, t, S)
    BY ToldWhole
  <2>2. Told({y}, h, t, S)
    BY <2>1, ToldAlike
  <2> QED BY <1>2, <2>2, ToldSafe
<1> QED BY <1>1, <1>2

LEMMA ProperNext ==
  ASSUME TypeInv', NEW f \in 1 .. Len(journals'), NEW y, y = journals'[f]
  PROVE  Proper(y)
<1>1. GoodLog(y)'
  BY DEF TypeInv, LogsOK
<1>2. y.recs \in Seq(Recs)
  BY <1>1 DEF GoodLog, Recs
<1> QED BY <1>1, <1>2 DEF GoodLog, Proper

(* What was owed after a power cut and is answered now is owed still.        *)
LEMMA LateAnswered ==
  ASSUME Alone, Kit, NEW p \in Editors, TypeInv', ed[p].pc = "asked", dir.j # 0,
         Matches(dir.j, ed[p].meta), ~spoilt, UNCHANGED disk,
         baseless \subseteq baseless', Spare \subseteq Spare',
         Len(journals) = Len(journals'), NEW x, x = journals[dir.j],
         NEW y, y = journals'[dir.j], Alike(x, y), y = x \/ y.safe = Size(y),
         NEW t, t = From(p, dir.j), NEW h, h = x.hdr, NEW B, B = Spare,
         NEW A, A \subseteq owed, A # {}, NEW L, L = UNION {o.late : o \in A},
         \A f, b : Reached(f, b) /\ f # dir.j =>
           Steady(f) /\ Clear(ed'[p], H(f), f, b)
  PROVE  \/ Later(L)'
         \/ /\ Bears(disk, baseless, cut, dir.j, h, t, B)
            /\ Told(Survivors(y), h, t, L)
<1>1. TypeInv /\ OwedOK /\ dir.j \in 1 .. Len(journals) /\ h # NoHeader
  BY KitAt, DirLog DEF Matches
<1>2. CASE L = {}
  BY <1>2 DEF Later
<1>3. CASE L # {}
  <2>1. PICK o \in A : o.late # {}
    BY <1>3
  <2>2. Later(o.late) /\ o.late \subseteq L
    BY <1>1, <2>1 DEF OwedOK
  <2>3. PICK f, b : AllClear(f, b) /\ HoldsLate(o.late, f, b, Spare)
    BY <2>1, <2>2 DEF Later
  <2>4. HoldsLate(L, f, b, Spare)
    BY <2>2, <2>3, ToldWider DEF HoldsLate
  <2>5. Reached(f, b)
    <3>1. HoldsLate(L, f, b, B)
      BY <2>4
    <3>2. HoldsNow(L, f, b, B)
      BY <1>1, <3>1, LateNow
    <3> QED BY <2>3, <3>2 DEF HoldsNow, Reached
  <2>6. CASE f # dir.j
    <3>1. Steady(f) /\ Clear(ed'[p], H(f), f, b) /\ Len(journals) <= Len(journals')
      BY <1>1, <2>5, <2>6, LogsRange
    <3>2. f \notin unread
      BY <2>3 DEF AllClear
    <3> QED BY <1>1, <2>4, <3>1, <3>2, LaterOne
  <2>7. CASE f = dir.j
    <3>1. b = t
      BY <2>5, <2>7, MatchedFrom
    <3>2. H(f) = h /\ journals[f] = x
      BY <2>7 DEF H
    <3>3. Bears(disk, baseless, cut, dir.j, h, t, B) /\ Told(Survivors(x), h, t, L)
      BY <2>4, <2>7, <3>1, <3>2 DEF HoldsLate
    <3>4. Proper(x) /\ Proper(y)
      BY <1>1, LogProper, ProperNext
    <3>5. Told(Survivors(y), h, t, L)
      BY <1>1, <3>3, <3>4, LateAlike
    <3> QED BY <3>3, <3>5
  <2> QED BY <2>6, <2>7
<1> QED BY <1>2, <1>3

(* yew_journal_replay_edit.                                                  *)
LEMMA ReplayKept ==
  ASSUME Alone, Kit, NEW p \in Editors, TypeInv', ed[p].pc = "asked",
         dir.j # 0, Sound(dir.j), Matches(dir.j, ed[p].meta),
         UNCHANGED <<disk, dst, backups, dir, cut, spoilt, baseless, unread>>, NEW n,
         n \in Stops(From(p, dir.j), ValidPrefix(journals[dir.j].recs)),
         Replay(p, dir.j, n)
  PROVE  KeepInv'
<1> DEFINE e == ed[p]
           u == ed'[p]
           f == dir.j
           x == journals[f]
           t == From(p, f)
           v == ValidPrefix(x.recs)
           h == x.hdr
           s == After(t, x.recs, n)
           A == Answered(f, s)
           L == UNION {o.late : o \in A}
<1>1. /\ TypeInv /\ DOMAIN e = Fields /\ p \in DOMAIN ed /\ Locked(e) /\ Stores
      /\ Keeps(e) /\ BackupsOK /\ OwedOK
      /\ f \in 1 .. Len(journals) /\ Log = x /\ h # NoHeader /\ Headed(f)
      /\ H(f) = h
  BY KitAt, DirLog DEF Matches, Log, Headed, H
<1>2. Known => /\ n = Len(v) /\ s = Gives(x, t)
               /\ Basis(disk, x, t) /\ t \in Texts /\ x.recs \in Seq(Recs)
  BY ReplayText DEF Kit, Gives
<1>3. GoodLog(x)
  BY <1>1, LogOf
<1>4. Known => SubSeq(x.recs, 1, n) = v
  BY <1>2, PrefixCut
<1>22. ~Known => A = {}
  BY DEF Known, Answered
<1> DEFINE q == IF A = {} THEN Nothing ELSE [now |-> {s}, late |-> L]
<1>5. /\ u.pc = "open" /\ u.goal = "none" /\ u.text = s
      /\ u.meta = IF Current(p, f) THEN e.meta
                  ELSE [ino |-> h.ino, mtime |-> h.mtime]
      /\ u.prot = q
  <2>1. ed' = [ed EXCEPT ![p].pc = "open", ![p].goal = "none", ![p].text = s,
                 ![p].meta = IF Current(p, f) THEN e.meta
                             ELSE [ino |-> h.ino, mtime |-> h.mtime],
                 ![p].prot = q]
    BY Zenon DEF Replay
  <2> HIDE DEF q, s, h
  <2> QED BY <1>1, <2>1 DEF Fields
<1>6. /\ HeadsSame /\ Len(journals') = Len(journals)
      /\ \A g \in 1 .. Len(journals) : g # f => journals'[g] = journals[g]
      /\ journals'[f].hdr = h
      /\ Known => /\ Alike(x, journals'[f])
                  /\ \/ journals'[f] = x
                     \/ journals'[f].safe = Size(journals'[f])
  <2>1. \/ UNCHANGED journals
        \/ SetJournal(f, [x EXCEPT !.recs = SubSeq(@, 1, n), !.safe = n + 1])
    BY DEF Replay
  <2>4. /\ HeadsSame /\ Len(journals') = Len(journals) /\ journals'[f].hdr = h
        /\ \A g \in 1 .. Len(journals) : g # f => journals'[g] = journals[g]
    <3>1. CASE UNCHANGED journals
      BY <1>1, <3>1, HeadsStill
    <3>2. ASSUME NEW y, y = [x EXCEPT !.recs = SubSeq(@, 1, n), !.safe = n + 1],
                 SetJournal(f, y)
          PROVE  /\ HeadsSame /\ Len(journals') = Len(journals)
                 /\ \A g \in 1 .. Len(journals) : g # f => journals'[g] = journals[g]
                 /\ journals'[f].hdr = h
      <4>1. y.hdr = journals[f].hdr
        BY <1>3, <3>2 DEF GoodLog
      <4> HIDE DEF x
      <4> QED BY <1>1, <3>2, <4>1, LogSetTo DEF x
    <3> QED BY <2>1, <3>1, <3>2
  <2>5. SUFFICES ASSUME Known
                 PROVE  /\ Alike(x, journals'[f])
                        /\ \/ journals'[f] = x
                           \/ journals'[f].safe = Size(journals'[f])
    BY <2>4
  <2>2. [x EXCEPT !.recs = SubSeq(@, 1, n), !.safe = n + 1]
          = [x EXCEPT !.recs = v, !.safe = Len(v) + 1]
    BY <1>2, <1>4, <2>5
  <2> HIDE DEF v
  <2>3. \/ UNCHANGED journals
        \/ SetJournal(f, [x EXCEPT !.recs = v, !.safe = Len(v) + 1])
    BY <2>1, <2>2
  <2> QED BY <1>1, <2>3, LogTrimmed DEF v
<1>7. Settled
  BY <1>6 DEF Settled
<1>8. Fit(h, u.meta)
  BY <1>1, <1>5 DEF Fit, Current, HeaderMatches
<1>23. Version(u.meta)
  <2>1. Version(e.meta) /\ Version(H(f))
    BY <1>1, KitAt, HeaderVersion
  <2> QED BY <1>1, <1>5, <2>1 DEF Version, Current
<1>9. Behind(u.meta)
  <2>1. CASE Current(p, f)
    BY <1>1, <1>5, <2>1 DEF Keeps
  <2>2. CASE ~Current(p, f)
    <3>1. Stack(dir)
      BY <1>1 DEF Stores, TypeInv, DirsOK
    <3>2. u.meta.ino = h.ino /\ u.meta.mtime = h.mtime
      BY <1>5, <2>2
    <3>3. SUFFICES ASSUME NEW g \in dir.oldj, Headed(g) PROVE Older(H(g), u.meta)
      BY DEF Behind
    <3>4. g # f
      BY <3>3 DEF Sound
    <3>5. Older(H(g), H(f))
      BY <1>1, <3>1, <3>3, <3>4 DEF Stack
    <3> QED BY <1>1, <3>2, <3>5 DEF Older
  <2> QED BY <2>1, <2>2
<1>10. ASSUME NEW g, NEW b, Reached(g, b), g # f
       PROVE  Steady(g) /\ Clear(u, H(g), g, b)
  <2>1. g \in dir.oldj /\ Headed(g) /\ g \in 1 .. Len(journals) /\ g \in NamesIn(dir)
    BY <1>10, ReachedClear DEF NamesIn
  <2>2. Steady(g)
    BY <1>6, <1>10, <2>1 DEF Steady, Stay
  <2>3. Older(H(g), u.meta)
    BY <1>9, <2>1 DEF Behind
  <2>4. Clear(u, H(g), g, b)
    <3>1. ~Fit(H(g), u.meta)
      <4>1. Version(H(g)) /\ Version(u.meta)
        BY <1>1, <2>1, <1>23, HeaderVersion DEF Headed
      <4> QED BY <2>3, <4>1, OlderFit
    <3> QED BY <1>5, <2>3, <3>1 DEF Clear, Holding
  <2> QED BY <2>2, <2>4
<1>11. u.pc \notin Inplace /\ e.pc \notin Inplace
  BY <1>5 DEF Inplace
<1>12. Spare' = Spare /\ Spare = ToSet(backups)
  BY <1>11, SpareStill
<1>13. OwedOK'
  <2>1. owed' = owed \ A
    BY DEF Replay
  <2>2. \A o \in owed' : o \in owed /\ Unmoved(p, o.now) /\ Unmoved(p, o.late)
    <3>1. CASE Known
      BY <1>2, <1>10, <2>1, <3>1, OwedAnswered
    <3>2. CASE ~Known
      <4>1. Unmoving(p)
        BY <1>10, <3>2 DEF Unmoving, Reached, AllClear, Known
      <4> QED BY <2>1, <4>1, UnmovingAny
    <3> QED BY <3>1, <3>2
  <2>3. Len(journals) <= Len(journals')
    BY <1>1, <1>6, LogsRange
  <2> QED BY <1>1, <1>12, <2>2, <2>3, OwedStays
<1>14. BackupsOK'
  <2>1. \A q1 \in Editors : q1 = p
    BY DEF Alone
  <2> QED BY <1>1, <1>11, <2>1 DEF BackupsOK
<1>15. Stores'
  BY <1>1, <1>7, StoresStill
<1>16. PICK y : y = journals'[f] /\ y.hdr = h
  BY <1>6
<1>17. Log'.hdr = h /\ Log.hdr = h
  BY <1>1, <1>16 DEF Log
<1>18. ~spoilt => Stands /\ Stands'
  <2>1. ~spoilt => Stands
    BY MatchedStands
  <2>2. Stands => Stands'
    BY <1>17 DEF Stands, Intact, Beside, Like
  <2> QED BY <2>1, <2>2
<1>19. Keeps(ed[p])'
  <2>1. Behind(ed[p].meta)'
    <3>1. PICK m : m = u.meta
      OBVIOUS
    <3>2. Behind(m)'
      BY <1>1, <1>7, <1>9, <3>1, BehindStays
    <3> QED BY <3>1, <3>2 DEF Behind
  <2> QED BY <1>5, <1>18, <2>1, KeepsFree
<1>20. CASE A = {}
  <2>1. Guarded(ed[p])'
    BY <1>5, <1>20, ProtFree
  <2> QED BY <1>13, <1>14, <1>15, <1>19, <2>1, KeepOf
<1>21. CASE A # {}
  <2>0. Known
    BY <1>21, <1>22
  <2>1. u.prot = [now |-> {s}, late |-> L]
    BY <1>5, <1>21
  <2>2. PICK S, M : S = {s} /\ M = L
    OBVIOUS
  <2>3. u.prot.now = S /\ u.prot.late = M /\ DOMAIN u.prot = {"now", "late"}
    BY <2>1, <2>2
  <2>4. ASSUME ~spoilt PROVE Mine(S, M)'
    <3>1. PICK B : B = ToSet(backups)
      OBVIOUS
    <3>2. Bears(disk, baseless, {dir}, f, h, t, B)
      <4>1. Stands /\ Grounds(disk, h) \subseteq {t}
        BY <1>2, <1>18, <2>0, <2>4 DEF Basis
      <4> QED BY <1>1, <1>2, <2>0, <4>1 DEF Bears, Stands, NamesIn
    <3>3. Told({y}, h, t, S)
      <4>1. Gives(y, t) = s
        BY <1>2, <1>6, <1>16, <2>0 DEF Alike, Gives
      <4> QED BY <1>16, <2>2, <4>1 DEF Told
    <3>4. \/ Later(M)'
          \/ Bears(disk, baseless, cut, f, h, t, B) /\ Told(Survivors(y), h, t, M)
      <4>1. A \subseteq owed
        BY DEF Answered
      <4>2. B = Spare /\ Spare \subseteq Spare' /\ baseless \subseteq baseless'
        BY <1>12, <3>1
      <4> HIDE DEF A
      <4> QED BY <1>1, <1>6, <2>0, <1>10, <1>16, <1>21, <2>2, <2>4, <4>1, <4>2, LateAnswered
    <3>5. f \in 1 .. Len(journals')
      BY <1>1, <1>6
    <3>6. PICK g, k, b : g = f /\ k = h /\ b = t
      OBVIOUS
    <3>7. /\ g = dir.j /\ g \in 1 .. Len(journals') /\ y = journals'[g] /\ k = y.hdr
          /\ Bears(disk, baseless, {dir}, g, k, b, B) /\ Told({y}, k, b, S)
          /\ \/ Bears(disk, baseless, cut, g, k, b, B) /\ Told(Survivors(y), k, b, M)
             \/ Later(M)'
      BY <1>16, <3>2, <3>3, <3>4, <3>5, <3>6
    <3> QED BY <3>1, <3>7, MineTo
  <2>5. ~spoilt' => Mine(ed[p].prot.now, ed[p].prot.late)'
    BY <2>3, <2>4
  <2>6. Fit(Log.hdr', u.meta)
    BY <1>8, <1>17
  <2>7. u.prot.now = {u.text}
    BY <1>5, <2>2, <2>3
  <2>9. dir'.j \notin unread' /\ ~Waiting(ed[p])'
    <3>1. f \notin unread /\ u.goal = "none"
      BY <1>5, <1>21 DEF Answered
    <3> QED BY <1>5, <3>1 DEF Waiting
  <2>8. Guarded(ed[p])'
    BY <1>5, <1>21, <2>3, <2>5, <2>6, <2>7, <2>9 DEF Guarded, Protected
  <2> QED BY <1>13, <1>14, <1>15, <1>19, <2>8, KeepOf
<1> QED BY <1>20, <1>21

(* 'r' at the prompt.                                                        *)
LEMMA RecoverKept ==
  ASSUME Alone, Kit, NEW p \in Editors, TypeInv', Recover(p)
  PROVE  KeepInv'
<1> DEFINE e == ed[p]
           u == ed'[p]
           f == dir.j
<1>1. /\ TypeInv /\ DOMAIN e = Fields /\ p \in DOMAIN ed /\ e.pc = "asked"
  BY KitAt DEF Recover
<1>2. UNCHANGED <<disk, dst, backups, spoilt, baseless, dir, cut, unread>>
  BY DEF Recover, files
<1>3. CASE GoOn(p) /\ UNCHANGED <<journals, owed>>
  <2>1. Waits
    BY <1>2, <1>3 DEF Waits
  <2> QED BY <1>1, <1>3, <2>1, GoOnKept
<1>4. CASE /\ ~HeaderMatches(f, e.meta)
           /\ ed' = [ed EXCEPT ![p].pc = "oldBase", ![p].goal = "replay",
                               ![p].fd = f, ![p].held = TRUE]
           /\ UNCHANGED <<journals, owed>>
  <2>1. Waits
    BY <1>2, <1>4 DEF Waits
  <2>2. u.pc = "oldBase" /\ u.goal = "replay" /\ u.meta = e.meta /\ u.prot = e.prot
    BY <1>1, <1>4 DEF Fields
  <2> QED BY <1>1, <1>4, <2>1, <2>2, PassedKept
<1>5. CASE /\ f # 0 /\ Sound(f) /\ Matches(f, e.meta)
           /\ \E n \in Stops(From(p, f), ValidPrefix(journals[f].recs)) :
                Replay(p, f, n)
  BY <1>1, <1>2, <1>5, ReplayKept
<1> QED BY <1>3, <1>4, <1>5 DEF Recover, Current

-----------------------------------------------------------------------------
(* Saving.                                                                   *)

(* A step that writes files: the journals and their names stay.              *)
Held == UNCHANGED <<journals, dir, cut, baseless, unread>>
Lasting(f, t, C) ==
  /\ Firm(disk, disk', H(f))
  /\ Intact(disk, H(f)) /\ Beside(dir, f, H(f)) => Intact(disk', H(f)) \/ t \in C
Outlasting == \A f, t : Reached(f, t) => AllClear(f, t)' /\ Lasting(f, t, Spare)
Renewal    == \A f \in 1 .. Len(journals) : Headed(f) => Older(H(f), Now')

(* What is owed outlasts a change of the files that spares its base, or puts *)
(* the text into a backup.                                                   *)
LEMMA NowLasts ==
  ASSUME Held, NEW S, NEW f, NEW t, NEW B, NEW C, B \subseteq C,
         HoldsNow(S, f, t, B), Lasting(f, t, C)
  PROVE  HoldsNow(S, f, t, C)'
<1>1. PICK E, h : E = disk' /\ h = H(f)
  OBVIOUS
<1>2. Bears(disk, baseless, {dir}, f, h, t, B)
  BY <1>1 DEF HoldsNow
<1>3. /\ Firm(disk, E, h)
      /\ Intact(disk, h) /\ Beside(dir, f, h) => Intact(E, h) \/ t \in C
  BY <1>1 DEF Lasting
<1>4. Passed({dir}, {dir}, dir, f, h)
  BY DEF Passed
<1>5. Bears(E, baseless, {dir}, f, h, t, C)
  BY <1>2, <1>3, <1>4, BearsOn
<1>6. H(f)' = h
  BY <1>1 DEF H, Held
<1> QED BY <1>1, <1>5, <1>6 DEF HoldsNow, Held

LEMMA LateLasts ==
  ASSUME Held, TypeInv, NEW S, NEW f, NEW t, NEW B, NEW C, B \subseteq C,
         HoldsLate(S, f, t, B), Lasting(f, t, C)
  PROVE  HoldsLate(S, f, t, C)'
<1>1. PICK E, h : E = disk' /\ h = H(f)
  OBVIOUS
<1>2. Bears(disk, baseless, cut, f, h, t, B) /\ dir \in cut
  BY <1>1 DEF HoldsLate, TypeInv, DirsOK
<1>3. /\ Firm(disk, E, h)
      /\ Intact(disk, h) /\ Beside(dir, f, h) => Intact(E, h) \/ t \in C
  BY <1>1 DEF Lasting
<1>4. Passed(cut, cut, dir, f, h)
  BY DEF Passed
<1>5. Bears(E, baseless, cut, f, h, t, C)
  BY <1>2, <1>3, <1>4, BearsOn
<1>6. H(f)' = h
  BY <1>1 DEF H, Held
<1> QED BY <1>1, <1>5, <1>6 DEF HoldsLate, Held

LEMMA LaterHeld ==
  ASSUME Held, TypeInv, Spare \subseteq Spare', Outlasting, NEW S, Later(S)
  PROVE  Later(S)'
<1>0. SUFFICES ASSUME S # {} PROVE Later(S)'
  BY DEF Later
<1>1. PICK f, t : AllClear(f, t) /\ HoldsLate(S, f, t, Spare)
  BY <1>0 DEF Later
<1>2. PICK B, C : B = Spare /\ C = Spare'
  OBVIOUS
<1>3. HoldsLate(S, f, t, B) /\ B \subseteq C
  BY <1>1, <1>2
<1>4. HoldsNow(S, f, t, B)
  BY <1>3, LateNow
<1>5. Reached(f, t)
  BY <1>1, <1>2, <1>4 DEF HoldsNow, Reached
<1>6. AllClear(f, t)' /\ Lasting(f, t, C)
  BY <1>2, <1>3, <1>5 DEF Outlasting, Lasting
<1>7. HoldsLate(S, f, t, C)'
  BY <1>3, <1>6, LateLasts
<1>8. HoldsLate(S, f, t, Spare)'
  BY <1>2, <1>7
<1> QED BY <1>6, <1>8 DEF Later

LEMMA OwedHeld ==
  ASSUME Held, UNCHANGED owed, spoilt => spoilt', TypeInv, OwedOK,
         Spare \subseteq Spare', ~spoilt' => Outlasting
  PROVE  OwedOK'
<1>1. SUFFICES ASSUME ~spoilt', NEW o \in owed' PROVE Found(o.now)' /\ Later(o.late)'
  BY DEF OwedOK
<1>2. Found(o.now) /\ Later(o.late)
  BY <1>1 DEF OwedOK
<1>3. PICK S : S = o.now
  OBVIOUS
<1>4. PICK f, t : AllClear(f, t) /\ HoldsNow(S, f, t, Spare)
  BY <1>2, <1>3 DEF Found
<1>5. PICK B, C : B = Spare /\ C = Spare'
  OBVIOUS
<1>6. HoldsNow(S, f, t, B) /\ B \subseteq C
  BY <1>4, <1>5
<1>7. Reached(f, t)
  BY <1>4 DEF HoldsNow, Reached
<1>8. AllClear(f, t)' /\ Lasting(f, t, C)
  BY <1>1, <1>5, <1>6, <1>7 DEF Outlasting, Lasting
<1>9. HoldsNow(S, f, t, C)'
  BY <1>6, <1>8, NowLasts
<1>10. HoldsNow(S, f, t, Spare)'
  BY <1>5, <1>9
<1>11. Found(o.now)'
  BY <1>3, <1>8, <1>10 DEF Found
<1>12. PICK L : L = o.late
  OBVIOUS
<1>13. Later(L)'
  BY <1>1, <1>2, <1>12, LaterHeld
<1> QED BY <1>11, <1>12, <1>13

LEMMA StoresHeld ==
  ASSUME Held, TypeInv, Stores, Renewal
  PROVE  Stores'
<1>1. \A f : H(f)' = H(f) /\ (Headed(f)' <=> Headed(f))
  BY DEF Held, H, Headed
<1>2. HeadsOK'
  BY <1>1 DEF Stores, HeadsOK, Held
<1>3. ASSUME NEW d \in cut PROVE Stack(d)' /\ Rests(d)' /\ Level(d)'
  <2>1. Stack(d) /\ Rests(d) /\ Level(d)
    BY <1>3 DEF Stores
  <2>2. \A f \in d.oldj \cup {d.j} : Headed(f) => f \in 1 .. Len(journals)
    BY <1>3, DirRange DEF Headed
  <2>3. PICK m : m = Now'
    OBVIOUS
  <2>4. \A f \in d.oldj \cup {d.j} : Headed(f) => Older(H(f), m)
    BY <2>2, <2>3 DEF Renewal
  <2>5. Stack(d)'
    BY <1>1, <2>1, <2>3, <2>4 DEF Stack
  <2>6. Rests(d)'
    BY <1>1, <2>3, <2>4 DEF Rests
  <2>7. Level(d)'
    BY <1>1, <2>1 DEF Level, Held, Beside
  <2> QED BY <2>5, <2>6, <2>7
<1>4. cut' = cut
  BY DEF Held
<1> QED BY <1>2, <1>3, <1>4 DEF Stores

LEMMA MineHeld ==
  ASSUME Held, TypeInv, Spare \subseteq Spare', Outlasting, NEW S, NEW L,
         Mine(S, L), NEW C, C = ToSet(backups'), ToSet(backups) \subseteq C,
         \A t : Bears(disk, baseless, {dir}, dir.j, H(dir.j), t, ToSet(backups)) =>
                  Lasting(dir.j, t, C)
  PROVE  Mine(S, L)'
<1>1. PICK t : /\ HoldsNow(S, dir.j, t, ToSet(backups))
               /\ HoldsLate(L, dir.j, t, ToSet(backups)) \/ Later(L)
  BY DEF Mine
<1>2. PICK f, B : f = dir.j /\ B = ToSet(backups)
  OBVIOUS
<1>3. HoldsNow(S, f, t, B) /\ Lasting(f, t, C) /\ B \subseteq C
  BY <1>1, <1>2 DEF HoldsNow
<1>4. HoldsNow(S, f, t, C)'
  BY <1>3, NowLasts
<1>5. HoldsLate(L, f, t, B) => HoldsLate(L, f, t, C)'
  BY <1>3, LateLasts
<1>6. Later(L) => Later(L)'
  BY LaterHeld
<1>7. dir'.j = f /\ ToSet(backups)' = C
  BY <1>2 DEF Held
<1> QED BY <1>1, <1>2, <1>4, <1>5, <1>6, <1>7 DEF Mine

(* A save that is complete.                                                  *)
LEMMA SavedKept ==
  ASSUME Alone, Kit, NEW p \in Editors, TypeInv', Held, UNCHANGED <<owed, spoilt>>,
         Saved(p), BackupsOK', Spare \subseteq Spare', Renewal,
         ed[p].pc \in Holding \ {"dropBase", "dropLog"},
         \A f \in 1 .. Len(journals) : Headed(f) =>
           Firm(disk, disk', H(f)) /\ (Intact(disk, H(f)) => Intact(disk', H(f)))
  PROVE  KeepInv'
<1> DEFINE e == ed[p]
           u == ed'[p]
<1>1. TypeInv /\ DOMAIN e = Fields /\ p \in DOMAIN ed /\ Stores /\ OwedOK
  BY KitAt
<1>2. PICK m : m = Now'
  OBVIOUS
<1>3. /\ u.pc = IF e.fd = 0 THEN "edit" ELSE "dropBase"
      /\ u.meta = m /\ u.fd = e.fd /\ u.prot = Nothing /\ u.goal = "none"
  BY <1>1, <1>2 DEF Saved, Fields, Now
<1>4. \A q \in Editors : q = p
  BY DEF Alone
<1>5. Outlasting
  <2>1. SUFFICES ASSUME NEW f, NEW t, Reached(f, t)
                 PROVE  AllClear(f, t)' /\ Lasting(f, t, Spare)
    BY DEF Outlasting
  <2>2. Headed(f) /\ f \in 1 .. Len(journals) /\ Clear(e, H(f), f, t) /\ f # 0
    BY <2>1, ReachedClear
  <2>3. Older(H(f), m)
    BY <1>2, <2>2 DEF Renewal
  <2>4. e.pc \in Holding => f # e.fd
    BY <2>2 DEF Clear
  <2>5. Clear(u, H(f), f, t)
    <3>1. ~Early(u)
      BY <1>3 DEF Early, Opening, Waiting
    <3> QED BY <1>3, <2>2, <2>3, <2>4, <3>1 DEF Clear, Holding
  <2>6. H(f)' = H(f)
    BY DEF H, Held
  <2>7. AllClear(f, t)'
    BY <1>4, <2>1, <2>5, <2>6 DEF AllClear, Reached, Held
  <2>8. Lasting(f, t, Spare)
    BY <2>2 DEF Lasting
  <2> QED BY <2>7, <2>8
<1>6. OwedOK'
  BY <1>1, <1>5, OwedHeld
<1>7. Stores'
  BY <1>1, StoresHeld
<1>8. Guarded(ed[p])'
  BY <1>3, ProtFree
<1>9. Keeps(ed[p])'
  <2>1. Behind(ed[p].meta)'
    <3>1. Stack(dir)'
      <4>1. dir \in cut /\ dir' = dir /\ cut' = cut
        BY <1>1 DEF Held, TypeInv, DirsOK
      <4> QED BY <1>7, <4>1 DEF Stores
    <3>2. \A g \in dir'.oldj : Headed(g)' => Older(H(g)', m)
      BY <1>2, <3>1 DEF Stack
    <3> QED BY <1>3, <3>2 DEF Behind
  <2>2. ~Fit(Log.hdr', u.meta)
    <3>1. SUFFICES ASSUME Fit(Log.hdr, m) PROVE FALSE
      BY <1>3 DEF Log, Held
    <3>2. dir.j # 0 /\ Log = journals[dir.j] /\ dir.j \in 1 .. Len(journals)
      BY <1>1, <3>1, LogFit, DirLog
    <3>3. Older(Log.hdr, m) /\ Version(Log.hdr)
      BY <1>1, <1>2, <3>1, <3>2, HeaderVersion DEF Renewal, Headed, H, Fit
    <3>4. Version(m)
      <4>1. Version(Now)'
        BY NowVersion, PTL
      <4> QED BY <1>2, <4>1 DEF Version
    <3> QED BY <3>1, <3>3, <3>4, OlderFit
  <2> QED BY <1>3, <2>1, <2>2, KeepsFree DEF Idle
<1> QED BY <1>6, <1>7, <1>8, <1>9, KeepOf

LEMMA HeadInode ==
  ASSUME TypeInv, HeadsOK, NEW f \in 1 .. Len(journals), Headed(f)
  PROVE  /\ Linked(H(f)) /\ H(f).ino \in Nat /\ H(f).ino <= Len(disk)
         /\ H(f).base.kind = "link" => H(f).ino \in 1 .. Len(disk)
         /\ Len(disk) \in Nat /\ H(f).mtime \in Nat
<1>1. Linked(H(f)) /\ GoodLog(journals[f])
  BY LogOf DEF HeadsOK
<1>2. H(f).ino \in Nat /\ H(f).ino <= Len(disk) /\ H(f).mtime \in Nat
  BY <1>1 DEF GoodLog, H
<1>3. Len(disk) \in Nat
  BY LenProperties DEF TypeInv, FilesOK
<1>4. H(f).base.kind = "link" => H(f).ino # 0
  BY <1>1 DEF Linked
<1> QED BY <1>1, <1>2, <1>3, <1>4

(* A save by rename.                                                         *)
LEMMA SaveAtomicKept ==
  ASSUME Alone, Kit, NEW p \in Editors, TypeInv', SaveAtomic(p)
  PROVE  KeepInv'
<1> DEFINE e == ed[p]
<1>1. /\ TypeInv /\ FilesOK /\ GoodEd(e) /\ e.text \in Texts /\ PlaceInv
      /\ HeardAll /\ HeadsOK /\ DOMAIN e = Fields /\ p \in DOMAIN ed /\ BackupsOK
  BY KitAt, SureAt DEF TypeInv, GoodEd, Stores, Kit
<1>b. Len(disk) \in Nat /\ clock \in Nat
  BY <1>1, LenProperties, ClockBound DEF FilesOK
<1>2. /\ UNCHANGED <<journals, dir, cut, baseless, unread, backups, owed,
                    spoilt>>
      /\ baseless \subseteq baseless' /\ Saved(p)
      /\ clock < MaxClock /\ clock' = clock + 1
      /\ disk' = Append(disk, [text |-> e.text, mtime |-> clock'])
      /\ dst' = Len(disk') /\ e.pc \in {"stuck", "edit"}
  BY DEF SaveAtomic, log, history, Savable, Ready
<1>3. /\ Len(disk') = Len(disk) + 1
      /\ \A i \in 1 .. Len(disk) : disk'[i] = disk[i]
      /\ disk'[dst'] = [text |-> e.text, mtime |-> clock']
  BY <1>1, <1>2, FileReplaced, ClockNext
<1>4. Older(Now, Now')
  BY <1>1, <1>2, NowReplaced
<1>5. Renewal
  BY <1>1, <1>2, <1>4, NewerNow DEF Renewal
<1>6. \A f \in 1 .. Len(journals) : Headed(f) =>
        Firm(disk, disk', H(f)) /\ (Intact(disk, H(f)) => Intact(disk', H(f)))
  <2>1. PICK E : E = disk'
    OBVIOUS
  <2>2. Renewed(disk, E, clock)
    BY <1>b, <1>3, <2>1 DEF Renewed
  <2>3. \A f \in 1 .. Len(journals) : Firm(disk, E, journals[f].hdr)
    BY <1>1, <1>2, <2>1, <2>2, RenewedHeard
  <2>4. ASSUME NEW f \in 1 .. Len(journals), Headed(f), Intact(disk, H(f))
        PROVE  Intact(E, H(f))
    BY <1>1, <1>3, <2>1, <2>4, HeadInode DEF Intact
  <2> QED BY <2>1, <2>3, <2>4 DEF H
<1>7. ed'[p].pc \notin Inplace /\ e.pc \notin Inplace
  <2>1. ed'[p].pc = IF e.fd = 0 THEN "edit" ELSE "dropBase"
    BY <1>1, <1>2 DEF Saved, Fields
  <2> QED BY <1>2, <2>1 DEF Inplace
<1>8. Spare' = Spare
  BY <1>2, <1>7, SpareStill
<1>9. BackupsOK'
  <2>1. \A q \in Editors : q = p
    BY DEF Alone
  <2> QED BY <1>1, <1>2, <1>7, <2>1 DEF BackupsOK
<1>10. e.pc \in Holding \ {"dropBase", "dropLog"}
  BY <1>2 DEF Holding
<1> QED BY <1>2, <1>5, <1>6, <1>8, <1>9, <1>10, SavedKept DEF Held

(* The text of a save under way is the last of backups.                      *)
LEMMA FrontAppend ==
  ASSUME NEW s \in Seq(Texts), NEW x \in Texts
  PROVE  /\ Append(s, x) \in Seq(Texts) /\ Append(s, x) # <<>>
         /\ ToSet(Front(Append(s, x))) = ToSet(s)
         /\ ToSet(s) \subseteq ToSet(Append(s, x)) /\ x \in ToSet(Append(s, x))
<1>1. PICK a : a = Append(s, x)
  OBVIOUS
<1>2. /\ a \in Seq(Texts) /\ Len(a) = Len(s) + 1 /\ Len(s) \in Nat
      /\ \A i \in 1 .. Len(s) : a[i] = s[i]
      /\ a[Len(s) + 1] = x /\ DOMAIN s = 1 .. Len(s) /\ DOMAIN a = 1 .. Len(a)
  BY <1>1, AppendProperties, LenProperties
<1>3. PICK b : b = Front(a)
  OBVIOUS
<1>4. b = SubSeq(a, 1, Len(s))
  BY <1>2, <1>3 DEF Front
<1>5. /\ Len(b) = Len(s) /\ DOMAIN b = 1 .. Len(s)
      /\ \A i \in 1 .. Len(s) : b[i] = a[i]
  BY <1>2, <1>4
<1>6. ToSet(b) = ToSet(s)
  BY <1>2, <1>5 DEF ToSet
<1>7. ToSet(s) \subseteq ToSet(a) /\ x \in ToSet(a)
  BY <1>2 DEF ToSet
<1>8. a # <<>>
  BY <1>2
<1> QED BY <1>1, <1>2, <1>3, <1>6, <1>7, <1>8

LEMMA FrontOf ==
  ASSUME NEW s \in Seq(Texts), s # <<>>
  PROVE  Front(s) \in Seq(Texts) /\ ToSet(Front(s)) \subseteq ToSet(s)
<1>1. Len(s) \in Nat /\ Len(s) # 0 /\ DOMAIN s = 1 .. Len(s)
  BY LenProperties, EmptySeq
<1>2. PICK b : b = Front(s)
  OBVIOUS
<1>3. b = SubSeq(s, 1, Len(s) - 1)
  BY <1>2 DEF Front
<1>4. b \in Seq(Texts) /\ DOMAIN b = 1 .. Len(s) - 1
      /\ \A i \in 1 .. Len(s) - 1 : b[i] = s[i]
  BY <1>1, <1>3
<1>5. ToSet(b) \subseteq ToSet(s)
  BY <1>1, <1>4 DEF ToSet
<1> QED BY <1>2, <1>4, <1>5

(* A save in place: the old text is in a backup before it is torn ...        *)
LEMMA SaveInplaceKept ==
  ASSUME Alone, Kit, NEW p \in Editors, TypeInv', SaveInplace(p)
  PROVE  KeepInv'
<1> DEFINE e == ed[p]
           u == ed'[p]
           y == [text |-> Torn, mtime |-> clock']
           o == At(dst).text
<1>1. /\ TypeInv /\ FilesOK /\ PlaceInv /\ Stores /\ Keeps(e) /\ Guarded(e)
      /\ HeardAll /\ HeadsOK /\ DOMAIN e = Fields /\ p \in DOMAIN ed /\ BackupsOK
      /\ OwedOK /\ Version(e.meta)
  BY KitAt, SureAt DEF TypeInv, Stores, Kit
<1>b. /\ Len(disk) \in Nat /\ clock \in Nat /\ MaxClock \in Nat
      /\ dst \in 0 .. Len(disk)
  BY <1>1, LenProperties, ClockBound DEF FilesOK
<1>2. /\ UNCHANGED <<journals, dir, cut, baseless, unread, owed, spoilt>>
      /\ dst' = dst /\ dst # 0 /\ clock < MaxClock
      /\ clock' = clock + 1 /\ disk' = [disk EXCEPT ![dst] = y]
      /\ Goto(p, IF e.fd = 0 THEN "inplace" ELSE "inplace log")
      /\ Savable(p) /\ (e.pc = "stuck" \/ e.fd # 0)
      /\ backups' = Append(backups, o) /\ e.pc \in {"edit", "stuck"}
  BY DEF SaveInplace, log, history, Savable, Ready
<1>3. /\ y \in [text : Texts, mtime : Nat] /\ y.mtime = clock + 1
      /\ y.mtime \in 1 .. clock' /\ clock' \in clock .. MaxClock
      /\ y.mtime = clock'
  <2>0. clock < MaxClock /\ clock' = clock + 1
    BY <1>2
  <2>1. clock' \in Nat /\ clock' \in clock .. MaxClock /\ clock' \in 1 .. clock'
    BY <1>b, <2>0
  <2> QED BY <1>2, <2>1, TornText
<1> HIDE DEF y
<1>4. /\ Len(disk') = Len(disk) /\ disk'[dst] = y
      /\ \A i \in 1 .. Len(disk) : i # dst => disk'[i] = disk[i]
  BY <1>1, <1>b, <1>2, <1>3, FileWritten
<1>5. Older(Now, Now')
  BY <1>1, <1>2, <1>3, NowWritten
<1>6. Renewal
  BY <1>1, <1>2, <1>5, NewerNow DEF Renewal
<1>7. \A f \in 1 .. Len(journals) : Firm(disk, disk', H(f))
  <2>1. PICK E : E = disk'
    OBVIOUS
  <2>2. Renewed(disk, E, clock)
    BY <1>b, <1>3, <1>4, <2>1 DEF Renewed
  <2>3. \A f \in 1 .. Len(journals) : Firm(disk, E, journals[f].hdr)
    BY <1>1, <1>2, <2>1, <2>2, RenewedHeard
  <2> QED BY <2>1, <2>3 DEF H
<1>8. Held
  BY <1>2 DEF Held
<1>9. /\ u.pc \in {"inplace", "inplace log"} /\ u.meta = e.meta /\ u.fd = e.fd
      /\ u.prot = e.prot /\ u.goal = e.goal /\ u.text = e.text
      /\ u.pc = "inplace" <=> e.fd = 0
  <2>1. PICK label : label = IF e.fd = 0 THEN "inplace" ELSE "inplace log"
    OBVIOUS
  <2>2. Goto(p, label)
    BY <1>2, <2>1
  <2>3. u.pc = label /\ u.meta = e.meta /\ u.fd = e.fd /\ u.goal = e.goal
        /\ u.text = e.text /\ u.prot = e.prot
    BY <1>1, <2>2, GotoFields, EdKept
  <2> QED BY <2>1, <2>3
<1>10. \A q \in Editors : q = p
  BY DEF Alone
<1>11. o \in Texts /\ backups \in Seq(Texts)
  BY <1>1, FileInode DEF BackupsOK, FilesOK
<1>12. Spare' = Spare /\ Spare = ToSet(backups)
  <2>1. ~(\E q \in Editors : ed[q].pc \in Inplace)
        /\ (\E q \in Editors : ed'[q].pc \in Inplace)
    BY <1>2, <1>9, <1>10 DEF Inplace
  <2>2. Spare = ToSet(backups) /\ Spare' = ToSet(Front(backups'))
    BY <2>1 DEF Spare
  <2> QED BY <1>2, <1>11, <2>2, FrontAppend
<1>13. BackupsOK'
  <2>1. backups' \in Seq(Texts) /\ backups' # <<>>
    BY <1>2, <1>11, FrontAppend
  <2> QED BY <2>1 DEF BackupsOK
<1>14. ASSUME NEW f \in 1 .. Len(journals), Headed(f), Intact(disk, H(f))
       PROVE  Intact(disk', H(f))
              \/ (H(f).ino = dst /\ H(f).mtime = disk[dst].mtime)
  BY <1>1, <1>4, <1>14, HeadInode DEF Intact
<1>15. Outlasting
  <2>1. SUFFICES ASSUME NEW f, NEW t, Reached(f, t)
                 PROVE  AllClear(f, t)' /\ Lasting(f, t, Spare)
    BY DEF Outlasting
  <2>2. Headed(f) /\ f \in 1 .. Len(journals) /\ Clear(e, H(f), f, t) /\ f # 0
    BY <2>1, ReachedClear
  <2>3. f # e.fd
    BY <1>2, <2>2 DEF Clear, Holding
  <2>9. \/ Older(H(f), e.meta)
        \/ /\ Fit(H(f), e.meta) /\ e.text = t /\ Early(u)
  <3>1. SUFFICES ASSUME ~Older(H(f), e.meta)
                 PROVE  Fit(H(f), e.meta) /\ e.text = t /\ Early(u)
    OBVIOUS
  <3>2. f = dir.j
    <4>1. f \notin dir.oldj
      BY <1>1, <1>2, <2>2, <3>1 DEF Keeps, Behind
    <4> QED BY <2>1, <4>1, ReachedClear DEF NamesIn
  <3>3. Placed(e)
    BY <1>1 DEF PlaceInv
  <3>4. Fit(H(f), e.meta)
    <4>1. Upto(H(f), e.meta)
      BY <1>2, <2>2, <3>2, <3>3 DEF Placed, Versed
    <4> QED BY <2>2, <3>1, <4>1 DEF Upto, Fit, Headed, H
  <3>5. e.fd = 0
    BY <1>2, <2>3, <3>2, <3>3 DEF Placed, Sited
  <3>6. Early(e) /\ e.text = t
    BY <1>2, <2>2, <3>1, <3>4 DEF Clear
  <3>7. e.goal = "aside"
    BY <1>2, <3>5, <3>6 DEF Early, Opening, Waiting
  <3> QED BY <1>9, <3>4, <3>5, <3>6, <3>7 DEF Early, Waiting
  <2>4. Clear(u, H(f), f, t)
    <3>1. Older(H(f), e.meta) => ~Fit(H(f), e.meta)
      BY <2>1, OlderUnfit
    <3> QED BY <1>9, <2>3, <2>9, <3>1 DEF Clear
  <2>5. H(f)' = H(f)
    BY <1>2 DEF H
  <2>6. AllClear(f, t)'
    BY <1>2, <1>10, <2>1, <2>4, <2>5 DEF AllClear, Reached
  <2>7. Intact(disk, H(f)) => Intact(disk', H(f))
    <3>1. SUFFICES ASSUME H(f).ino = dst, H(f).mtime = disk[dst].mtime PROVE FALSE
      BY <1>14, <2>2
    <3>2. Upto(e.meta, Now)
      BY <1>1, <1>2 DEF PlaceInv, Placed, Versed
    <3>3. Version(H(f)) /\ Version(Now)
      BY <1>1, <2>2, HeaderVersion, NowVersion
    <3>7. Older(H(f), e.meta)
      <4>1. SUFFICES ASSUME e.text = t PROVE FALSE
        BY <2>9
      <4>2. disk[dst].text \in Grounds(disk, H(f))
        BY <1>2, <3>1 DEF Grounds, Written
      <4>3. disk[dst].text = t
        BY <2>1, <4>2, ReachedClear
      <4> QED BY <1>2, <4>1, <4>3 DEF Savable, At
    <3>4. Older(H(f), Now)
      BY <1>1, <3>2, <3>3, <3>7, OlderUpto
    <3>5. H(f).ino = Now.ino /\ H(f).mtime = Now.mtime
      BY <1>2, <3>1 DEF Now, MetaOf, At
    <3>6. Now.ino \in Nat /\ Now.mtime \in Nat
      BY <3>3 DEF Version
    <3> QED BY <3>4, <3>5, <3>6 DEF Older
  <2>8. Lasting(f, t, Spare)
    BY <1>7, <2>2, <2>7 DEF Lasting
  <2> QED BY <2>6, <2>8
<1>16. OwedOK'
  BY <1>1, <1>2, <1>8, <1>12, <1>15, OwedHeld
<1>17. Stores'
  BY <1>1, <1>6, <1>8, StoresHeld
<1>18. Keeps(ed[p])'
  <2>1. Behind(e.meta)
    BY <1>1, <1>2 DEF Keeps
  <2>2. Behind(ed[p].meta)'
    BY <1>2, <1>9, <2>1 DEF Behind, Headed, H
  <2> QED BY <1>9, <2>2, KeepsFree DEF Idle, Inplace
<1>19. Guarded(ed[p])'
  <2>1. SUFFICES ASSUME e.prot # Nothing PROVE Guarded(ed[p])'
    BY <1>9, ProtFree
  <2>2. /\ DOMAIN e.prot = {"now", "late"} /\ Fit(Log.hdr, e.meta)
        /\ ~spoilt => Mine(e.prot.now, e.prot.late)
    BY <1>1, <2>1 DEF Guarded
  <2>3. PICK S, L, C : S = e.prot.now /\ L = e.prot.late /\ C = ToSet(backups')
    OBVIOUS
  <2>4. ToSet(backups) \subseteq C /\ o \in C
    BY <1>2, <1>11, <2>3, FrontAppend
  <2>5. dir.j \in 1 .. Len(journals) /\ H(dir.j) = Log.hdr /\ Headed(dir.j)
    BY <1>1, <2>2, LogFit, DirLog DEF H, Headed, Fit
  <2>6. ASSUME NEW t, Bears(disk, baseless, {dir}, dir.j, H(dir.j), t, ToSet(backups))
        PROVE  Lasting(dir.j, t, C)
    <3>1. SUFFICES ASSUME Intact(disk, H(dir.j)), ~Intact(disk', H(dir.j))
                   PROVE  t \in C
      BY <1>7, <2>5 DEF Lasting
    <3>2. H(dir.j).ino = dst /\ H(dir.j).mtime = disk[dst].mtime
      BY <1>14, <2>5, <3>1
    <3>3. Written(disk, H(dir.j)) = {disk[dst].text} /\ o = disk[dst].text
      BY <1>2, <3>2 DEF Written, At
    <3>4. o \in {t}
      BY <2>6, <3>3 DEF Bears, Grounds
    <3> QED BY <2>4, <3>4
  <2>7. Mine(S, L) => Mine(S, L)'
    BY <1>1, <1>8, <1>12, <1>15, <2>3, <2>4, <2>6, MineHeld
  <2>8. ~spoilt' => Mine(ed[p].prot.now, ed[p].prot.late)'
    BY <1>2, <1>9, <2>2, <2>3, <2>7
  <2>9. Log' = Log
    BY <1>2 DEF Log
  <2>10. dir'.j \notin unread' /\ ~Waiting(ed[p])'
    BY <1>1, <1>2, <1>9, <2>1 DEF Guarded, Waiting
  <2> QED BY <1>9, <2>2, <2>8, <2>9, <2>10 DEF Guarded, Protected, Inplace
<1> QED BY <1>13, <1>16, <1>17, <1>18, <1>19, KeepOf

(* ... and no journal that is owed needs it when the save is complete.       *)
LEMMA SaveInplace2Kept ==
  ASSUME Alone, Kit, NEW p \in Editors, TypeInv', SaveInplace2(p)
  PROVE  KeepInv'
<1> DEFINE e == ed[p]
<1>0. /\ e.pc \in Inplace
      /\ disk' = [disk EXCEPT ![dst].text = e.text] /\ dst' = dst
      /\ UNCHANGED <<journals, dir, cut, baseless, unread, owed, spoilt>> /\ Saved(p)
      /\ backups' = Front(backups)
  BY DEF SaveInplace2, log, history, Inplace
<1>1. /\ TypeInv /\ FilesOK /\ Sited(e) /\ dst # 0 /\ Len(disk) \in Nat
      /\ HeadsOK /\ BackupsOK /\ DOMAIN e = Fields /\ p \in DOMAIN ed
  BY <1>0, KitAt, SureAt, LenProperties
  DEF PlaceInv, TypeInv, Placed, FilesOK, Kit, Stores, Inplace
<1>2. dst \in 1 .. Len(disk) /\ DOMAIN disk = 1 .. Len(disk)
      /\ disk[dst] \in [text : Texts, mtime : Nat]
  <2>1. dst \in 1 .. Len(disk) /\ DOMAIN disk = 1 .. Len(disk)
    BY <1>1, LenProperties DEF FilesOK
  <2> QED BY <1>1, <2>1, ElementOfSeq DEF FilesOK
<1>3. /\ \A i \in 1 .. Len(disk) : i # dst => disk'[i] = disk[i]
      /\ disk'[dst].mtime = disk[dst].mtime
  <2>1. disk'[dst] = [disk[dst] EXCEPT !.text = e.text]
    BY <1>0, <1>2
  <2>2. disk'[dst].mtime = disk[dst].mtime
    BY <1>2, <2>1
  <2>3. \A i \in 1 .. Len(disk) : i # dst => disk'[i] = disk[i]
    BY <1>0, <1>2
  <2> QED BY <2>2, <2>3
<1>4. \A f \in 1 .. Len(journals) : Headed(f) => Older(H(f), Now)
  BY <1>0, <1>1 DEF Sited, Inplace
<1>5. Now' = Now
  BY <1>0, <1>1, <1>3 DEF Now, MetaOf, At
<1>6. Renewal
  BY <1>4, <1>5 DEF Renewal
<1>7. ASSUME NEW f \in 1 .. Len(journals), Headed(f)
      PROVE  Firm(disk, disk', H(f)) /\ (Intact(disk, H(f)) => Intact(disk', H(f)))
  <2>1. PICK h, E : h = H(f) /\ E = disk'
    OBVIOUS
  <2>2. /\ h.ino \in Nat /\ h.ino <= Len(disk) /\ h.mtime \in Nat
        /\ h.base.kind = "link" => h.ino \in 1 .. Len(disk)
    BY <1>1, <1>7, <2>1, HeadInode
  <2>3. Intact(disk, h) => Intact(E, h)
    <3>1. h.base.kind = "link" => E[h.ino].mtime = disk[h.ino].mtime
      BY <1>3, <2>1, <2>2
    <3> QED BY <3>1 DEF Intact
  <2>4. Firm(disk, E, h)
    <3>1. CASE h.ino = 0
      BY <3>1 DEF Firm, Grounds, Written
    <3>2. CASE h.ino = dst
      <4>1. Older(h, Now)
        BY <1>4, <1>7, <2>1
      <4>2. Now.ino = dst /\ Now.mtime = disk[dst].mtime
        BY <1>1 DEF Now, MetaOf, At
      <4>3. h.mtime < disk[dst].mtime
        BY <1>2, <2>2, <3>2, <4>1, <4>2 DEF Older
      <4>4. h.mtime # E[h.ino].mtime
        BY <1>2, <1>3, <2>1, <2>2, <3>2, <4>3
      <4>5. Written(E, h) = {}
        BY <1>1, <3>2, <4>4 DEF Written
      <4> QED BY <4>5 DEF Firm, Grounds
    <3>3. CASE h.ino # 0 /\ h.ino # dst
      <4>1. E[h.ino] = disk[h.ino]
        <5>1. h.ino \in 1 .. Len(disk)
          BY <1>1, <2>2, <3>3
        <5> QED BY <1>3, <2>1, <3>3, <5>1
      <4> QED BY <4>1 DEF Firm, Grounds, Written
    <3> QED BY <3>1, <3>2, <3>3
  <2> QED BY <2>1, <2>3, <2>4
<1>8. \A q \in Editors : q = p
  BY DEF Alone
<1>9. ed'[p].pc \notin Inplace
  <2>1. ed'[p].pc = IF e.fd = 0 THEN "edit" ELSE "dropBase"
    BY <1>0, <1>1 DEF Saved, Fields
  <2> QED BY <2>1 DEF Inplace
<1>10. Spare' = Spare
  <2>1. (\E q \in Editors : ed[q].pc \in Inplace)
        /\ ~(\E q \in Editors : ed'[q].pc \in Inplace)
    BY <1>0, <1>8, <1>9
  <2> QED BY <1>0, <2>1 DEF Spare
<1>11. BackupsOK'
  <2>1. backups' \in Seq(Texts)
    BY <1>0, <1>1, FrontOf DEF BackupsOK
  <2> QED BY <1>8, <1>9, <2>1 DEF BackupsOK
<1>12. e.pc \in Holding \ {"dropBase", "dropLog"} /\ Held
  BY <1>0 DEF Holding, Held, Inplace
<1> QED BY <1>0, <1>6, <1>7, <1>10, <1>11, <1>12, SavedKept

-----------------------------------------------------------------------------
(* Other programs, sessions that end, and power cuts.                        *)

(* Another program replaces the file, or writes over it.                     *)
LEMMA MeddleWrote ==
  ASSUME TypeInv, Meddle, "touch" \notin Meddling
  PROVE  /\ \A E : E = disk' => Renewed(disk, E, clock)
         /\ Older(Now, Now') /\ (spoilt => spoilt')
         /\ ~spoilt' => \A i \in 1 .. Len(disk) : disk'[i] = disk[i] \/
              (i = dst /\ \A b \in dir.oldb \cup {dir.b} :
                            ~(b.kind = "link" /\ b.ino = dst))
<1>1. /\ FilesOK /\ clock < MaxClock /\ clock' = clock + 1
      /\ clock \in Nat /\ clock + 1 \in Nat /\ MaxClock \in Nat
      /\ clock + 1 \in 1 .. MaxClock /\ Len(disk) \in Nat
  BY ClockNext, LenProperties DEF Meddle, TypeInv, FilesOK
<1>2. PICK y : y = [text |-> <<clock'>>, mtime |-> clock']
  OBVIOUS
<1>3. y \in [text : Texts, mtime : Nat] /\ y.mtime = clock' /\ y.mtime = clock + 1
  <2>1. <<clock'>> \in Texts /\ clock' \in Nat
    BY <1>1 DEF Texts
  <2> QED BY <1>1, <1>2, <2>1
<1>4. CASE disk' = Append(disk, y) /\ dst' = Len(disk') /\ spoilt' = spoilt
  <2>1. PICK t : t = <<clock'>>
    OBVIOUS
  <2>2. t \in Texts /\ disk' = Append(disk, [text |-> t, mtime |-> clock'])
    BY <1>1, <1>2, <1>4, <2>1 DEF Texts
  <2>3. /\ Len(disk') = Len(disk) + 1
        /\ \A i \in 1 .. Len(disk) : disk'[i] = disk[i]
    BY <1>1, <1>4, <2>2, FileReplaced
  <2>4. Older(Now, Now')
    BY <1>1, <1>4, <2>2, NowReplaced
  <2>5. ASSUME NEW E, E = disk' PROVE Renewed(disk, E, clock)
    BY <1>1, <2>3, <2>5 DEF Renewed
  <2> QED BY <1>4, <2>3, <2>4, <2>5
<1>5. CASE /\ dst # 0 /\ dst' = dst /\ disk' = [disk EXCEPT ![dst] = y]
           /\ spoilt' = (spoilt \/ Names(dst) > 0)
  <2>1. y.mtime \in 1 .. clock' /\ clock' \in clock .. MaxClock
    BY <1>1, <1>3
  <2>2. /\ Len(disk') = Len(disk) /\ disk'[dst] = y
        /\ \A i \in 1 .. Len(disk) : i # dst => disk'[i] = disk[i]
    BY <1>1, <1>3, <1>5, <2>1, FileWritten
  <2>3. Older(Now, Now')
    BY <1>1, <1>3, <1>5, NowWritten
  <2>4. ASSUME NEW E, E = disk' PROVE Renewed(disk, E, clock)
    BY <1>1, <1>3, <2>2, <2>4 DEF Renewed
  <2>5. ASSUME NEW b \in dir.oldb \cup {dir.b}, b.kind = "link", b.ino = dst
        PROVE  Names(dst) > 0
    BY <2>5 DEF Names
  <2> QED BY <1>5, <2>2, <2>3, <2>4, <2>5
<1> QED BY <1>2, <1>4, <1>5 DEF Meddle

LEMMA MeddleKept ==
  ASSUME "touch" \notin Meddling, Kit, TypeInv', Meddle
  PROVE  KeepInv'
<1>1. /\ TypeInv /\ PlaceInv /\ Stores /\ HeadsOK /\ OwedOK /\ BackupsOK /\ HeardAll
      /\ \A p \in Editors : Keeps(ed[p]) /\ Guarded(ed[p]) /\ GoodEd(ed[p])
  BY DEF Kit, KeepInv, PlaceInv, TruthInv, Stores, TypeInv, EdsOK
<1>2. /\ UNCHANGED <<backups, journals, dir, cut, ed, owed, baseless, unread>>
      /\ baseless \subseteq baseless'
      /\ \A p \in Editors : ed[p].pc \notin Inplace
  BY DEF Meddle, log, Inplace
<1>3. /\ \A E : E = disk' => Renewed(disk, E, clock)
      /\ Older(Now, Now') /\ (spoilt => spoilt')
      /\ ~spoilt' => \A i \in 1 .. Len(disk) : disk'[i] = disk[i] \/
           (i = dst /\ \A b \in dir.oldb \cup {dir.b} :
                         ~(b.kind = "link" /\ b.ino = dst))
  BY <1>1, MeddleWrote
<1>4. Held /\ Spare' = Spare
  BY <1>2 DEF Held, Spare
<1>5. Renewal
  BY <1>1, <1>2, <1>3, NewerNow DEF Renewal
<1>6. \A f \in 1 .. Len(journals) : Firm(disk, disk', H(f))
  <2>1. PICK E : E = disk'
    OBVIOUS
  <2>2. \A f \in 1 .. Len(journals) : Firm(disk, E, journals[f].hdr)
    BY <1>1, <1>2, <1>3, <2>1, RenewedHeard
  <2> QED BY <2>1, <2>2 DEF H
<1>7. ASSUME ~spoilt', NEW h, Linked(h), h.base.kind = "link" => h.ino \in 1 .. Len(disk),
             Intact(disk, h), NEW b \in dir.oldb \cup {dir.b}, Like(b, h)
      PROVE  Intact(disk', h)
  <2>1. SUFFICES ASSUME h.base.kind = "link" PROVE disk'[h.ino] = disk[h.ino]
    BY <1>7 DEF Intact
  <2>2. b.kind = "link" /\ b.ino = h.ino
    BY <1>7, <2>1 DEF Like
  <2> QED BY <1>3, <1>7, <2>1, <2>2
<1>8. ASSUME ~spoilt', NEW f \in 1 .. Len(journals), Headed(f),
             Intact(disk, H(f)), Beside(dir, f, H(f))
      PROVE  Intact(disk', H(f))
  <2>1. Linked(H(f)) /\ (H(f).base.kind = "link" => H(f).ino \in 1 .. Len(disk))
    BY <1>1, <1>8, HeadInode
  <2>2. PICK b \in dir.oldb \cup {dir.b} : Like(b, H(f))
    BY <1>8 DEF Beside
  <2> QED BY <1>7, <1>8, <2>1, <2>2
<1>9. ASSUME ~spoilt', NEW f \in 1 .. Len(journals), Headed(f), NEW t, NEW C
      PROVE  Lasting(f, t, C)
  BY <1>6, <1>8, <1>9 DEF Lasting
<1>10. ~spoilt' => Outlasting
  <2>1. SUFFICES ASSUME ~spoilt', NEW f, NEW t, Reached(f, t)
                 PROVE  AllClear(f, t)' /\ Lasting(f, t, Spare)
    BY DEF Outlasting
  <2>2. AllClear(f, t) /\ f \in 1 .. Len(journals) /\ H(f) # NoHeader /\ f # 0
    <3>1. /\ AllClear(f, t) /\ f \in 1 .. Len(journals)
          /\ Bears(disk, baseless, {dir}, f, H(f), t, Spare)
      BY <2>1 DEF Reached
    <3>2. H(f) # NoHeader
      BY <3>1 DEF Bears
    <3>3. f # 0
      BY <3>1
    <3> QED BY <3>1, <3>2, <3>3
  <2>3. AllClear(f, t)'
    BY <1>2, <2>2 DEF AllClear, H
  <2>4. Lasting(f, t, Spare)
    BY <1>9, <2>1, <2>2 DEF Headed
  <2> QED BY <2>3, <2>4
<1>11. OwedOK'
  BY <1>1, <1>2, <1>3, <1>4, <1>10, OwedHeld
<1>12. Stores'
  BY <1>1, <1>4, <1>5, StoresHeld
<1>13. BackupsOK'
  BY <1>1, <1>2 DEF BackupsOK
<1>14. ASSUME NEW p \in Editors PROVE Keeps(ed[p])'
  <2> DEFINE e == ed[p]
  <2>1. Keeps(e) /\ ed'[p] = e /\ GoodEd(e)
    BY <1>1, <1>2
  <2>2. e.pc # "out" => Behind(ed[p].meta)'
    <3>1. e.pc # "out" => Behind(e.meta)
      BY <2>1 DEF Keeps
    <3> QED BY <1>2, <3>1 DEF Behind, Headed, H
  <2>3. e.pc = "header" /\ ~spoilt' => Intact(disk', Mark(e))
    <3>1. SUFFICES ASSUME e.pc = "header", ~spoilt' PROVE Intact(disk', Mark(e))
      OBVIOUS
    <3>2. dir.b = e.base /\ Linked(Mark(e)) /\ Intact(disk, Mark(e))
      BY <1>3, <2>1, <3>1 DEF Keeps
    <3>3. Like(dir.b, Mark(e))
      BY <3>2 DEF Like, Linked, Mark
    <3>4. Mark(e).base.kind = "link" => Mark(e).ino \in 1 .. Len(disk)
      <4>1. e.meta.ino \in Nat /\ e.meta.ino <= Len(disk) /\ Len(disk) \in Nat
        BY <1>1, <2>1, LenProperties DEF GoodEd, Metas, TypeInv, FilesOK
      <4> QED BY <3>2, <4>1 DEF Linked, Mark
    <3> QED BY <1>7, <3>1, <3>2, <3>3, <3>4
  <2>4. Log' = Log
    BY <1>2 DEF Log
  <2>5. ~spoilt' /\ ~Idle(e) /\ Fit(Log.hdr, e.meta) => Stands'
    <3>1. SUFFICES ASSUME ~spoilt', ~Idle(e), Fit(Log.hdr, e.meta)
                   PROVE  Stands'
      OBVIOUS
    <3>2. Stands
      BY <1>3, <2>1, <3>1 DEF Keeps
    <3>3. dir.j \in 1 .. Len(journals) /\ H(dir.j) = Log.hdr /\ Headed(dir.j)
      BY <1>1, <3>1, LogFit, DirLog DEF H, Headed, Fit
    <3>4. CASE dir.j \in baseless
      BY <1>2, <3>4 DEF Stands
    <3>5. CASE Intact(disk, Log.hdr) /\ Beside(dir, dir.j, Log.hdr)
      <4>1. Intact(disk', Log.hdr)
        BY <1>8, <3>1, <3>3, <3>5
      <4> QED BY <1>2, <2>4, <3>5, <4>1 DEF Stands
    <3> QED BY <3>2, <3>4, <3>5 DEF Stands
  <2> QED BY <1>2, <2>1, <2>2, <2>3, <2>4, <2>5 DEF Keeps, Creating, Mark
<1>15. ASSUME NEW p \in Editors PROVE Guarded(ed[p])'
  <2> DEFINE e == ed[p]
  <2>1. SUFFICES ASSUME e.prot # Nothing PROVE Guarded(ed[p])'
    BY <1>2, ProtFree
  <2>2. /\ Guarded(e) /\ Fit(Log.hdr, e.meta)
        /\ ~spoilt => Mine(e.prot.now, e.prot.late)
    BY <1>1, <2>1 DEF Guarded
  <2>3. Log' = Log
    BY <1>2 DEF Log
  <2>4. ~spoilt' => Mine(ed[p].prot.now, ed[p].prot.late)'
    <3>1. SUFFICES ASSUME ~spoilt' PROVE Mine(ed[p].prot.now, ed[p].prot.late)'
      OBVIOUS
    <3>2. PICK S, L, C : S = e.prot.now /\ L = e.prot.late /\ C = ToSet(backups')
      OBVIOUS
    <3>3. dir.j \in 1 .. Len(journals) /\ Headed(dir.j)
      BY <1>1, <2>2, LogFit, DirLog DEF H, Headed, Fit
    <3>4. Mine(S, L) /\ ToSet(backups) \subseteq C
      BY <1>2, <1>3, <2>2, <3>1, <3>2
    <3>5. \A t : Lasting(dir.j, t, C)
      BY <1>9, <3>1, <3>3
    <3>6. Mine(S, L)'
      BY <1>1, <1>4, <1>10, <3>1, <3>2, <3>4, <3>5, MineHeld
    <3> QED BY <1>2, <3>2, <3>6
  <2> QED BY <1>2, <2>2, <2>3, <2>4 DEF Guarded
<1> QED BY <1>11, <1>12, <1>13, <1>14, <1>15 DEF KeepInv

(* A session that ends: what it owed is owed from now on.                    *)
LEMMA LeaveKept ==
  ASSUME Alone, Kit, NEW p \in Editors, TypeInv', Leave(p)
  PROVE  KeepInv'
<1> DEFINE e == ed[p]
<1>1. /\ TypeInv /\ Stores /\ OwedOK /\ BackupsOK /\ Guarded(e) /\ p \in DOMAIN ed
      /\ dir \in cut
  BY KitAt DEF TypeInv, DirsOK
<1>2. /\ UNCHANGED <<disk, dst, backups, journals, dir, cut, spoilt, baseless, unread>>
      /\ baseless \subseteq baseless' /\ Len(journals) <= Len(journals')
      /\ ed' = [ed EXCEPT ![p] = Blank]
      /\ owed' = owed \cup ({e.prot} \ {Nothing})
  <2>1. Len(journals) \in Nat
    BY <1>1, LogsSeq DEF TypeInv, LockInv
  <2> QED BY <2>1 DEF Leave, files, log
<1>3. ed'[p] = Blank
  BY <1>1, <1>2
<1>4. \A q \in Editors : q = p
  BY DEF Alone
<1>5. Spare' = ToSet(backups) /\ Spare \subseteq Spare'
  <2>0. \A q \in Editors : ed'[q].pc \notin Inplace
    <3>1. ed'[p].pc = "out"
      BY <1>3 DEF Blank
    <3> QED BY <1>4, <3>1 DEF Inplace
  <2>1. ~(\E q \in Editors : ed'[q].pc \in Inplace)
    BY <2>0
  <2>2. Spare' = ToSet(backups)
    BY <1>2, <2>1 DEF Spare
  <2>3. CASE e.pc \in Inplace
    <3>1. Spare = ToSet(Front(backups))
      BY <2>3 DEF Spare
    <3>2. backups \in Seq(Texts) /\ backups # <<>>
      BY <1>1, <2>3 DEF BackupsOK
    <3> QED BY <2>2, <3>1, <3>2, FrontOf
  <2>4. CASE e.pc \notin Inplace
    BY <1>4, <2>2, <2>4 DEF Spare
  <2> QED BY <2>2, <2>3, <2>4
<1>6. \A h, f, t : Clear(ed'[p], h, f, t)
  BY <1>3 DEF Blank, Clear, Early, Opening, Holding
<1>7. \A f, t : f \notin unread => AllClear(f, t)'
  BY <1>2, <1>4, <1>6 DEF AllClear
<1>8. \A S : Unmoved(p, S)
  BY <1>2, <1>6, SteadyStill DEF Unmoved
<1>9. Settled /\ Stores'
  BY <1>1, <1>2, StillSettled, StoresStill
<1>10. \A f, t : Reached(f, t) => Steady(f)
  BY <1>2, SteadyStill
<1>11. OwedOK'
  <2>1. SUFFICES ASSUME ~spoilt', NEW o \in owed' PROVE Found(o.now)' /\ Later(o.late)'
    BY DEF OwedOK
  <2>2. ~spoilt
    BY <1>2, <2>1
  <2>3. PICK S, L : S = o.now /\ L = o.late
    OBVIOUS
  <2>4. CASE o \in owed
    <3>1. Found(S) /\ Later(L)
      BY <1>1, <2>2, <2>3, <2>4 DEF OwedOK
    <3>2. Found(S)'
      BY <1>1, <1>2, <1>5, <1>8, <3>1, FoundStays
    <3>3. Later(L)'
      BY <1>1, <1>2, <1>5, <1>8, <3>1, LaterStays
    <3> QED BY <2>3, <3>2, <3>3
  <2>5. CASE o = e.prot /\ e.prot # Nothing
    <3>1. PICK f, B : f = dir.j /\ B = ToSet(backups)
      OBVIOUS
    <3>2. PICK t : HoldsNow(S, f, t, B) /\ (HoldsLate(L, f, t, B) \/ Later(L))
      BY <1>1, <2>2, <2>3, <2>5, <3>1 DEF Guarded, Mine
    <3>3. HoldsNow(S, f, t, B)'
      BY <1>2, <3>2 DEF HoldsNow, H
    <3>4. HoldsLate(L, f, t, B) => HoldsLate(L, f, t, B)'
      BY <1>2 DEF HoldsLate, H
    <3>5. Later(L) => Later(L)'
      BY <1>1, <1>2, <1>5, <1>8, LaterStays
    <3>9. f \notin unread
      BY <1>1, <2>5, <3>1 DEF Guarded
    <3>6. Spare' = B
      BY <1>5, <3>1
    <3>7. Found(S)'
      BY <1>7, <3>3, <3>6, <3>9 DEF Found
    <3>8. Later(L)'
      BY <1>7, <3>2, <3>4, <3>5, <3>6, <3>9 DEF Later
    <3> QED BY <2>3, <3>7, <3>8
  <2> QED BY <1>2, <2>1, <2>4, <2>5
<1>12. BackupsOK'
  BY <1>1, <1>2, <1>3, <1>4 DEF BackupsOK, Blank, Inplace
<1>13. Keeps(ed[p])'
  <2>1. ed'[p].pc = "out"
    BY <1>3 DEF Blank
  <2> QED BY <2>1, KeepsFree DEF Idle
<1>14. Guarded(ed[p])'
  <2>1. ed'[p].prot = Nothing
    BY <1>3 DEF Blank
  <2> QED BY <2>1, ProtFree
<1> QED BY <1>9, <1>11, <1>12, <1>13, <1>14, KeepOf

(* The power goes: of each journal at least what was synced is left, and one *)
(* of the directories that had been reached.                                 *)
LEMMA SurvivorHead ==
  ASSUME TypeInv, PowerCut, NEW f \in 1 .. Len(journals)
  PROVE  \E n \in journals[f].safe .. Size(journals[f]) :
           /\ journals'[f] = Survivor(journals[f], n)
           /\ H(f)' = H(f) \/ H(f)' = NoHeader
<1>1. PICK n \in journals[f].safe .. Size(journals[f]) :
        journals'[f] = Survivor(journals[f], n)
  BY PowerCutLogs
<1>2. Len(disk) \in Nat /\ clock \in Nat /\ GoodLog(journals[f])
  BY LenProperties, ClockBound, LogOf DEF TypeInv, FilesOK
<1>3. H(f)' = H(f) \/ H(f)' = NoHeader
  BY <1>1, <1>2, SurvivorGood DEF H
<1> QED BY <1>1, <1>3

LEMMA PowerCutStores ==
  ASSUME TypeInv, TypeInv', PowerCut, Stores
  PROVE  Stores'
<1>1. /\ UNCHANGED <<disk, dst, baseless>> /\ dir' \in cut /\ cut' = {dir'}
      /\ Len(journals') = Len(journals)
  BY PowerCutLogs DEF PowerCut, files
<1>2. \A f \in 1 .. Len(journals) : Headed(f)' => H(f)' = H(f) /\ Headed(f)
  BY SurvivorHead DEF Headed
<1>3. HeadsOK'
  BY <1>1, <1>2 DEF HeadsOK, Stores
<1>4. PICK d : d = dir'
  OBVIOUS
<1>5. Stack(d) /\ Rests(d) /\ d \in cut
  BY <1>1, <1>4 DEF Stores
<1>6. \A f \in d.oldj \cup {d.j} : Headed(f)' => H(f)' = H(f) /\ Headed(f)
  <2>1. ASSUME NEW f \in d.oldj \cup {d.j}, Headed(f)'
        PROVE  f \in 1 .. Len(journals)
    <3>1. f \in 0 .. Len(journals) /\ Len(journals) \in Nat /\ f # 0
      BY <1>5, <2>1, DirRange DEF Headed
    <3> QED BY <3>1
  <2> QED BY <1>2, <2>1
<1>7. Now' = Now
  BY <1>1, SettledNow DEF Now, MetaOf, At
<1>8. Stack(d)'
  BY <1>5, <1>6, <1>7 DEF Stack
<1>9. Rests(d)'
  BY <1>1, <1>5, <1>6, <1>7 DEF Rests
<1>10. Level(d)'
  BY <1>4 DEF Level
<1> QED BY <1>1, <1>3, <1>4, <1>8, <1>9, <1>10 DEF Stores

LEMMA PowerCutHolds ==
  ASSUME TypeInv, PowerCut, NEW S, NEW f, NEW t, NEW B, HoldsLate(S, f, t, B),
         NEW C, B \subseteq C
  PROVE  HoldsNow(S, f, t, C)' /\ HoldsLate(S, f, t, C)'
<1>1. /\ UNCHANGED <<disk, baseless>> /\ dir' \in cut /\ cut' = {dir'}
      /\ Len(journals') = Len(journals)
  BY PowerCutLogs DEF PowerCut, files
<1>2. PICK x, h, c : x = journals[f] /\ h = H(f) /\ c = dir'
  OBVIOUS
<1>3. /\ f \in 1 .. Len(journals) /\ Bears(disk, baseless, cut, f, h, t, B)
      /\ Told(Survivors(x), h, t, S) /\ x.hdr = h /\ h # NoHeader
  BY <1>2 DEF HoldsLate, Bears, H
<1>4. PICK n \in x.safe .. Size(x) : journals'[f] = Survivor(x, n)
  BY <1>2, <1>3, SurvivorHead
<1>5. PICK y : y = Survivor(x, n)
  OBVIOUS
<1>6. Told({y}, h, t, S) /\ Told(Survivors(y), h, t, S)
  BY <1>2, <1>3, <1>5, LogProper, ToldCut
<1>7. H(f)' = h
  BY <1>4, <1>5, <1>6 DEF Told, H
<1>8. Passed(cut, {c}, c, f, h)
  BY <1>1, <1>2 DEF Passed
<1>9. Bears(disk, baseless, {c}, f, h, t, C)
  BY <1>1, <1>2, <1>3, <1>8, BearsStay
<1> QED BY <1>1, <1>2, <1>3, <1>4, <1>5, <1>6, <1>7, <1>9 DEF HoldsNow, HoldsLate

LEMMA PowerCutOwed ==
  ASSUME TypeInv, PowerCut, OwedOK, BackupsOK,
         \A p \in Editors : Guarded(ed[p]), ~spoilt, NEW o \in owed',
         NEW C, C = ToSet(backups), Spare' = C,
         \A f, t : f \notin unread => AllClear(f, t)'
  PROVE  Found(o.now)' /\ Later(o.late)'
<1>1. PICK u \in owed \cup {ed[p].prot : p \in Editors} :
        o = [now |-> u.late, late |-> u.late] /\ o # Nothing
  BY DEF PowerCut
<1>2. PICK L : L = u.late
  OBVIOUS
<1>3. o.now = L /\ o.late = L /\ L # {}
  BY <1>1, <1>2 DEF Nothing
<1>4. Spare \subseteq C
  <2>1. CASE \E p \in Editors : ed[p].pc \in Inplace
    <3>1. Spare = ToSet(Front(backups)) /\ backups \in Seq(Texts) /\ backups # <<>>
      BY <2>1 DEF Spare, BackupsOK
    <3> QED BY <3>1, FrontOf
  <2>2. CASE ~(\E p \in Editors : ed[p].pc \in Inplace)
    BY <2>2 DEF Spare
  <2> QED BY <2>1, <2>2
<1>5. Later(L) \/ \E f, t : f \notin unread /\ HoldsLate(L, f, t, C)
  <2>1. CASE u \in owed
    BY <1>2, <2>1 DEF OwedOK
  <2>2. ASSUME NEW p \in Editors, u = ed[p].prot
        PROVE  Later(L) \/ \E f, t : f \notin unread /\ HoldsLate(L, f, t, C)
    <3>1. u # Nothing
      BY <1>2, <1>3 DEF Nothing
    <3>2. Mine(ed[p].prot.now, ed[p].prot.late) /\ dir.j \notin unread
      BY <2>2, <3>1 DEF Guarded
    <3> QED BY <1>2, <2>2, <3>2 DEF Mine
  <2> QED BY <1>1, <2>1, <2>2
<1>6. \E f, t, B : f \notin unread /\ B \subseteq C /\ HoldsLate(L, f, t, B)
  BY <1>3, <1>4, <1>5 DEF Later, AllClear
<1>7. PICK f, t : f \notin unread /\ HoldsNow(L, f, t, C)' /\ HoldsLate(L, f, t, C)'
  BY <1>6, PowerCutHolds
<1>8. Found(L)' /\ Later(L)'
  BY <1>7 DEF Found, Later
<1> QED BY <1>3, <1>8

LEMMA PowerCutKept ==
  ASSUME Kit, TypeInv', PowerCut
  PROVE  KeepInv'
<1>1. /\ TypeInv /\ Stores /\ OwedOK /\ BackupsOK
      /\ \A p \in Editors : Guarded(ed[p])
  BY DEF Kit, KeepInv, PlaceInv
<1>2. /\ UNCHANGED <<backups, spoilt, unread>>
      /\ \A p \in Editors : ed'[p] = Blank
  BY DEF PowerCut, files
<1>3. \A p \in Editors : ed'[p].pc = "out" /\ ed'[p].prot = Nothing
  BY <1>2 DEF Blank
<1>4. \A p \in Editors : ed'[p].pc \notin Inplace
  BY <1>3 DEF Inplace
<1>5. Spare' = ToSet(backups)
  BY <1>2, <1>4 DEF Spare
<1>6. \A f, t : f \notin unread => AllClear(f, t)'
  <2>1. \A e, h, f, t : e.pc = "out" => Clear(e, h, f, t)
    BY DEF Clear, Early, Opening, Holding
  <2> QED BY <1>2, <1>3, <2>1 DEF AllClear
<1>7. OwedOK'
  <2>1. SUFFICES ASSUME ~spoilt', NEW o \in owed' PROVE Found(o.now)' /\ Later(o.late)'
    BY DEF OwedOK
  <2>2. PICK C : C = ToSet(backups)
    OBVIOUS
  <2> QED BY <1>1, <1>2, <1>5, <1>6, <2>1, <2>2, PowerCutOwed
<1>8. Stores'
  BY <1>1, PowerCutStores
<1>9. BackupsOK'
  BY <1>1, <1>2, <1>4 DEF BackupsOK
<1>10. ASSUME NEW p \in Editors PROVE Keeps(ed[p])' /\ Guarded(ed[p])'
  <2>1. Keeps(ed[p])'
    BY <1>3, KeepsFree DEF Idle
  <2> QED BY <1>3, <2>1, ProtFree
<1> QED BY <1>7, <1>8, <1>9, <1>10 DEF KeepInv

-----------------------------------------------------------------------------
(* The property.                                                             *)

(* What is owed is found, so it can be rebuilt.                              *)
LEMMA FoundEvidence ==
  ASSUME TypeInv, KeepInv PROVE EvidenceKept
<1>1. SUFFICES ASSUME ~spoilt, ({dir.j} \cup dir.oldj) \cap baseless = {},
                      NEW o \in owed
               PROVE  o.now \cap Evidence # {}
  BY DEF EvidenceKept
<1>2. Found(o.now) /\ BackupsOK /\ HeadsOK
  BY <1>1 DEF KeepInv, OwedOK, Stores
<1>3. PICK f, t : HoldsNow(o.now, f, t, Spare)
  BY <1>2 DEF Found
<1>4. PICK x, h : x = journals[f] /\ h = H(f)
  OBVIOUS
<1>5. /\ f \in 1 .. Len(journals) /\ h # NoHeader /\ Grounds(disk, h) \subseteq {t}
      /\ f \in NamesIn(dir) /\ Told({x}, h, t, o.now)
      /\ f \in baseless \/ t \in Spare \/ (Intact(disk, h) /\ Beside(dir, f, h))
  BY <1>3, <1>4 DEF HoldsNow, Bears
<1>6. f # 0 /\ f \notin baseless /\ f \in (dir.oldj \cup {dir.j}) \ {0}
  BY <1>1, <1>5 DEF NamesIn
<1>7. Linked(h)
  BY <1>2, <1>4, <1>5, <1>6 DEF HeadsOK, Headed
<1>8. \/ t \in ToSet(backups)
      \/ \E b \in {dir.b} \cup dir.oldb : BaseText(b) = t
  <2>1. CASE t \in Spare
    <3>1. CASE \E p \in Editors : ed[p].pc \in Inplace
      <4>1. Spare = ToSet(Front(backups)) /\ backups \in Seq(Texts) /\ backups # <<>>
        BY <1>2, <3>1 DEF Spare, BackupsOK
      <4> QED BY <2>1, <4>1, FrontOf
    <3>2. CASE ~(\E p \in Editors : ed[p].pc \in Inplace)
      BY <2>1, <3>2 DEF Spare
    <3> QED BY <3>1, <3>2
  <2>2. CASE Intact(disk, h) /\ Beside(dir, f, h)
    <3>1. PICK b \in {dir.b} \cup dir.oldb : Like(b, h)
      BY <2>2 DEF Beside
    <3>2. CASE h.base.kind = "link"
      <4>1. b.kind = "link" /\ b.ino = h.ino /\ h.ino # 0
            /\ disk[h.ino].mtime = h.mtime
        BY <1>7, <2>2, <3>1, <3>2 DEF Like, Linked, Intact
      <4>2. Written(disk, h) = {disk[h.ino].text}
        BY <4>1 DEF Written
      <4>3. disk[h.ino].text = t
        BY <1>5, <4>2 DEF Grounds
      <4> QED BY <3>1, <4>1, <4>3 DEF BaseText
    <3>3. CASE h.base.kind = "copy"
      <4>1. b = h.base /\ b.kind = "copy"
        BY <3>1, <3>3 DEF Like
      <4>2. h.base.text = t
        BY <1>5, <3>3 DEF Grounds
      <4> QED BY <3>1, <4>1, <4>2 DEF BaseText
    <3> QED BY <1>7, <3>2, <3>3 DEF Linked
  <2> QED BY <1>5, <1>6, <2>1, <2>2
<1>9. After(t, ValidPrefix(x.recs), Len(ValidPrefix(x.recs))) \in o.now
  BY <1>5 DEF Told, Gives, Leads
<1>10. After(t, ValidPrefix(x.recs), Len(ValidPrefix(x.recs))) \in Evidence
  BY <1>4, <1>6, <1>8 DEF Evidence
<1> QED BY <1>9, <1>10

(* The invariant holds at first, and after every step.                       *)
LEMMA KeepStart == Init => KeepInv
<1> SUFFICES ASSUME Init PROVE KeepInv
  OBVIOUS
<1>1. /\ backups = <<>> /\ journals = <<>> /\ owed = {} /\ cut = {dir}
      /\ dir.j = 0 /\ dir.oldj = {}
      /\ \A p \in Editors : ed[p] = Blank
  BY DEF Init
<1>2. \A p \in Editors : ed[p].pc = "out" /\ ed[p].prot = Nothing
  BY <1>1 DEF Blank
<1>3. BackupsOK
  <2>1. backups \in Seq(Texts)
    BY <1>1, EmptySeq
  <2>2. \A p \in Editors : ed[p].pc \notin Inplace
    BY <1>2 DEF Inplace
  <2> QED BY <2>1, <2>2 DEF BackupsOK
<1>4. OwedOK
  BY <1>1 DEF OwedOK
<1>5. HeadsOK
  <2>1. 1 .. Len(journals) = {}
    BY <1>1
  <2> QED BY <2>1 DEF HeadsOK
<1>6. Stores
  BY <1>1, <1>5 DEF Stores, Stack, Rests, Level, Headed
<1>7. \A p \in Editors : Keeps(ed[p]) /\ Guarded(ed[p])
  BY <1>2 DEF Keeps, Guarded, Creating, Idle
<1> QED BY <1>3, <1>4, <1>6, <1>7 DEF KeepInv

LEMMA KeepStill ==
  ASSUME KeepInv, UNCHANGED vars PROVE KeepInv'
<1>1. UNCHANGED <<disk, dst, backups, journals, dir, cut, ed, owed, spoilt, baseless,
                unread>>
  BY DEF vars, files, log, history
<1>2. BackupsOK'
  BY <1>1 DEF KeepInv, BackupsOK
<1>3. /\ Log' = Log /\ Now' = Now /\ Spare' = Spare
      /\ \A f : H(f)' = H(f) /\ (Headed(f)' <=> Headed(f))
  BY <1>1 DEF Log, Now, MetaOf, At, Spare, H, Headed
<1>4. Stores'
  BY <1>1, <1>3 DEF KeepInv, Stores, HeadsOK, Stack, Rests, Level
<1>5. \A S, f, t, B : /\ HoldsNow(S, f, t, B)' <=> HoldsNow(S, f, t, B)
                      /\ HoldsLate(S, f, t, B)' <=> HoldsLate(S, f, t, B)
                      /\ AllClear(f, t)' <=> AllClear(f, t)
  BY <1>1, <1>3 DEF HoldsNow, HoldsLate, AllClear
<1>6. \A S : (Found(S) => Found(S)') /\ (Later(S) => Later(S)')
  BY <1>3, <1>5 DEF Found, Later
<1>7. OwedOK'
  BY <1>1, <1>6 DEF KeepInv, OwedOK
<1>8. \A S, L : Mine(S, L) => Mine(S, L)'
  BY <1>1, <1>5, <1>6 DEF Mine
<1>9. ASSUME NEW p \in Editors PROVE Keeps(ed[p])' /\ Guarded(ed[p])'
  <2>1. Keeps(ed[p]) /\ Guarded(ed[p])
    BY DEF KeepInv
  <2>2. Behind(ed[p].meta)' <=> Behind(ed[p].meta)
    BY <1>1, <1>3 DEF Behind
  <2>3. Stands' <=> Stands
    BY <1>1, <1>3 DEF Stands
  <2>4. Keeps(ed[p])'
    BY <1>1, <1>3, <2>1, <2>2, <2>3 DEF Keeps, Creating, Mark
  <2>5. Mine(ed[p].prot.now, ed[p].prot.late)
          => Mine(ed[p].prot.now, ed[p].prot.late)'
    BY <1>1, <1>8
  <2>6. Guarded(ed[p])'
    BY <1>1, <1>3, <2>1, <2>5 DEF Guarded
  <2> QED BY <2>4, <2>6
<1> QED BY <1>2, <1>4, <1>7, <1>9 DEF KeepInv

LEMMA KeepStep ==
  ASSUME Alone, "touch" \notin Meddling, Kit, TypeInv',
         [Next]_vars
  PROVE  KeepInv'
<1>1. ASSUME NEW p \in Editors, Step(p) PROVE KeepInv'
  <2>1. CASE Load(p) \/ Probe(p) \/ AsIs(p) \/ Recover(p) \/ Decline(p)
    BY <2>1, LoadKept, ProbeKept, AsIsKept, RecoverKept, DeclineKept
  <2>2. CASE Ensure(p) \/ OpenLog(p) \/ Lock(p) \/ Adopt(p)
    BY <2>2, EnsureKept, OpenLogKept, LockKept, AdoptKept
  <2>3. CASE \/ PreserveBase(p) \/ PreserveBase2(p)
             \/ PreserveLog(p) \/ PreserveLog2(p)
    BY <2>3, PreserveBaseKept, PreserveBase2Kept, PreserveLogKept, PreserveLog2Kept
  <2>4. CASE CreateBase(p) \/ WriteHeader(p) \/ Barrier(p)
    BY <2>4, CreateBaseKept, WriteHeaderKept, BarrierKept
  <2>5. CASE Record(p) \/ Sync(p) \/ Leave(p)
    BY <2>5, RecordKept, SyncKept, LeaveKept
  <2>6. CASE SaveAtomic(p) \/ SaveInplace(p) \/ SaveInplace2(p)
    BY <2>6, SaveAtomicKept, SaveInplaceKept, SaveInplace2Kept
  <2>7. CASE DropBase(p) \/ DropLog(p) \/ DropSync(p)
    BY <2>7, DropBaseKept, DropLogKept, DropSyncKept
  <2> QED BY <1>1, <2>1, <2>2, <2>3, <2>4, <2>5, <2>6, <2>7 DEF Step
<1>2. CASE UNCHANGED vars
  BY <1>2, KeepStill DEF Kit
<1> QED BY <1>1, <1>2, PowerCutKept, MeddleKept DEF Next

(* "A crash leaves enough information" (docs/manual/03-files.md): whatever   *)
(* calls fail, those of the probe, the replay and the discard among them,    *)
(* however often the session is killed or the power goes, and whenever other *)
(* programs replace or rewrite the file, what a session that ended had not   *)
(* saved can be rebuilt from a base and a journal that are there, until it   *)
(* is saved, given up by the user, or in a journal that a session went on    *)
(* with whose buffer did not hold its records.  One editor at a time, and no *)
(* program that only touches the file.                                       *)
THEOREM EvidenceAlways ==
  ASSUME Alone, "touch" \notin Meddling
  PROVE  Spec => []EvidenceKept
<1>1. Init => Kit
  BY PlaceStart, TruthStart, KeepStart DEF Kit
<1>2. Kit /\ [Next]_vars => Kit'
  <2>1. PlaceInv /\ [Next]_vars => PlaceInv'
    BY PlaceStep
  <2>2. PlaceInv /\ TruthInv /\ [Next]_vars => TruthInv'
    BY TruthStep
  <2>3. PlaceInv /\ [Next]_vars => TypeInv'
    BY TypeStep DEF PlaceInv
  <2> QED BY <2>1, <2>2, <2>3, KeepStep DEF Kit
<1>3. Kit => EvidenceKept
  BY FoundEvidence DEF Kit, PlaceInv
<1> QED BY <1>1, <1>2, <1>3, PTL DEF Spec
=============================================================================
