--------------------------- MODULE Journal_proofs ---------------------------
(* Proofs about Journal, for every answer, every kind of meddling and all    *)
(* bounds: the lock keeps one writer per journal; types; and, for one        *)
(* editor, where its journal is and what it is replayed on.                  *)
EXTENDS Journal, SequenceTheorems, WellFoundedInduction, TLAPS

-----------------------------------------------------------------------------
(* The invariant.                                                            *)

(* No editor works on a journal file: it has none, or only looks for it.     *)
Apart == {"out", "loaded", "asked", "open"}
(* It has opened one and not locked it yet.                                  *)
Reaching == {"lock", "adopt"}

(* The editors are records of one shape.                                     *)
Fields == {"pc", "goal", "text", "fd", "meta", "base", "held", "bad", "synced",
           "prot"}
Shape ==
  /\ DOMAIN ed = Editors
  /\ \A p \in Editors : DOMAIN ed[p] = Fields

(* What one editor's step says of its descriptor and its lock: beyond        *)
(* reaching for a journal, an open descriptor is locked, and the lock is     *)
(* never kept without one.                                                   *)
Locked(e) ==
  /\ e.held \in BOOLEAN /\ (e.held => e.fd # 0)
  /\ e.pc \in Apart => e.fd = 0 /\ ~e.held
  /\ e.pc \in Reaching => ~e.held /\ e.fd # 0
  /\ e.pc \notin Reaching /\ e.fd # 0 => e.held

(* No two hold the lock of one file.                                         *)
Exclusive == \A p, q \in Editors :
  p # q /\ ed[p].held /\ ed[q].held => ed[p].fd # ed[q].fd

(* The files created so far are numbered from 1.                             *)
Numbered == journals \in Seq({journals[f] : f \in DOMAIN journals})

LockInv == Shape /\ (\A p \in Editors : Locked(ed[p])) /\ Exclusive /\ Numbered

(* What one editor's step may do to the locks: what it holds afterwards it   *)
(* held before, or nobody else did.                                          *)
Moves(p) ==
  /\ DOMAIN ed' = Editors /\ DOMAIN ed'[p] = Fields
  /\ \A q \in Editors \ {p} : ed'[q] = ed[q]
  /\ Locked(ed'[p])
  /\ ed'[p].held => \/ ed[p].held /\ ed'[p].fd = ed[p].fd
                    \/ Free(p, ed'[p].fd)

(* Such a step keeps the invariant.                                          *)
LEMMA MovesKeep ==
  ASSUME LockInv, NEW p \in Editors, Moves(p), Numbered'
  PROVE  LockInv'
<1>1. Shape'
  BY DEF LockInv, Shape, Moves
<1>2. \A q \in Editors : Locked(ed'[q])
  BY DEF LockInv, Moves
<1>3. Exclusive'
  <2> SUFFICES ASSUME NEW q \in Editors, NEW r \in Editors, q # r,
                      ed'[q].held, ed'[r].held
               PROVE  ed'[q].fd # ed'[r].fd
    BY DEF Exclusive
  <2>1. CASE q # p /\ r # p
    BY <2>1 DEF LockInv, Exclusive, Moves
  <2>2. CASE q = p
    BY <2>2 DEF LockInv, Exclusive, Moves, Free
  <2>3. CASE r = p
    BY <2>3 DEF LockInv, Exclusive, Moves, Free
  <2> QED BY <2>1, <2>2, <2>3
<1> QED BY <1>1, <1>2, <1>3 DEF LockInv, Locked

-----------------------------------------------------------------------------
(* The journal files stay a sequence.                                        *)

LEMMA NumberedSame ==
  ASSUME Numbered, UNCHANGED journals PROVE Numbered'
BY DEF Numbered

LEMMA NumberedLike ==
  ASSUME Numbered, NEW g, journals' = g, g = [f \in DOMAIN g |-> g[f]],
         DOMAIN g = DOMAIN journals
  PROVE  Numbered'
<1> DEFINE R == {g[f] : f \in DOMAIN g}
<1>1. PICK n \in Nat : DOMAIN journals = 1 .. n
  BY LenProperties DEF Numbered
<1>2. g \in [1 .. n -> R]
  BY <1>1
<1>3. g \in Seq(R)
  BY <1>2
<1> QED BY <1>3 DEF Numbered

LEMMA NumberedSet ==
  ASSUME Numbered, NEW f, NEW new, SetJournal(f, new) PROVE Numbered'
<1> DEFINE g == [journals EXCEPT ![f] = new]
<1>1. DOMAIN g = DOMAIN journals /\ g = [h \in DOMAIN g |-> g[h]]
  OBVIOUS
<1>2. journals' = g
  BY DEF SetJournal
<1> QED BY <1>1, <1>2, NumberedLike

LEMMA NumberedAppend ==
  ASSUME Numbered, NEW new, journals' = Append(journals, new)
  PROVE  Numbered' /\ Len(journals') \in Nat \ {0}
<1> DEFINE R == {journals[f] : f \in DOMAIN journals} \cup {new}
<1>1. journals \in Seq(R) /\ new \in R
  BY DEF Numbered
<1>2. journals' \in Seq(R) /\ Len(journals') = Len(journals) + 1
  BY <1>1
<1>3. journals' \in Seq({journals'[f] : f \in DOMAIN journals'})
  BY <1>2
<1> QED BY <1>1, <1>2, <1>3 DEF Numbered
-----------------------------------------------------------------------------
(* One step of an editor.                                                    *)

(* A journal that is open is locked.                                         *)
Secured(p) == ed[p].fd # 0 => ed[p].held

LEMMA SecuredUnless ==
  ASSUME LockInv, NEW p \in Editors, ed[p].pc \notin Reaching
  PROVE  Secured(p)
BY DEF LockInv, Locked, Secured

(* Going to another step of the same work keeps the lock.                    *)
LEMMA GotoMoves ==
  ASSUME LockInv, NEW p \in Editors, Secured(p),
         NEW label, label \notin Apart \cup Reaching, Goto(p, label)
  PROVE  Moves(p)
BY DEF LockInv, Secured, Shape, Fields, Goto, Moves, Locked, Apart, Reaching

(* So does going on without what the journal holds.                          *)
LEMMA GoOnMoves ==
  ASSUME LockInv, NEW p \in Editors, Secured(p), GoOn(p)
  PROVE  Moves(p)
BY DEF LockInv, Secured, Shape, Fields, GoOn, Moves, Locked, Apart, Reaching

(* Closing the journal gives it up.                                          *)
LEMMA CloseMoves ==
  ASSUME LockInv, NEW p \in Editors, NEW label, Close(p, label),
         label \notin Reaching
  PROVE  Moves(p)
BY DEF LockInv, Shape, Fields, Close, Moves, Locked, Apart, Reaching

LEMMA SavedMoves ==
  ASSUME LockInv, NEW p \in Editors, Saved(p),
         ed[p].pc \notin Apart \cup Reaching
  PROVE  Moves(p)
BY DEF LockInv, Shape, Fields, Saved, Moves, Locked, Apart, Reaching

(* Loading, the prompt, and the first edit.                                  *)
LEMMA OpeningMoves ==
  ASSUME LockInv, NEW p \in Editors,
         Load(p) \/ Probe(p) \/ AsIs(p) \/ Ensure(p)
  PROVE  Moves(p) /\ Numbered'
<1>1. CASE Load(p)
  BY <1>1 DEF LockInv, Shape, Fields, Load, log, Blank, Moves, Locked, Apart,
              Reaching, Numbered
<1>2. CASE Probe(p)
  <2>1. ed[p].pc = "loaded" /\ UNCHANGED journals
        /\ (Goto(p, "asked") \/ Goto(p, "edit") \/ GoOn(p))
    BY <1>2 DEF Probe, log
  <2> QED BY <2>1, NumberedSame DEF LockInv, Shape, Fields, Goto, GoOn, Moves,
                                    Locked, Apart, Reaching
<1>3. CASE AsIs(p)
  <2>1. ed[p].pc = "asked" /\ GoOn(p) /\ UNCHANGED journals
    BY <1>3 DEF AsIs, log
  <2> QED BY <2>1, SecuredUnless, GoOnMoves, NumberedSame DEF LockInv, Reaching
<1>4. CASE Ensure(p)
  BY <1>4 DEF LockInv, Shape, Fields, Ensure, log, Moves, Locked, Apart,
              Reaching, Numbered
<1> QED BY <1>1, <1>2, <1>3, <1>4

(* Recovering takes the lock only of a journal that is not to be replayed on *)
(* this text; declining takes it to remove it.                               *)
LEMMA AnswerMoves ==
  ASSUME LockInv, NEW p \in Editors, Recover(p) \/ Decline(p)
  PROVE  Moves(p) /\ Numbered'
<1>0. ed[p].fd = 0 /\ ~ed[p].held /\ ed[p].pc = "asked"
  BY DEF LockInv, Locked, Recover, Decline, Apart
<1>1. CASE GoOn(p) /\ UNCHANGED journals
  BY <1>0, <1>1, GoOnMoves, NumberedSame DEF LockInv, Secured
<1>2. CASE \E n : Replay(p, dir.j, n)
  <2>1. PICK n : Replay(p, dir.j, n)
    BY <1>2
  <2>2. Moves(p)
    BY <1>0, <2>1 DEF LockInv, Shape, Fields, Replay, Moves, Locked, Apart,
                      Reaching
  <2>3. Numbered'
    BY <2>1, NumberedSame, NumberedSet DEF LockInv, Replay
  <2> QED BY <2>2, <2>3
<1>3. CASE /\ dir.j # 0 /\ Free(p, dir.j) /\ UNCHANGED journals
           /\ \/ ed' = [ed EXCEPT ![p].pc = "oldBase", ![p].goal = "replay",
                                  ![p].fd = dir.j, ![p].held = TRUE]
              \/ ed' = [ed EXCEPT ![p].pc = "dropBase", ![p].fd = dir.j,
                                  ![p].goal = "decline", ![p].held = TRUE]
  BY <1>3 DEF LockInv, Shape, Fields, Moves, Locked, Apart, Reaching, Numbered
<1>4. Decline(p) => \/ GoOn(p) /\ UNCHANGED journals
                    \/ dir.j # 0 /\ Free(p, dir.j) /\ UNCHANGED journals
                       /\ ed' = [ed EXCEPT ![p].pc = "dropBase", ![p].fd = dir.j,
                                           ![p].goal = "decline",
                                           ![p].held = TRUE]
  BY DEF Decline, log
<1>5. Recover(p) => \/ GoOn(p) /\ UNCHANGED journals
                    \/ \E n : Replay(p, dir.j, n)
                    \/ dir.j # 0 /\ Free(p, dir.j) /\ UNCHANGED journals
                       /\ ed' = [ed EXCEPT ![p].pc = "oldBase",
                                           ![p].goal = "replay",
                                           ![p].fd = dir.j, ![p].held = TRUE]
  BY Zenon DEF Recover
<1> QED BY <1>1, <1>2, <1>3, <1>4, <1>5

(* Opening: the lock is taken only when nobody else has it.                  *)
LEMMA OpenLogMoves ==
  ASSUME LockInv, NEW p \in Editors, OpenLog(p)
  PROVE  Moves(p) /\ Numbered'
<1>0. ed[p].fd = 0 /\ ~ed[p].held
  BY DEF LockInv, Locked, OpenLog, Apart
<1>1. CASE /\ journals' = Append(journals, [hdr |-> NoHeader, recs |-> <<>>,
                                            safe |-> 0])
           /\ ed' = [ed EXCEPT ![p].pc = "lock", ![p].fd = Len(journals'),
                               ![p].goal = "create"]
  <2>1. Numbered' /\ Len(journals') # 0
    BY <1>1, NumberedAppend DEF LockInv
  <2> QED BY <1>0, <1>1, <2>1
          DEF LockInv, Shape, Fields, Moves, Locked, Apart, Reaching
<1>2. CASE dir.j # 0 /\ ed' = [ed EXCEPT ![p].pc = "adopt", ![p].fd = dir.j]
           /\ UNCHANGED journals
  BY <1>0, <1>2 DEF LockInv, Shape, Fields, Moves, Locked, Apart, Reaching,
                    Numbered
<1>3. CASE Close(p, "stuck") /\ UNCHANGED journals
  BY <1>3, CloseMoves, NumberedSame DEF LockInv, Reaching
<1> QED BY <1>1, <1>2, <1>3 DEF OpenLog, log

LEMMA LockMoves ==
  ASSUME LockInv, NEW p \in Editors, Lock(p)
  PROVE  Moves(p) /\ Numbered'
<1>1. Numbered'
  BY NumberedSame DEF LockInv, Lock, log
<1>2. CASE Free(p, ed[p].fd)
  BY <1>2 DEF LockInv, Shape, Fields, Lock, Moves, Locked, Apart, Reaching, Free
<1>3. CASE Close(p, "stuck")
  BY <1>1, <1>3, CloseMoves DEF Reaching
<1> QED BY <1>2, <1>3 DEF Lock

LEMMA AdoptMoves ==
  ASSUME LockInv, NEW p \in Editors, Adopt(p)
  PROVE  Moves(p) /\ Numbered'
<1>1. Numbered'
  BY NumberedSame, NumberedSet DEF LockInv, Adopt
<1>2. CASE Close(p, "stuck")
  BY <1>1, <1>2, CloseMoves DEF Reaching
<1>3. CASE Free(p, ed[p].fd)
           /\ \/ ed' = [ed EXCEPT ![p].pc = "edit", ![p].held = TRUE]
              \/ ed' = [ed EXCEPT ![p].pc = "oldBase", ![p].goal = "again",
                                  ![p].held = TRUE]
  BY <1>1, <1>3 DEF LockInv, Shape, Fields, Adopt, Moves, Locked, Apart,
                    Reaching, Free
<1> QED BY <1>2, <1>3 DEF Adopt

(* Preserving what another session left, and removing a journal that cannot  *)
(* be used.                                                                  *)
LEMMA GiveUpMoves ==
  ASSUME LockInv, NEW p \in Editors, NEW base, GiveUp(p, base)
  PROVE  Moves(p)
BY CloseMoves DEF GiveUp, Reaching

LEMMA NotPreservedMoves ==
  ASSUME LockInv, NEW p \in Editors, NotPreserved(p)
  PROVE  Moves(p)
BY CloseMoves, GiveUpMoves DEF NotPreserved, Reaching

LEMMA PreserveMoves ==
  ASSUME LockInv, NEW p \in Editors,
         \/ PreserveBase(p) \/ PreserveBase2(p)
         \/ PreserveLog(p) \/ PreserveLog2(p)
  PROVE  Moves(p) /\ Numbered'
<1>0. \A label \in {"edit", "stuck"} : Close(p, label) => Moves(p)
  BY CloseMoves DEF Reaching
<1>1. /\ Numbered'
      /\ ed[p].pc \in {"oldBase", "oldBase2", "oldLog", "oldLog2"}
  BY NumberedSame DEF LockInv, PreserveBase, PreserveBase2, PreserveLog,
     PreserveLog2
<1>2. Secured(p)
  BY <1>1, SecuredUnless DEF Reaching
<1>3. \A label \in {"base", "oldBase2", "oldLog", "oldLog2"} :
        Goto(p, label) => Moves(p)
  BY <1>2, GotoMoves DEF Reaching, Apart
<1>4. CASE PreserveBase(p)
  BY <1>1, <1>3, <1>4, NotPreservedMoves DEF PreserveBase
<1>5. CASE PreserveBase2(p)
  BY <1>0, <1>1, <1>3, <1>5 DEF PreserveBase2
<1>6. CASE PreserveLog(p)
  BY <1>1, <1>3, <1>6, NotPreservedMoves DEF PreserveLog
<1>7. CASE PreserveLog2(p)
  <2>1. CASE ed' = [ed EXCEPT ![p].fd = 0, ![p].held = FALSE,
               ![p].pc = IF ed[p].goal = "again" THEN "open" ELSE "edit"]
    BY <1>1, <2>1 DEF LockInv, Shape, Fields, Moves, Locked, Apart, Reaching
  <2> QED BY <1>0, <1>1, <1>7, <2>1 DEF PreserveLog2
<1> QED BY <1>1, <1>4, <1>5, <1>6, <1>7

LEMMA CreateMoves ==
  ASSUME LockInv, NEW p \in Editors,
         CreateBase(p) \/ WriteHeader(p) \/ Barrier(p)
  PROVE  Moves(p) /\ Numbered'
<1>1. Numbered' /\ ed[p].pc \in {"base", "header", "barrier"}
  BY NumberedSame, NumberedSet DEF LockInv, CreateBase, WriteHeader, Barrier
<1>2. \A label \in {"header", "barrier", "edit"} : Goto(p, label) => Moves(p)
  BY <1>1, SecuredUnless, GotoMoves DEF Reaching, Apart
<1>3. ASSUME NEW label \in {"header", "barrier"}, NEW b,
             ed' = [ed EXCEPT ![p].pc = label, ![p].base = b]
      PROVE  Moves(p)
  BY <1>1, <1>3, SecuredUnless
  DEF LockInv, Secured, Shape, Fields, Moves, Locked, Apart, Reaching
<1>4. CASE CreateBase(p)
  BY <1>1, <1>3, <1>4, GiveUpMoves DEF CreateBase, Based
<1>5. CASE WriteHeader(p)
  BY <1>1, <1>3, <1>5, GiveUpMoves DEF WriteHeader
<1>6. CASE Barrier(p)
  BY <1>1, <1>2, <1>6, GiveUpMoves DEF Barrier
<1> QED BY <1>4, <1>5, <1>6

(* Editing: the lock is held all along.                                      *)
LEMMA EditMoves ==
  ASSUME LockInv, NEW p \in Editors, Record(p) \/ Sync(p)
  PROVE  Moves(p) /\ Numbered'
<1>1. CASE Record(p)
  <2>1. Numbered'
    BY <1>1, NumberedSame, NumberedSet DEF LockInv, Record
  <2>2. ed[p].held /\ ed[p].pc = "edit" /\ ed[p].fd # 0
    BY <1>1 DEF LockInv, Locked, Record, Ready, Reaching
  <2>3. ASSUME NEW t, NEW pr,
               ed' = [ed EXCEPT ![p].text = t, ![p].synced = FALSE,
                                ![p].prot = pr]
        PROVE  Moves(p)
    BY <2>2, <2>3 DEF LockInv, Shape, Fields, Moves, Locked, Apart, Reaching
  <2>4. ASSUME NEW t, ed' = [ed EXCEPT ![p].text = t, ![p].bad = TRUE]
        PROVE  Moves(p)
    BY <2>2, <2>4 DEF LockInv, Shape, Fields, Moves, Locked, Apart, Reaching
  <2> QED BY <1>1, <2>1, <2>3, <2>4 DEF Record
<1>2. CASE Sync(p)
  <2>1. Numbered'
    BY <1>2, NumberedSame, NumberedSet DEF LockInv, Sync
  <2> QED BY <1>2, <2>1 DEF LockInv, Shape, Fields, Sync, Ready, Moves, Locked,
                            Apart, Reaching
<1> QED BY <1>1, <1>2

(* A save gives its journal up; a failing one keeps it.                      *)
LEMMA SaveMoves ==
  ASSUME LockInv, NEW p \in Editors,
         SaveAtomic(p) \/ SaveInplace(p) \/ SaveInplace2(p)
  PROVE  Moves(p) /\ Numbered'
<1>1. Numbered' /\ ed[p].pc \notin Apart \cup Reaching
  BY NumberedSame DEF LockInv, Apart, Reaching, SaveAtomic, SaveInplace,
     SaveInplace2, Savable, Ready, log
<1>2. CASE Saved(p)
  BY <1>1, <1>2, SavedMoves
<1>3. CASE SaveInplace(p)
  BY <1>1, <1>3, SecuredUnless, GotoMoves DEF SaveInplace, Apart, Reaching
<1> QED BY <1>1, <1>2, <1>3 DEF SaveAtomic, SaveInplace2

LEMMA DropMoves ==
  ASSUME LockInv, NEW p \in Editors,
         DropBase(p) \/ DropLog(p) \/ DropSync(p)
  PROVE  Moves(p) /\ Numbered'
<1>1. Numbered' /\ ed[p].pc \in {"dropBase", "dropLog", "dropSync"}
  BY NumberedSame DEF LockInv, DropBase, DropLog, DropSync
<1>2. CASE Close(p, "edit")
  BY <1>1, <1>2, CloseMoves DEF Reaching
<1>3. CASE Goto(p, "dropLog") \/ Goto(p, "dropSync")
  BY <1>1, <1>3, SecuredUnless, GotoMoves DEF Reaching, Apart
<1> QED BY <1>1, <1>2, <1>3 DEF DropBase, DropLog, DropSync, NotDropped

LEMMA LeaveMoves ==
  ASSUME LockInv, NEW p \in Editors, Leave(p)
  PROVE  Moves(p) /\ Numbered'
BY NumberedSame DEF LockInv, Shape, Fields, Leave, Blank, Moves, Locked, Apart,
   Reaching, log

-----------------------------------------------------------------------------
(* The theorem.                                                              *)

LEMMA LockStart == Init => LockInv
<1> SUFFICES ASSUME Init PROVE LockInv
  OBVIOUS
<1>1. Shape /\ (\A p \in Editors : Locked(ed[p])) /\ Exclusive
  BY DEF Init, Blank, Shape, Fields, Locked, Exclusive, Apart, Reaching
<1>2. Numbered
  BY EmptySeq DEF Init, Numbered
<1> QED BY <1>1, <1>2 DEF LockInv

(* A power cut ends every editor, and with it every lock.                    *)
LEMMA PowerCutKeeps == LockInv /\ PowerCut => LockInv'
<1> SUFFICES ASSUME LockInv, PowerCut PROVE LockInv'
  OBVIOUS
<1>1. Shape' /\ (\A p \in Editors : Locked(ed'[p])) /\ Exclusive'
  BY DEF PowerCut, Blank, Shape, Fields, Locked, Exclusive, Apart, Reaching
<1>2. PICK n \in [DOMAIN journals -> 0 .. MaxClock] :
        journals' = [f \in DOMAIN n |-> Survivor(journals[f], n[f])]
  BY DEF PowerCut
<1> DEFINE g == [f \in DOMAIN journals |-> Survivor(journals[f], n[f])]
<1>3. journals' = g /\ g = [f \in DOMAIN g |-> g[f]]
      /\ DOMAIN g = DOMAIN journals
  BY <1>2
<1> HIDE DEF g
<1>4. Numbered'
  BY <1>3, NumberedLike DEF LockInv
<1> QED BY <1>1, <1>4 DEF LockInv, Locked

LEMMA LockStep == LockInv /\ [Next]_vars => LockInv'
<1> SUFFICES ASSUME LockInv, [Next]_vars PROVE LockInv'
  OBVIOUS
<1>1. ASSUME NEW p \in Editors, Step(p) PROVE LockInv'
  <2>1. Moves(p) /\ Numbered'
    BY <1>1, OpeningMoves, AnswerMoves, OpenLogMoves, LockMoves, AdoptMoves,
       PreserveMoves, CreateMoves, EditMoves, SaveMoves, DropMoves, LeaveMoves
    DEF Step
  <2> QED BY <2>1, MovesKeep
<1>2. CASE PowerCut
  BY <1>2, PowerCutKeeps
<1>3. CASE Meddle
  BY <1>3, NumberedSame DEF Meddle, log, LockInv, Shape, Locked, Exclusive, Numbered
<1>4. CASE UNCHANGED vars
  BY <1>4 DEF vars, log, LockInv, Shape, Locked, Exclusive, Numbered
<1> QED BY <1>1, <1>2, <1>3, <1>4 DEF Next

(* The lock on the journal file (lock_journal, adopt_existing_journal): for  *)
(* any number of editors, whatever calls fail, whoever is killed, and        *)
(* whatever the answers at the prompt, no two editors record into one        *)
(* journal.                                                                  *)
THEOREM OneOwnerAlways == Spec => []OneOwner
<1>1. LockInv => OneOwner
  BY DEF LockInv, Locked, Exclusive, OneOwner, Ready, Reaching
<1> QED BY <1>1, LockStart, LockStep, PTL DEF Spec

-----------------------------------------------------------------------------
(* Types.                                                                    *)

Texts == Seq(Nat)
Bases == [kind : {"none", "link", "copy"}, ino : Nat, text : Texts]
Metas == [ino : Nat, mtime : Nat]

FilesOK ==
  /\ disk \in Seq([text : Texts, mtime : Nat])
  /\ dst \in 0 .. Len(disk) /\ clock \in 1 .. MaxClock
  /\ \A i \in 1 .. Len(disk) : disk[i].mtime \in 1 .. clock

(* What can be said of a journal file: its header names an inode there is,   *)
(* and no more of it is durable than there is.                               *)
GoodLog(x) ==
  /\ DOMAIN x = {"hdr", "recs", "safe"} /\ x.safe \in 0 .. Size(x)
  /\ x.hdr \in [ino : Nat, mtime : Nat, base : Bases]
  /\ x.hdr.ino <= Len(disk) /\ x.hdr.mtime <= clock
  /\ x.hdr.ino = 0 => x.hdr.mtime = 0
  /\ x.recs \in Seq([op : Nat, on : Texts])

(* ... of a directory a power cut may leave, ...                             *)
GoodDir(d) ==
  /\ DOMAIN d = {"j", "b", "oldj", "oldb", "near"}
  /\ d.j \in 0 .. Len(journals) /\ d.oldj \subseteq 1 .. Len(journals)
  /\ d.b \in Bases /\ NoBase \notin d.oldb /\ d.near \in BOOLEAN
  /\ d.b.kind = "link" => d.b.ino \in 1 .. Len(disk)

(* ... and of an editor: at these steps it has a journal open.               *)
Inside == {"lock", "adopt", "oldBase", "oldBase2", "oldLog", "oldLog2", "base",
           "header", "barrier", "inplace log", "dropBase", "dropLog", "dropSync"}
GoodEd(e) ==
  /\ e.text \in Texts /\ e.base \in Bases /\ e.fd \in 0 .. Len(journals)
  /\ e.meta \in Metas /\ e.meta.ino <= Len(disk) /\ e.meta.mtime <= clock
  /\ e.meta.ino = 0 => e.meta.mtime = 0
  /\ e.pc \in Inside => e.fd # 0
  /\ e.pc = "header" => e.base # NoBase
  /\ e.pc = "barrier" => journals[e.fd].hdr # NoHeader

LogsOK == \A f \in 1 .. Len(journals) : GoodLog(journals[f])
DirsOK == dir \in cut /\ \A d \in cut : GoodDir(d)
EdsOK  == \A p \in Editors : GoodEd(ed[p])
CountsOK == /\ leaves \in 0 .. MaxLeave /\ meddles \in 0 .. MaxMeddle
            /\ spoilt \in BOOLEAN /\ baseless \subseteq 1 .. Len(journals)
            /\ unread \subseteq 1 .. Len(journals)

TypeInv == LockInv /\ FilesOK /\ LogsOK /\ DirsOK /\ EdsOK /\ CountsOK

(* The journal files are a sequence.                                         *)
LEMMA LogsSeq ==
  ASSUME Numbered
  PROVE  Len(journals) \in Nat /\ DOMAIN journals = 1 .. Len(journals)
BY LenProperties DEF Numbered

LEMMA LogsSet ==
  ASSUME Numbered, NEW f \in 1 .. Len(journals), NEW new, SetJournal(f, new)
  PROVE  /\ Len(journals') = Len(journals)
         /\ \A g \in 1 .. Len(journals) :
              journals'[g] = IF g = f THEN new ELSE journals[g]
<1>1. DOMAIN journals = 1 .. Len(journals) /\ Len(journals) \in Nat
  BY LogsSeq
<1>2. journals' = [journals EXCEPT ![f] = new]
  BY DEF SetJournal
<1>3. DOMAIN journals' = 1 .. Len(journals)
  BY <1>1, <1>2
<1>4. Numbered'
  BY NumberedSet
<1>5. DOMAIN journals' = 1 .. Len(journals') /\ Len(journals') \in Nat
  BY <1>4, LenProperties DEF Numbered
<1>6. Len(journals') = Len(journals)
  BY <1>1, <1>3, <1>5
<1> QED BY <1>1, <1>2, <1>6

LEMMA LogsAppend ==
  ASSUME Numbered, NEW new, journals' = Append(journals, new)
  PROVE  /\ Len(journals') = Len(journals) + 1 /\ Len(journals) \in Nat
         /\ \A g \in 1 .. Len(journals') :
              journals'[g] = IF g = Len(journals') THEN new ELSE journals[g]
<1> DEFINE R == {journals[f] : f \in DOMAIN journals} \cup {new}
<1>1. journals \in Seq(R) /\ new \in R
  BY DEF Numbered
<1> HIDE DEF R
<1> QED BY <1>1

(* What no step of an editor may do to the headers: once written, one stays. *)
LogsKept ==
  /\ Len(journals) <= Len(journals')
  /\ \A f \in 1 .. Len(journals) : journals[f].hdr # NoHeader =>
       journals'[f].hdr # NoHeader

(* What any step does to the file: inodes and times only grow.               *)
FilesGrow == FilesOK' /\ Len(disk) <= Len(disk') /\ clock <= clock'

LEMMA DirStays ==
  ASSUME TypeInv, FilesGrow, LogsKept, Numbered', NEW d, GoodDir(d)
  PROVE  GoodDir(d)'
<1>1. Len(journals) \in Nat /\ Len(journals') \in Nat
  BY LenProperties DEF Numbered, TypeInv, LockInv
<1>2. Len(disk) \in Nat /\ Len(disk') \in Nat
  BY LenProperties DEF FilesOK, FilesGrow, TypeInv
<1> QED BY <1>1, <1>2 DEF GoodDir, FilesGrow, LogsKept

LEMMA EdStays ==
  ASSUME TypeInv, FilesGrow, LogsKept, Numbered', NEW e, GoodEd(e)
  PROVE  GoodEd(e)'
<1>1. Len(journals) \in Nat /\ Len(journals') \in Nat
  BY LenProperties DEF Numbered, TypeInv, LockInv
<1>2. Len(disk) \in Nat /\ Len(disk') \in Nat
  BY LenProperties DEF FilesOK, FilesGrow, TypeInv
<1>3. clock \in Nat /\ clock' \in Nat
  BY DEF FilesOK, FilesGrow, TypeInv
<1>4. e.pc \in Inside => e.fd # 0
  BY DEF GoodEd
<1>5. e.pc = "barrier" => journals'[e.fd].hdr # NoHeader
  BY <1>4, <1>1 DEF GoodEd, LogsKept, Inside
<1>6. e.meta.ino \in Nat /\ e.meta.mtime \in Nat
  BY DEF GoodEd, Metas
<1>7. e.meta.ino <= Len(disk') /\ e.meta.mtime <= clock'
  BY <1>2, <1>3, <1>6 DEF GoodEd, FilesGrow
<1>8. e.fd \in 0 .. Len(journals')
  BY <1>1 DEF GoodEd, LogsKept
<1> QED BY <1>4, <1>5, <1>7, <1>8 DEF GoodEd

LEMMA LogStays ==
  ASSUME TypeInv, FilesGrow, NEW x, GoodLog(x)
  PROVE  GoodLog(x)'
<1>2. Len(disk) \in Nat /\ Len(disk') \in Nat
  BY LenProperties DEF FilesOK, FilesGrow, TypeInv
<1>3. clock \in Nat /\ clock' \in Nat
  BY DEF FilesOK, FilesGrow, TypeInv
<1>4. x.hdr.ino \in Nat /\ x.hdr.mtime \in Nat
  BY DEF GoodLog
<1>5. x.hdr.ino <= Len(disk') /\ x.hdr.mtime <= clock'
  BY <1>2, <1>3, <1>4 DEF GoodLog, FilesGrow
<1> QED BY <1>5 DEF GoodLog

(* ... and to the directories.                                               *)
DirsNew == dir' \in cut' /\ \A d \in cut' : d \in cut \/ GoodDir(d)'

(* A step of one editor keeps the types if what it changes has them.         *)
LEMMA TypesKeep ==
  ASSUME TypeInv, NEW p \in Editors, Moves(p) /\ Numbered', FilesGrow,
         LogsKept, LogsOK', DirsNew, GoodEd(ed[p])', CountsOK'
  PROVE  TypeInv'
<1>1. LockInv'
  BY MovesKeep DEF TypeInv
<1>2. EdsOK'
  <2> SUFFICES ASSUME NEW q \in Editors PROVE GoodEd(ed[q])'
    BY DEF EdsOK
  <2>1. CASE q = p
    BY <2>1
  <2>2. CASE q # p
    <3>1. ed'[q] = ed[q] /\ GoodEd(ed[q])
      BY <2>2 DEF Moves, TypeInv, EdsOK
    <3> DEFINE e == ed[q]
    <3>2. GoodEd(e)
      BY <3>1
    <3> QED BY <3>1, EdStays DEF GoodEd
  <2> QED BY <2>1, <2>2
<1>3. DirsOK'
  <2> SUFFICES ASSUME NEW d \in cut' PROVE GoodDir(d)'
    BY DEF DirsOK, DirsNew
  <2> QED BY DirStays DEF TypeInv, DirsOK, DirsNew
<1> QED BY <1>1, <1>2, <1>3 DEF TypeInv, FilesGrow

-----------------------------------------------------------------------------
(* The types: the file.                                                      *)

LEMMA FileStill ==
  ASSUME FilesOK, UNCHANGED <<disk, dst, clock>> PROVE FilesGrow
BY LenProperties DEF FilesOK, FilesGrow

(* A new inode takes the file's name.                                        *)
LEMMA FileReplaced ==
  ASSUME FilesOK, clock < MaxClock, MaxClock \in Nat, clock' = clock + 1,
         NEW t \in Texts, disk' = Append(disk, [text |-> t, mtime |-> clock']),
         dst' = Len(disk')
  PROVE  /\ FilesGrow /\ Len(disk') = Len(disk) + 1
         /\ \A i \in 1 .. Len(disk) : disk'[i] = disk[i]
         /\ disk'[dst'] = [text |-> t, mtime |-> clock']
<1> DEFINE I == [text : Texts, mtime : Nat]
           new == [text |-> t, mtime |-> clock']
<1>1. disk \in Seq(I) /\ new \in I /\ clock \in Nat
  BY DEF FilesOK
<1> HIDE DEF I, new
<1>2. /\ disk' \in Seq(I) /\ Len(disk') = Len(disk) + 1 /\ Len(disk) \in Nat
      /\ \A i \in 1 .. Len(disk) : disk'[i] = disk[i]
      /\ disk'[dst'] = new
  BY <1>1 DEF new
<1>3. \A i \in 1 .. Len(disk') : disk'[i].mtime \in 1 .. clock'
  <2> SUFFICES ASSUME NEW i \in 1 .. Len(disk')
               PROVE  disk'[i].mtime \in 1 .. clock'
    OBVIOUS
  <2>1. CASE i = dst'
    BY <1>1, <1>2, <2>1 DEF new
  <2>2. CASE i # dst'
    BY <1>1, <1>2, <2>2 DEF FilesOK
  <2> QED BY <2>1, <2>2
<1> QED BY <1>1, <1>2, <1>3 DEF FilesGrow, FilesOK, I, new

(* The inode the name refers to is written, or its time set.                 *)
LEMMA FileWritten ==
  ASSUME FilesOK, MaxClock \in Nat, clock' \in clock .. MaxClock, dst # 0,
         NEW x \in [text : Texts, mtime : Nat], x.mtime \in 1 .. clock',
         disk' = [disk EXCEPT ![dst] = x], dst' = dst
  PROVE  /\ FilesGrow /\ Len(disk') = Len(disk)
         /\ \A i \in 1 .. Len(disk) : i # dst => disk'[i] = disk[i]
         /\ disk'[dst] = x
<1> DEFINE I == [text : Texts, mtime : Nat]
<1>1. disk \in Seq(I) /\ x \in I /\ dst \in 1 .. Len(disk) /\ clock \in Nat
  BY DEF FilesOK
<1> HIDE DEF I
<1>2. /\ disk' \in Seq(I) /\ Len(disk') = Len(disk) /\ Len(disk) \in Nat
      /\ \A i \in 1 .. Len(disk) : i # dst => disk'[i] = disk[i]
      /\ disk'[dst] = x
  BY <1>1
<1>3. \A i \in 1 .. Len(disk) : disk'[i].mtime \in 1 .. clock'
  BY <1>1, <1>2 DEF FilesOK
<1> QED BY <1>1, <1>2, <1>3 DEF FilesGrow, FilesOK, I

LEMMA FileInode ==
  ASSUME FilesOK, NEW i \in 0 .. Len(disk)
  PROVE  /\ At(i).text \in Texts /\ MetaOf(i) \in Metas
         /\ MetaOf(i).ino <= Len(disk) /\ MetaOf(i).mtime <= clock
         /\ MetaOf(i).ino = 0 => MetaOf(i).mtime = 0
<1>1. Len(disk) \in Nat /\ clock \in Nat
  BY LenProperties DEF FilesOK
<1>2. At(i).text \in Texts /\ At(i).mtime \in Nat /\ At(i).mtime <= clock
      /\ (i = 0 => At(i).mtime = 0)
  <2>1. CASE i = 0
    <3>1. At(i) = [text |-> <<>>, mtime |-> 0] /\ <<>> \in Texts
      BY <2>1 DEF At, Texts
    <3>2. At(i).text = <<>> /\ At(i).mtime = 0
      BY <3>1
    <3> QED BY <1>1, <3>1, <3>2
  <2>2. CASE i # 0
    <3> DEFINE I == [text : Texts, mtime : Nat]
    <3>1. disk \in Seq(I) /\ i \in 1 .. Len(disk)
      BY <1>1, <2>2 DEF FilesOK
    <3> HIDE DEF I
    <3>2. disk[i] \in I
      BY <3>1
    <3>3. disk[i].mtime \in 1 .. clock
      BY <3>1 DEF FilesOK
    <3>4. At(i) = disk[i]
      BY <2>2 DEF At
    <3> QED BY <1>1, <2>2, <3>2, <3>3, <3>4 DEF I
  <2> QED BY <2>1, <2>2
<1> DEFINE m == At(i).mtime
<1>3. MetaOf(i) = [ino |-> i, mtime |-> m] /\ m \in Nat /\ m <= clock
      /\ (i = 0 => m = 0)
  BY <1>2 DEF MetaOf
<1> HIDE DEF m
<1> QED BY <1>1, <1>2, <1>3 DEF Metas

(* What a step that leaves the journal files alone keeps.                    *)
LEMMA LogsStill ==
  ASSUME TypeInv, UNCHANGED journals, FilesGrow
  PROVE  LogsKept /\ LogsOK'
<1>1. Len(journals) \in Nat
  BY LenProperties DEF TypeInv, LockInv, Numbered
<1>2. LogsKept
  BY <1>1 DEF LogsKept
<1>3. LogsOK'
  <2> SUFFICES ASSUME NEW f \in 1 .. Len(journals) PROVE GoodLog(journals[f])'
    BY DEF LogsOK
  <2> QED BY LogStays DEF TypeInv, LogsOK
<1> QED BY <1>2, <1>3

(* ... and what one keeps that writes a journal file.                        *)
LEMMA LogsWritten ==
  ASSUME TypeInv, FilesGrow, NEW f \in 1 .. Len(journals), NEW new,
         SetJournal(f, new), GoodLog(new),
         journals[f].hdr # NoHeader => new.hdr # NoHeader
  PROVE  LogsKept /\ LogsOK' /\ Len(journals') = Len(journals)
<1>1. Numbered
  BY DEF TypeInv, LockInv
<1>2. /\ Len(journals') = Len(journals)
      /\ \A g \in 1 .. Len(journals) :
           journals'[g] = IF g = f THEN new ELSE journals[g]
  BY <1>1, LogsSet
<1>3. LogsKept
  BY <1>1, <1>2, LogsSeq DEF LogsKept
<1>4. LogsOK'
  <2> SUFFICES ASSUME NEW g \in 1 .. Len(journals) PROVE GoodLog(journals[g])'
    BY <1>2 DEF LogsOK
  <2>1. GoodLog(new)' /\ GoodLog(journals[g])
    BY LogStays DEF TypeInv, LogsOK
  <2> DEFINE x == journals[g]
  <2>2. CASE g = f
    BY <1>2, <2>1, <2>2 DEF GoodLog
  <2>3. CASE g # f
    BY <1>2, <2>1, <2>3, LogStays DEF GoodLog
  <2> QED BY <2>2, <2>3
<1> QED BY <1>2, <1>3, <1>4

LEMMA LogsCreated ==
  ASSUME TypeInv, FilesGrow,
         journals' = Append(journals, [hdr |-> NoHeader, recs |-> <<>>,
                                       safe |-> 0])
  PROVE  LogsKept /\ LogsOK' /\ Len(journals') = Len(journals) + 1
<1> DEFINE new == [hdr |-> NoHeader, recs |-> <<>>, safe |-> 0]
<1>1. /\ Len(journals') = Len(journals) + 1 /\ Len(journals) \in Nat
      /\ \A g \in 1 .. Len(journals') :
           journals'[g] = IF g = Len(journals') THEN new ELSE journals[g]
  BY LogsAppend DEF TypeInv, LockInv
<1>2. LogsKept
  BY <1>1 DEF LogsKept
<1>3. Len(disk) \in Nat /\ clock \in Nat
  BY LenProperties DEF FilesOK, TypeInv
<1>4. GoodLog(new)
  <2>1. NoHeader \in [ino : Nat, mtime : Nat, base : Bases]
    BY DEF NoHeader, NoBase, Bases, Texts
  <2>2. NoHeader.ino = 0 /\ NoHeader.mtime = 0 /\ <<>> \in Seq([op : Nat, on : Texts])
    BY DEF NoHeader
  <2> QED BY <1>3, <2>1, <2>2 DEF GoodLog, Size
<1> HIDE DEF new
<1>5. LogsOK'
  <2> SUFFICES ASSUME NEW g \in 1 .. Len(journals') PROVE GoodLog(journals[g])'
    BY DEF LogsOK
  <2>1. CASE g = Len(journals')
    BY <1>1, <1>4, <2>1, LogStays DEF GoodLog
  <2>2. CASE g # Len(journals')
    <3>1. g \in 1 .. Len(journals) /\ GoodLog(journals[g])
      BY <1>1, <2>2 DEF TypeInv, LogsOK
    <3> QED BY <1>1, <2>2, <3>1, LogStays DEF GoodLog
  <2> QED BY <2>1, <2>2
<1> QED BY <1>1, <1>2, <1>5

-----------------------------------------------------------------------------
(* The types: the steps of an editor.                                        *)

(* Where a step goes, everything else about the editor as before.            *)
LEMMA GotoTyped ==
  ASSUME TypeInv, NEW p \in Editors, FilesGrow, LogsKept, Numbered',
         NEW label, Goto(p, label), label \notin {"header", "barrier"},
         label \in Inside => ed[p].fd # 0
  PROVE  GoodEd(ed[p])'
<1> DEFINE e == ed[p]
<1>1. DOMAIN e = Fields /\ GoodEd(e) /\ p \in DOMAIN ed
  BY DEF TypeInv, LockInv, Shape, EdsOK
<1>2. ed'[p] = [e EXCEPT !.pc = label]
  BY <1>1 DEF Goto
<1>3. /\ ed'[p].pc = label /\ ed'[p].text = e.text /\ ed'[p].base = e.base
      /\ ed'[p].fd = e.fd /\ ed'[p].meta = e.meta
  BY <1>1, <1>2 DEF Fields
<1>4. GoodEd(e) => /\ e.text \in Texts /\ e.base \in Bases
                   /\ e.fd \in 0 .. Len(journals')
                   /\ e.meta \in Metas /\ e.meta.ino <= Len(disk')
                   /\ e.meta.mtime <= clock'
                   /\ (e.meta.ino = 0 => e.meta.mtime = 0)
  BY EdStays DEF GoodEd
<1> QED BY <1>1, <1>3, <1>4 DEF GoodEd

LEMMA GoOnTyped ==
  ASSUME TypeInv, NEW p \in Editors, FilesGrow, LogsKept, Numbered', GoOn(p)
  PROVE  GoodEd(ed[p])'
<1> DEFINE e == ed[p]
<1>1. DOMAIN e = Fields /\ GoodEd(e) /\ p \in DOMAIN ed
  BY DEF TypeInv, LockInv, Shape, EdsOK
<1>2. /\ ed'[p].pc = "edit" /\ ed'[p].text = e.text /\ ed'[p].base = e.base
      /\ ed'[p].fd = e.fd /\ ed'[p].meta = e.meta
  BY <1>1 DEF Fields, GoOn
<1>3. GoodEd(e) => /\ e.text \in Texts /\ e.base \in Bases
                   /\ e.fd \in 0 .. Len(journals')
                   /\ e.meta \in Metas /\ e.meta.ino <= Len(disk')
                   /\ e.meta.mtime <= clock'
                   /\ (e.meta.ino = 0 => e.meta.mtime = 0)
  BY EdStays DEF GoodEd
<1> QED BY <1>1, <1>2, <1>3 DEF GoodEd, Inside

LEMMA CloseTyped ==
  ASSUME TypeInv, NEW p \in Editors, FilesGrow, LogsKept, Numbered',
         NEW label, Close(p, label), label \notin Inside
  PROVE  GoodEd(ed[p])'
<1> DEFINE e == ed[p]
<1>1. DOMAIN e = Fields /\ GoodEd(e) /\ p \in DOMAIN ed
  BY DEF TypeInv, LockInv, Shape, EdsOK
<1>3. /\ ed'[p].pc = label /\ ed'[p].text = e.text /\ ed'[p].base = NoBase
      /\ ed'[p].fd = 0 /\ ed'[p].meta = e.meta
  BY <1>1 DEF Fields, Close
<1>4. GoodEd(e) => /\ e.text \in Texts
                   /\ e.meta \in Metas /\ e.meta.ino <= Len(disk')
                   /\ e.meta.mtime <= clock'
                   /\ (e.meta.ino = 0 => e.meta.mtime = 0)
  BY EdStays DEF GoodEd
<1>5. NoBase \in Bases
  BY DEF NoBase, Bases, Texts
<1>6. Len(journals') \in Nat
  BY LenProperties DEF Numbered
<1>7. 0 \in 0 .. Len(journals')
  BY <1>6
<1>8. label \notin {"header", "barrier"}
  BY DEF Inside
<1> QED BY <1>1, <1>3, <1>4, <1>5, <1>7, <1>8 DEF GoodEd

(* The file as it is now.                                                    *)
GoodMeta == /\ MetaOf(dst) \in Metas
            /\ MetaOf(dst).ino <= Len(disk) /\ MetaOf(dst).mtime <= clock
            /\ (MetaOf(dst).ino = 0 => MetaOf(dst).mtime = 0)

LEMMA FileMeta == FilesOK => GoodMeta
BY FileInode DEF FilesOK, GoodMeta

(* A save leaves the text and takes the file as it is now.                   *)
LEMMA SavedTyped ==
  ASSUME TypeInv, NEW p \in Editors, FilesGrow, LogsKept, Numbered', Saved(p)
  PROVE  GoodEd(ed[p])'
<1> DEFINE e == ed[p]
<1>1. DOMAIN e = Fields /\ GoodEd(e) /\ p \in DOMAIN ed
  BY DEF TypeInv, LockInv, Shape, EdsOK
<1>2. /\ ed'[p].pc \in {"edit", "dropBase"} /\ ed'[p].text = e.text
      /\ ed'[p].base = e.base /\ ed'[p].fd = e.fd
      /\ ed'[p].meta = MetaOf(dst)'
      /\ (ed'[p].pc = "dropBase" => e.fd # 0)
  BY <1>1 DEF Fields, Saved
<1>3. GoodEd(e) => /\ e.text \in Texts /\ e.base \in Bases
                   /\ e.fd \in 0 .. Len(journals')
  BY EdStays DEF GoodEd
<1>4. /\ MetaOf(dst)' \in Metas
      /\ MetaOf(dst)'.ino <= Len(disk') /\ MetaOf(dst)'.mtime <= clock'
      /\ (MetaOf(dst)'.ino = 0 => MetaOf(dst)'.mtime = 0)
  <2>1. FilesOK'
    BY DEF FilesGrow
  <2>2. GoodMeta'
    BY <2>1, FileMeta, PTL
  <2> QED BY <2>2 DEF GoodMeta
<1> QED BY <1>1, <1>2, <1>3, <1>4 DEF GoodEd, Inside

(* A directory with some of its names gone or preserved.                     *)
LEMMA DirEdited ==
  ASSUME TypeInv, FilesGrow, LogsKept, Numbered', NEW d,
         DOMAIN d = DOMAIN dir, d.near = dir.near,
         d.j \in {0, dir.j}, d.b \in {NoBase, dir.b},
         d.oldj \subseteq dir.oldj \cup ({dir.j} \ {0}),
         d.oldb \subseteq dir.oldb \cup ({dir.b} \ {NoBase})
  PROVE  GoodDir(d)'
<1>1. GoodDir(dir)
  BY DEF TypeInv, DirsOK
<1>2. Len(journals) \in Nat
  BY LogsSeq DEF TypeInv, LockInv
<1>3. d.b \in Bases /\ (d.b.kind = "link" => d.b.ino \in 1 .. Len(disk))
  <2>1. NoBase \in Bases /\ NoBase.kind = "none"
    BY DEF NoBase, Bases, Texts
  <2>2. CASE d.b = NoBase
    BY <2>1, <2>2
  <2>3. CASE d.b = dir.b
    BY <1>1, <2>3 DEF GoodDir
  <2> QED BY <2>2, <2>3
<1>4. d.j \in 0 .. Len(journals) /\ d.oldj \subseteq 1 .. Len(journals)
  BY <1>1, <1>2 DEF GoodDir
<1>5. GoodDir(d)
  BY <1>1, <1>3, <1>4 DEF GoodDir
<1> QED BY <1>5, DirStays

LEMMA DirsStill ==
  ASSUME TypeInv, UNCHANGED <<dir, cut>> PROVE DirsNew
BY DEF TypeInv, DirsOK, DirsNew

LEMMA DirsTo ==
  ASSUME TypeInv, NEW d, GoodDir(d)', Change(d) \/ Commit(d)
  PROVE  DirsNew
BY DEF Change, Commit, DirsNew

(* A step that leaves the file and the counts alone.                         *)
Calm == /\ UNCHANGED <<disk, dst, clock, leaves, meddles, spoilt, baseless>>
        /\ unread' \subseteq unread \cup 1 .. Len(journals)

LEMMA CalmCounts ==
  ASSUME TypeInv, Calm, LogsKept, Numbered'
  PROVE  FilesGrow /\ CountsOK'
<1>1. FilesGrow
  BY FileStill DEF Calm, TypeInv
<1>2. Len(journals) \in Nat /\ Len(journals') \in Nat
  BY LogsSeq, LenProperties DEF Numbered, TypeInv, LockInv
<1> QED BY <1>1, <1>2 DEF Calm, LogsKept, CountsOK, TypeInv

LEMMA CalmKeeps ==
  ASSUME TypeInv, Calm, NEW p \in Editors, Moves(p) /\ Numbered',
         LogsKept, LogsOK', DirsNew, GoodEd(ed[p])'
  PROVE  TypeInv'
BY CalmCounts, TypesKeep

LEMMA CalmStill ==
  ASSUME TypeInv, Calm, UNCHANGED journals
  PROVE  FilesGrow /\ LogsKept /\ LogsOK' /\ Numbered'
<1>1. FilesGrow
  BY FileStill DEF Calm, TypeInv
<1> QED BY <1>1, LogsStill, NumberedSame DEF TypeInv, LockInv

LEMMA OpeningTyped ==
  ASSUME TypeInv, NEW p \in Editors,
         Load(p) \/ Probe(p) \/ AsIs(p) \/ Ensure(p)
  PROVE  TypeInv'
<1>1. Moves(p) /\ Numbered'
  BY OpeningMoves DEF TypeInv
<1>2. Calm /\ UNCHANGED <<journals, dir, cut>>
  BY DEF Load, Probe, AsIs, Ensure, files, log, bounds, history, Calm
<1>3. FilesGrow /\ LogsKept /\ LogsOK' /\ DirsNew
  BY <1>2, CalmStill, DirsStill
<1>4. CASE Load(p)
  <2>1. GoodMeta /\ At(dst).text \in Texts
    BY FileMeta, FileInode DEF TypeInv, FilesOK
  <2>2. /\ ed'[p].pc = "loaded" /\ ed'[p].text = At(dst).text
        /\ ed'[p].meta = MetaOf(dst) /\ ed'[p].fd = 0 /\ ed'[p].base = NoBase
    BY <1>4 DEF Load, Blank, TypeInv, LockInv, Shape
  <2>3. NoBase \in Bases /\ Len(journals') \in Nat
    BY <1>1, LenProperties DEF NoBase, Bases, Texts, Numbered
  <2>4. UNCHANGED <<disk, clock>>
    BY <1>2 DEF Calm
  <2>5. GoodEd(ed[p])'
    BY <2>1, <2>2, <2>3, <2>4 DEF GoodEd, Inside, GoodMeta
  <2> QED BY <1>1, <1>2, <1>3, <2>5, CalmKeeps
<1>5. CASE Probe(p) \/ AsIs(p)
  <2>1. Goto(p, "asked") \/ Goto(p, "edit") \/ GoOn(p)
    BY <1>5 DEF Probe, AsIs
  <2>2. GoodEd(ed[p])'
    BY <1>1, <1>3, <2>1, GotoTyped, GoOnTyped DEF Inside
  <2> QED BY <1>1, <1>2, <1>3, <2>2, CalmKeeps
<1>6. CASE Ensure(p)
  <2> DEFINE e == ed[p]
  <2>1. DOMAIN e = Fields /\ GoodEd(e)
    BY DEF TypeInv, LockInv, Shape, EdsOK
  <2>2. /\ ed'[p].pc = "open" /\ ed'[p].text = e.text /\ ed'[p].meta = e.meta
        /\ ed'[p].fd = e.fd /\ ed'[p].base = e.base
    BY <1>6, <2>1 DEF Ensure, Fields, TypeInv, LockInv, Shape
  <2>3. UNCHANGED <<disk, clock, journals>>
    BY <1>2 DEF Calm
  <2>4. GoodEd(ed[p])'
    BY <2>1, <2>2, <2>3 DEF GoodEd, Inside
  <2> QED BY <1>1, <1>2, <1>3, <2>4, CalmKeeps
<1> QED BY <1>4, <1>5, <1>6

-----------------------------------------------------------------------------
(* Records.                                                                  *)

(* A set of numbers has a least one.                                         *)
LEMMA MinExists ==
  ASSUME NEW S \in SUBSET Nat, S # {}
  PROVE  Min(S) \in S /\ \A k \in S : Min(S) <= k
<1> DEFINE R == {ss \in Nat \X Nat : ss[1] < ss[2]}
<1>1. IsWellFoundedOn(R, Nat)
  BY NatLessThanWellFounded, Zenon DEF OpToRel
<1>2. PICK x \in S : \A y \in S : <<y, x>> \notin R
  <2> HIDE DEF R
  <2> QED BY <1>1, WFMin
<1>3. \A y \in S : x <= y
  <2> TAKE y \in S
  <2>1. x \in Nat /\ y \in Nat
    OBVIOUS
  <2>2. <<y, x>> \in Nat \X Nat /\ <<y, x>> \notin R
    BY <1>2, <2>1
  <2>3. ~(<<y, x>>[1] < <<y, x>>[2])
    BY <2>2, Zenon
  <2> HIDE DEF R
  <2> QED BY <2>1, <2>3
<1> QED BY <1>3, Zenon DEF Min

(* The valid records are those before the first that is cut short.           *)
Whole(r, m) ==
  /\ m \in 0 .. Len(r) /\ \A k \in 1 .. m : r[k] # Bad
  /\ m < Len(r) => r[m + 1] = Bad

LEMMA PrefixWhole ==
  ASSUME NEW T, NEW r \in Seq(T)
  PROVE  \E m \in 0 .. Len(r) : Whole(r, m) /\ ValidPrefix(r) = SubSeq(r, 1, m)
<1> DEFINE I == {i \in 1 .. Len(r) : r[i] = Bad}
           bad == SelectInSeq(r, LAMBDA x : x = Bad)
<1>1. bad = IF I # {} THEN Min(I) ELSE 0
  BY DEF SelectInSeq
<1>2. ValidPrefix(r) = IF bad = 0 THEN r ELSE SubSeq(r, 1, bad - 1)
  BY DEF ValidPrefix
<1>3. Len(r) \in Nat
  BY LenProperties
<1> HIDE DEF bad
<1>4. CASE I = {}
  <2>1. Whole(r, Len(r))
    BY <1>3, <1>4 DEF Whole
  <2>2. ValidPrefix(r) = SubSeq(r, 1, Len(r))
    BY <1>1, <1>2, <1>4, SubSeqFull
  <2> QED BY <1>3, <2>1, <2>2
<1>5. CASE I # {}
  <2>1. bad \in I /\ \A k \in I : bad <= k
    <3>1. I \in SUBSET Nat
      BY <1>3
    <3> HIDE DEF I
    <3> QED BY <1>1, <1>5, <3>1, MinExists
  <2>2. Whole(r, bad - 1)
    BY <1>3, <2>1 DEF Whole
  <2>3. ValidPrefix(r) = SubSeq(r, 1, bad - 1) /\ bad - 1 \in 0 .. Len(r)
    BY <1>2, <1>3, <2>1
  <2> QED BY <2>2, <2>3
<1> QED BY <1>4, <1>5

(* There is no more than one such prefix.                                    *)
LEMMA WholeOnly ==
  ASSUME NEW T, NEW r \in Seq(T), NEW m, Whole(r, m)
  PROVE  ValidPrefix(r) = SubSeq(r, 1, m) /\ Len(SubSeq(r, 1, m)) = m
<1>1. PICK n \in 0 .. Len(r) : Whole(r, n) /\ ValidPrefix(r) = SubSeq(r, 1, n)
  BY PrefixWhole
<1>2. Len(r) \in Nat
  BY LenProperties
<1>3. m = n
  BY <1>1, <1>2 DEF Whole
<1> QED BY <1>1, <1>2, <1>3, SubSeqProperties DEF Whole

(* The text after some records is a text.                                    *)
LEMMA AfterText ==
  ASSUME NEW t \in Texts, NEW r \in Seq([op : Nat, on : Texts]),
         NEW n \in 0 .. Len(r)
  PROVE  /\ After(t, r, n) \in Texts /\ Len(After(t, r, n)) = Len(t) + n
         /\ \A i \in 1 .. Len(t) : After(t, r, n)[i] = t[i]
         /\ \A i \in 1 .. n : After(t, r, n)[Len(t) + i] = r[i].op
<1> DEFINE T == [op : Nat, on : Texts]
           s == [i \in 1 .. n |-> r[i].op]
<1>1. Len(r) \in Nat /\ Len(t) \in Nat /\ t \in Seq(Nat)
  BY LenProperties DEF Texts
<1>2. \A i \in 1 .. n : r[i] \in T
  <2>1. r \in Seq(T)
    OBVIOUS
  <2> HIDE DEF T
  <2> QED BY <1>1, <2>1, ElementOfSeq
<1>3. s \in Seq(Nat) /\ Len(s) = n /\ \A i \in 1 .. n : s[i] = r[i].op
  <2>1. s \in [1 .. n -> Nat] /\ n \in Nat
    BY <1>1, <1>2
  <2> QED BY <2>1
<1>4. After(t, r, n) = t \o s
  BY DEF After
<1> HIDE DEF s
<1>5. /\ t \o s \in Seq(Nat) /\ Len(t \o s) = Len(t) + n
      /\ \A i \in 1 .. Len(t) + n :
           (t \o s)[i] = IF i <= Len(t) THEN t[i] ELSE s[i - Len(t)]
  BY <1>1, <1>3, ConcatProperties
<1>6. ASSUME NEW i \in 1 .. n PROVE (t \o s)[Len(t) + i] = r[i].op
  <2>1. Len(t) + i \in 1 .. Len(t) + n /\ ~(Len(t) + i <= Len(t))
        /\ (Len(t) + i) - Len(t) = i
    BY <1>1
  <2> QED BY <1>3, <1>5, <2>1
<1>7. ASSUME NEW i \in 1 .. Len(t) PROVE (t \o s)[i] = t[i]
  BY <1>1, <1>5
<1> QED BY <1>1, <1>4, <1>5, <1>6, <1>7 DEF Texts

(* One record more.                                                          *)
LEMMA AfterNext ==
  ASSUME NEW t \in Texts, NEW r \in Seq([op : Nat, on : Texts]),
         NEW n \in Nat, n < Len(r)
  PROVE  After(t, r, n + 1) = Append(After(t, r, n), r[n + 1].op)
<1> DEFINE T == [op : Nat, on : Texts]
           a == After(t, r, n)
           b == After(t, r, n + 1)
           x == r[n + 1].op
<1>1. Len(r) \in Nat /\ Len(t) \in Nat
  BY LenProperties DEF Texts
<1>2. r[n + 1] \in T
  <2>1. r \in Seq(T)
    OBVIOUS
  <2> HIDE DEF T
  <2> QED BY <1>1, <2>1, ElementOfSeq
<1>3. x \in Nat
  BY <1>2
<1>4. /\ a \in Seq(Nat) /\ Len(a) = Len(t) + n
      /\ \A i \in 1 .. Len(t) : a[i] = t[i]
      /\ \A i \in 1 .. n : a[Len(t) + i] = r[i].op
  <2>1. n \in 0 .. Len(r)
    BY <1>1
  <2> QED BY <2>1, AfterText DEF Texts
<1>5. /\ b \in Seq(Nat) /\ Len(b) = Len(t) + n + 1
      /\ \A i \in 1 .. Len(t) : b[i] = t[i]
      /\ \A i \in 1 .. n + 1 : b[Len(t) + i] = r[i].op
  <2>1. n + 1 \in 0 .. Len(r)
    BY <1>1
  <2>2. /\ b \in Texts /\ Len(b) = Len(t) + (n + 1)
        /\ \A i \in 1 .. Len(t) : b[i] = t[i]
        /\ \A i \in 1 .. n + 1 : b[Len(t) + i] = r[i].op
    BY <2>1, AfterText
  <2> HIDE DEF b
  <2> QED BY <1>1, <2>2 DEF Texts
<1> HIDE DEF a, b, x
<1>6. /\ Append(a, x) \in Seq(Nat) /\ Len(Append(a, x)) = Len(a) + 1
      /\ \A i \in 1 .. Len(a) : Append(a, x)[i] = a[i]
      /\ Append(a, x)[Len(a) + 1] = x
  BY <1>3, <1>4, AppendProperties
<1>7. ASSUME NEW i \in 1 .. Len(b) PROVE b[i] = Append(a, x)[i]
  <2>1. CASE i <= Len(t)
    <3>1. i \in 1 .. Len(t) /\ i \in 1 .. Len(a)
      BY <1>1, <1>4, <2>1
    <3> QED BY <1>4, <1>5, <1>6, <3>1
  <2>2. CASE i > Len(t) /\ i <= Len(t) + n
    <3>1. i - Len(t) \in 1 .. n /\ i \in 1 .. Len(a)
          /\ i - Len(t) \in 1 .. n + 1 /\ Len(t) + (i - Len(t)) = i
      BY <1>1, <1>4, <2>2
    <3>2. a[i] = r[i - Len(t)].op /\ b[i] = r[i - Len(t)].op
      BY <1>4, <1>5, <3>1
    <3> QED BY <1>6, <3>1, <3>2
  <2>3. CASE i = Len(t) + n + 1
    <3>1. n + 1 \in 1 .. n + 1 /\ Len(t) + (n + 1) = i /\ Len(a) + 1 = i
      BY <1>1, <1>4, <2>3
    <3>2. b[i] = r[n + 1].op
      BY <1>5, <3>1
    <3> QED BY <1>6, <3>1, <3>2 DEF x
  <2>4. i \in Nat /\ i <= Len(t) + n + 1
    BY <1>1, <1>5
  <2>5. i <= Len(t) \/ (i > Len(t) /\ i <= Len(t) + n) \/ i = Len(t) + n + 1
    BY <1>1, <2>4
  <2> QED BY <2>1, <2>2, <2>3, <2>5
<1>8. Len(b) = Len(Append(a, x))
  BY <1>1, <1>4, <1>5, <1>6
<1>9. b = Append(a, x)
  BY <1>5, <1>6, <1>7, <1>8, SeqEqual
<1> QED BY <1>9 DEF a, b, x

(* Only the records up to there matter.                                      *)
LEMMA AfterSame ==
  ASSUME NEW t, NEW r, NEW s, NEW n \in Nat, \A i \in 1 .. n : r[i] = s[i]
  PROVE  After(t, r, n) = After(t, s, n)
<1>1. [i \in 1 .. n |-> r[i].op] = [i \in 1 .. n |-> s[i].op]
  OBVIOUS
<1> QED BY <1>1 DEF After

-----------------------------------------------------------------------------
(* The types: the prompt, opening and adopting.                              *)

Recs == [op : Nat, on : Texts]

(* A journal cut to some of its records, all of them durable.                *)
LEMMA LogCut ==
  ASSUME NEW x, GoodLog(x), x.hdr # NoHeader, NEW r \in Seq(Recs), NEW new,
         new = [x EXCEPT !.recs = r, !.safe = Len(r) + 1]
  PROVE  GoodLog(new) /\ new.hdr = x.hdr
<1>1. /\ DOMAIN new = {"hdr", "recs", "safe"} /\ new.hdr = x.hdr
      /\ new.recs = r /\ new.safe = Len(r) + 1
  BY DEF GoodLog
<1>2. Len(r) \in Nat
  BY LenProperties
<1>3. new.safe \in 0 .. Size(new)
  BY <1>1, <1>2 DEF Size
<1> QED BY <1>1, <1>3 DEF GoodLog, Recs

LEMMA LogOf ==
  ASSUME TypeInv, NEW f \in 1 .. Len(journals)
  PROVE  /\ GoodLog(journals[f]) /\ journals[f].recs \in Seq(Recs)
         /\ Len(journals[f].recs) \in Nat
<1>1. GoodLog(journals[f]) /\ journals[f].recs \in Seq(Recs)
  BY DEF TypeInv, LogsOK, GoodLog, Recs
<1> QED BY <1>1, LenProperties

LEMMA SubSeqRecs ==
  ASSUME NEW r \in Seq(Recs), NEW n \in 0 .. Len(r)
  PROVE  SubSeq(r, 1, n) \in Seq(Recs) /\ Len(SubSeq(r, 1, n)) = n
         /\ \A i \in 1 .. n : SubSeq(r, 1, n)[i] = r[i]
<1>1. Len(r) \in Nat
  BY LenProperties
<1> QED BY <1>1, SubSeqProperties

LEMMA PrefixRecs ==
  ASSUME NEW r \in Seq(Recs)
  PROVE  /\ ValidPrefix(r) \in Seq(Recs) /\ Len(ValidPrefix(r)) \in 0 .. Len(r)
         /\ \A i \in 1 .. Len(ValidPrefix(r)) : ValidPrefix(r)[i] = r[i]
<1>1. PICK m \in 0 .. Len(r) : ValidPrefix(r) = SubSeq(r, 1, m)
  BY PrefixWhole
<1>2. Len(r) \in Nat
  BY LenProperties
<1> QED BY <1>1, <1>2, SubSeqRecs

LEMMA FromText ==
  ASSUME TypeInv, NEW p \in Editors, NEW f
  PROVE  From(p, f) \in Texts
<1>1. ed[p].text \in Texts
  BY DEF TypeInv, EdsOK, GoodEd
<1>2. GoodDir(dir)
  BY DEF TypeInv, DirsOK
<1>3. BaseText(dir.b) \in Texts
  <2>1. CASE dir.b.kind = "link"
    <3>1. dir.b.ino \in 0 .. Len(disk) /\ dir.b.ino # 0
      BY <1>2, <2>1 DEF GoodDir
    <3>2. At(dir.b.ino).text \in Texts
      BY <3>1, FileInode DEF TypeInv
    <3> QED BY <2>1, <3>1, <3>2 DEF BaseText, At
  <2>2. CASE dir.b.kind # "link"
    BY <1>2, <2>2 DEF BaseText, GoodDir, Bases
  <2> QED BY <2>1, <2>2
<1> QED BY <1>1, <1>3 DEF From

(* The journal's name, when there is one, is of a journal file.              *)
LEMMA DirLog == ASSUME TypeInv, dir.j # 0 PROVE dir.j \in 1 .. Len(journals)
<1>1. GoodDir(dir) /\ Len(journals) \in Nat
  BY LogsSeq DEF TypeInv, LockInv, DirsOK
<1> QED BY <1>1 DEF GoodDir

LEMMA ReplayTyped ==
  ASSUME TypeInv, NEW p \in Editors, Recover(p), dir.j # 0, ed[p].pc = "asked",
         Matches(dir.j, ed[p].meta),
         NEW n \in Stops(From(p, dir.j), ValidPrefix(journals[dir.j].recs)),
         Replay(p, dir.j, n)
  PROVE  TypeInv'
<1> DEFINE f == dir.j
           x == journals[f]
           r == ValidPrefix(x.recs)
           t == After(From(p, f), x.recs, n)
           e == ed[p]
<1>1. Moves(p) /\ Numbered'
  BY AnswerMoves DEF TypeInv
<1>2. Calm /\ UNCHANGED <<dir, cut>>
  BY DEF Recover, files, bounds, Calm
<1>3. FilesGrow
  BY <1>2, FileStill DEF Calm, TypeInv
<1>4. f \in 1 .. Len(journals) /\ GoodLog(x) /\ x.recs \in Seq(Recs)
      /\ Len(x.recs) \in Nat /\ x.hdr # NoHeader
  BY DirLog, LogOf DEF Matches
<1>5. n \in 0 .. Len(x.recs)
  <2>1. n \in 0 .. Len(r) /\ Len(r) \in 0 .. Len(x.recs)
    BY <1>4, PrefixRecs DEF Stops
  <2> QED BY <1>4, <2>1
<1>6. From(p, f) \in Texts
  BY FromText
<1>7. t \in Texts
  BY <1>4, <1>5, <1>6, AfterText DEF Recs
<1>8. LogsKept /\ LogsOK'
  <2> DEFINE new == [x EXCEPT !.recs = SubSeq(@, 1, n), !.safe = n + 1]
  <2>1. UNCHANGED journals \/ SetJournal(f, new)
    BY DEF Replay
  <2>2. GoodLog(new) /\ new.hdr = x.hdr
    <3>1. SubSeq(x.recs, 1, n) \in Seq(Recs) /\ Len(SubSeq(x.recs, 1, n)) = n
      BY <1>4, <1>5, SubSeqRecs
    <3>2. new = [x EXCEPT !.recs = SubSeq(x.recs, 1, n),
                          !.safe = Len(SubSeq(x.recs, 1, n)) + 1]
      BY <1>4, <3>1 DEF GoodLog
    <3> HIDE DEF new, x
    <3> QED BY <1>4, <3>1, <3>2, LogCut
  <2> HIDE DEF new
  <2> QED BY <1>2, <1>3, <1>4, <2>1, <2>2, LogsStill, LogsWritten DEF Calm
<1>9. GoodEd(ed[p])'
  <2>1. DOMAIN e = Fields /\ GoodEd(e) /\ p \in DOMAIN ed
    BY DEF TypeInv, LockInv, Shape, EdsOK
  <2>2. /\ ed'[p].pc = "open" /\ ed'[p].text = t /\ ed'[p].base = e.base
        /\ ed'[p].fd = e.fd
        /\ ed'[p].meta = IF Current(p, f) THEN e.meta
                         ELSE [ino |-> x.hdr.ino, mtime |-> x.hdr.mtime]
    BY <2>1 DEF Replay, Fields
  <2> DEFINE m == [ino |-> x.hdr.ino, mtime |-> x.hdr.mtime]
  <2>3. m \in Metas /\ m.ino = x.hdr.ino /\ m.mtime = x.hdr.mtime
    BY <1>4 DEF GoodLog, Metas
  <2> HIDE DEF m, t
  <2>4. /\ ed'[p].meta \in Metas /\ ed'[p].meta.ino <= Len(disk)
        /\ ed'[p].meta.mtime <= clock
        /\ (ed'[p].meta.ino = 0 => ed'[p].meta.mtime = 0)
    BY <1>4, <2>1, <2>2, <2>3 DEF GoodEd, GoodLog, m
  <2>5. Len(journals') \in Nat /\ Len(journals) \in Nat
    BY <1>1, LogsSeq, LenProperties DEF Numbered, TypeInv, LockInv
  <2>6. e.fd \in 0 .. Len(journals')
    BY <1>8, <2>1, <2>5 DEF GoodEd, LogsKept
  <2>7. UNCHANGED <<disk, clock>>
    BY <1>2 DEF Calm
  <2> QED BY <1>7, <2>1, <2>2, <2>4, <2>6, <2>7 DEF GoodEd, Inside
<1> QED BY <1>1, <1>2, <1>8, <1>9, CalmKeeps, DirsStill

(* Taking the lock of a journal file to work on it.                          *)
LEMMA WorkTyped ==
  ASSUME TypeInv, NEW p \in Editors, Calm, UNCHANGED journals, Numbered',
         NEW f \in 1 .. Len(journals), NEW label, label \notin {"header", "barrier"}, NEW goal,
         ed' = [ed EXCEPT ![p].pc = label, ![p].goal = goal,
                          ![p].fd = f, ![p].held = TRUE]
  PROVE  GoodEd(ed[p])'
<1> DEFINE e == ed[p]
<1>1. DOMAIN e = Fields /\ GoodEd(e) /\ p \in DOMAIN ed
  BY DEF TypeInv, LockInv, Shape, EdsOK
<1>2. /\ ed'[p].pc = label /\ ed'[p].text = e.text /\ ed'[p].meta = e.meta
      /\ ed'[p].fd = f /\ ed'[p].base = e.base
  BY <1>1 DEF Fields
<1>3. f # 0 /\ f \in 0 .. Len(journals)
  BY LogsSeq DEF TypeInv, LockInv
<1>4. UNCHANGED <<disk, clock, journals>>
  BY DEF Calm
<1> QED BY <1>1, <1>2, <1>3, <1>4 DEF GoodEd

LEMMA AnswerTyped ==
  ASSUME TypeInv, NEW p \in Editors, Recover(p) \/ Decline(p)
  PROVE  TypeInv'
<1>1. Moves(p) /\ Numbered'
  BY AnswerMoves DEF TypeInv
<1>2. Calm /\ UNCHANGED <<dir, cut>>
  BY DEF Recover, Decline, files, log, bounds, Calm
<1>3. ASSUME UNCHANGED journals, GoodEd(ed[p])' PROVE TypeInv'
  BY <1>1, <1>2, <1>3, CalmStill, DirsStill, CalmKeeps
<1>4. CASE UNCHANGED journals /\ GoOn(p)
  <2>1. FilesGrow /\ LogsKept
    BY <1>2, <1>4, CalmStill
  <2> QED BY <1>1, <1>3, <1>4, <2>1, GoOnTyped
<1>5. ASSUME dir.j # 0, UNCHANGED journals,
             NEW label, label \notin {"header", "barrier"}, NEW goal,
             ed' = [ed EXCEPT ![p].pc = label, ![p].goal = goal,
                              ![p].fd = dir.j, ![p].held = TRUE]
      PROVE  TypeInv'
  BY <1>1, <1>2, <1>3, <1>5, DirLog, WorkTyped
<1>6. CASE Decline(p)
  <2>1. UNCHANGED journals
    BY <1>6 DEF Decline, log
  <2>2. CASE dir.j # 0
             /\ ed' = [ed EXCEPT ![p].pc = "dropBase", ![p].fd = dir.j,
                                 ![p].goal = "decline", ![p].held = TRUE]
    <3>1. ed' = [ed EXCEPT ![p].pc = "dropBase", ![p].goal = "decline",
                           ![p].fd = dir.j, ![p].held = TRUE]
      BY <2>2
    <3> QED BY <1>5, <2>1, <2>2, <3>1
  <2> QED BY <1>4, <1>6, <2>1, <2>2 DEF Decline
<1>7. CASE Recover(p)
  <2>1. CASE dir.j # 0 /\ UNCHANGED journals
             /\ ed' = [ed EXCEPT ![p].pc = "oldBase", ![p].goal = "replay",
                                 ![p].fd = dir.j, ![p].held = TRUE]
    BY <1>5, <2>1
  <2>2. \/ UNCHANGED journals /\ GoOn(p)
        \/ /\ ed[p].pc = "asked" /\ dir.j # 0 /\ Matches(dir.j, ed[p].meta)
           /\ \E n \in Stops(From(p, dir.j), ValidPrefix(journals[dir.j].recs)) :
                Replay(p, dir.j, n)
        \/ dir.j # 0 /\ UNCHANGED journals
           /\ ed' = [ed EXCEPT ![p].pc = "oldBase", ![p].goal = "replay",
                               ![p].fd = dir.j, ![p].held = TRUE]
    BY <1>7, Zenon DEF Recover
  <2> QED BY <1>4, <1>7, <2>1, <2>2, ReplayTyped
<1> QED BY <1>6, <1>7

LEMMA OpenLogTyped ==
  ASSUME TypeInv, NEW p \in Editors, OpenLog(p)
  PROVE  TypeInv'
<1> DEFINE e == ed[p]
<1>0. DOMAIN e = Fields /\ GoodEd(e) /\ p \in DOMAIN ed
  BY DEF TypeInv, LockInv, Shape, EdsOK
<1>1. Moves(p) /\ Numbered'
  BY OpenLogMoves DEF TypeInv
<1>2. Calm
  BY DEF OpenLog, files, bounds, history, Calm
<1>3. FilesGrow
  BY <1>2, FileStill DEF Calm, TypeInv
<1>4. CASE /\ journals' = Append(journals, [hdr |-> NoHeader, recs |-> <<>>,
                                            safe |-> 0])
           /\ Change([dir EXCEPT !.j = Len(journals')])
           /\ ed' = [ed EXCEPT ![p].pc = "lock", ![p].fd = Len(journals'),
                               ![p].goal = "create"]
  <2>1. LogsKept /\ LogsOK' /\ Len(journals') = Len(journals) + 1
    BY <1>3, <1>4, LogsCreated
  <2>2. Len(journals) \in Nat
    BY LogsSeq DEF TypeInv, LockInv
  <2>3. ASSUME NEW d, d = [dir EXCEPT !.j = Len(journals')]
        PROVE  GoodDir(d)'
    <3>1. GoodDir(dir)
      BY DEF TypeInv, DirsOK
    <3>2. /\ DOMAIN d = DOMAIN dir /\ d.j = Len(journals') /\ d.b = dir.b
          /\ d.oldj = dir.oldj /\ d.oldb = dir.oldb /\ d.near = dir.near
      BY <2>3, <3>1 DEF GoodDir
    <3>3. UNCHANGED disk
      BY <1>2 DEF Calm
    <3> QED BY <2>1, <2>2, <3>1, <3>2, <3>3 DEF GoodDir
  <2>4. DirsNew
    BY <1>4, <2>3, DirsTo
  <2>5. /\ ed'[p].pc = "lock" /\ ed'[p].text = e.text /\ ed'[p].meta = e.meta
        /\ ed'[p].fd = Len(journals') /\ ed'[p].base = e.base
    BY <1>0, <1>4 DEF Fields
  <2>6. UNCHANGED <<disk, clock>>
    BY <1>2 DEF Calm
  <2>7. Len(journals') \in 0 .. Len(journals') /\ Len(journals') # 0
    BY <2>1, <2>2
  <2>8. GoodEd(ed[p])'
    BY <1>0, <2>5, <2>6, <2>7 DEF GoodEd
  <2> QED BY <1>1, <1>2, <2>1, <2>4, <2>8, CalmKeeps
<1>5. CASE UNCHANGED log /\ dir.j # 0
           /\ ed' = [ed EXCEPT ![p].pc = "adopt", ![p].fd = dir.j]
  <2>1. UNCHANGED <<journals, dir, cut>> /\ dir.j \in 1 .. Len(journals)
    BY <1>5, DirLog DEF log
  <2>2. /\ ed'[p].pc = "adopt" /\ ed'[p].text = e.text /\ ed'[p].meta = e.meta
        /\ ed'[p].fd = dir.j /\ ed'[p].base = e.base
    BY <1>0, <1>5 DEF Fields
  <2>3. UNCHANGED <<disk, clock>> /\ dir.j \in 0 .. Len(journals)
    BY <1>2, <2>1, LogsSeq DEF Calm, TypeInv, LockInv
  <2>4. GoodEd(ed[p])'
    BY <1>0, <1>5, <2>1, <2>2, <2>3 DEF GoodEd
  <2> QED BY <1>1, <1>2, <2>1, <2>4, CalmStill, DirsStill, CalmKeeps
<1>6. CASE UNCHANGED log /\ Close(p, "stuck")
  <2>1. UNCHANGED <<journals, dir, cut>>
    BY <1>6 DEF log
  <2>2. LogsKept /\ LogsOK' /\ DirsNew
    BY <1>2, <2>1, CalmStill, DirsStill
  <2>3. GoodEd(ed[p])'
    BY <1>1, <1>3, <1>6, <2>2, CloseTyped DEF Inside
  <2> QED BY <1>1, <1>2, <2>2, <2>3, CalmKeeps
<1> QED BY <1>4, <1>5, <1>6 DEF OpenLog

LEMMA LockTyped ==
  ASSUME TypeInv, NEW p \in Editors, Lock(p)
  PROVE  TypeInv'
<1> DEFINE e == ed[p]
<1>0. DOMAIN e = Fields /\ GoodEd(e) /\ p \in DOMAIN ed
  BY DEF TypeInv, LockInv, Shape, EdsOK
<1>1. Moves(p) /\ Numbered'
  BY LockMoves DEF TypeInv
<1>2. Calm /\ UNCHANGED journals /\ e.pc = "lock"
  BY DEF Lock, files, log, bounds, history, Calm
<1>3. FilesGrow /\ LogsKept /\ LogsOK'
  BY <1>2, CalmStill
<1>4. CASE UNCHANGED log
           /\ ed' = [ed EXCEPT ![p].held = TRUE, ![p].pc = "oldBase"]
  <2>1. UNCHANGED <<dir, cut>>
    BY <1>4 DEF log
  <2>2. /\ ed'[p].pc = "oldBase" /\ ed'[p].text = e.text
        /\ ed'[p].meta = e.meta /\ ed'[p].fd = e.fd /\ ed'[p].base = e.base
    BY <1>0, <1>4 DEF Fields
  <2>3. UNCHANGED <<disk, clock>>
    BY <1>2 DEF Calm
  <2>4. GoodEd(ed[p])'
    BY <1>0, <1>2, <2>2, <2>3 DEF GoodEd, Inside
  <2> QED BY <1>1, <1>2, <1>3, <2>1, <2>4, DirsStill, CalmKeeps
<1>5. CASE Change([dir EXCEPT !.j = 0]) /\ Close(p, "stuck")
  <2>1. ASSUME NEW d, d = [dir EXCEPT !.j = 0] PROVE GoodDir(d)'
    <3>1. GoodDir(dir)
      BY DEF TypeInv, DirsOK
    <3>2. /\ DOMAIN d = DOMAIN dir /\ d.j = 0 /\ d.b = dir.b
          /\ d.oldj = dir.oldj /\ d.oldb = dir.oldb /\ d.near = dir.near
      BY <2>1, <3>1 DEF GoodDir
    <3> QED BY <1>1, <1>3, <3>2, DirEdited
  <2>2. DirsNew
    BY <1>5, <2>1, DirsTo
  <2>3. GoodEd(ed[p])'
    BY <1>1, <1>3, <1>5, CloseTyped DEF Inside
  <2> QED BY <1>1, <1>2, <1>3, <2>2, <2>3, CalmKeeps
<1> QED BY <1>4, <1>5 DEF Lock

LEMMA AdoptTyped ==
  ASSUME TypeInv, NEW p \in Editors, Adopt(p)
  PROVE  TypeInv'
<1> DEFINE e == ed[p]
           f == e.fd
           x == journals[f]
           r == ValidPrefix(x.recs)
<1>0. DOMAIN e = Fields /\ GoodEd(e) /\ p \in DOMAIN ed
  BY DEF TypeInv, LockInv, Shape, EdsOK
<1>1. Moves(p) /\ Numbered'
  BY AdoptMoves DEF TypeInv
<1>4. f \in 1 .. Len(journals) /\ Len(journals) \in Nat
  BY <1>0, LogsSeq DEF Adopt, GoodEd, Inside, TypeInv, LockInv
<1>2. Calm /\ UNCHANGED <<dir, cut>> /\ e.pc = "adopt"
  <2>1. unread' \subseteq unread \cup {f}
    BY DEF Adopt, Unread
  <2> QED BY <1>4, <2>1 DEF Adopt, files, bounds, Calm
<1>3. FilesGrow /\ DirsNew
  BY <1>2, FileStill, DirsStill DEF Calm, TypeInv
<1>5. GoodLog(x) /\ x.recs \in Seq(Recs) /\ r \in Seq(Recs)
  BY <1>4, LogOf, PrefixRecs
<1>6. ASSUME LogsKept, NEW label, label \notin {"header", "barrier"},
             ed'[p].pc = label, ed'[p].text = e.text, ed'[p].meta = e.meta,
             ed'[p].fd = e.fd, ed'[p].base = e.base
      PROVE  GoodEd(ed[p])'
  <2>1. UNCHANGED <<disk, clock>>
    BY <1>2 DEF Calm
  <2>2. Len(journals') \in Nat
    BY <1>1, LenProperties DEF Numbered
  <2>3. e.fd \in 0 .. Len(journals')
    BY <1>0, <1>4, <1>6, <2>2 DEF GoodEd, LogsKept
  <2> QED BY <1>0, <1>4, <1>6, <2>1, <2>3 DEF GoodEd
<1>7. CASE /\ HeaderMatches(f, e.meta)
           /\ ed' = [ed EXCEPT ![p].pc = "edit", ![p].held = TRUE]
           /\ \/ UNCHANGED journals
              \/ SetJournal(f, [x EXCEPT !.recs = r, !.safe = Len(r) + 1])
  <2>1. x.hdr # NoHeader
    BY <1>7 DEF HeaderMatches
  <2> DEFINE new == [x EXCEPT !.recs = r, !.safe = Len(r) + 1]
  <2>2. GoodLog(new) /\ new.hdr = x.hdr
    BY <1>5, <2>1, LogCut
  <2>3. UNCHANGED journals \/ SetJournal(f, new)
    BY <1>7
  <2> HIDE DEF new
  <2>4. LogsKept /\ LogsOK'
    BY <1>2, <1>3, <1>4, <2>2, <2>3, LogsStill, LogsWritten DEF Calm
  <2>5. /\ ed'[p].pc = "edit" /\ ed'[p].text = e.text /\ ed'[p].meta = e.meta
        /\ ed'[p].fd = e.fd /\ ed'[p].base = e.base
    BY <1>0, <1>7 DEF Fields
  <2> QED BY <1>1, <1>2, <1>3, <1>6, <2>4, <2>5, CalmKeeps
<1>8. CASE UNCHANGED journals
           /\ ed' = [ed EXCEPT ![p].pc = "oldBase", ![p].goal = "again",
                               ![p].held = TRUE]
  <2>1. LogsKept /\ LogsOK'
    BY <1>2, <1>8, CalmStill
  <2>2. /\ ed'[p].pc = "oldBase" /\ ed'[p].text = e.text
        /\ ed'[p].meta = e.meta /\ ed'[p].fd = e.fd /\ ed'[p].base = e.base
    BY <1>0, <1>8 DEF Fields
  <2> QED BY <1>1, <1>2, <1>3, <1>6, <2>1, <2>2, CalmKeeps
<1>9. CASE UNCHANGED journals /\ Close(p, "stuck")
  <2>1. LogsKept /\ LogsOK'
    BY <1>2, <1>9, CalmStill
  <2>2. GoodEd(ed[p])'
    BY <1>1, <1>3, <1>9, <2>1, CloseTyped DEF Inside
  <2> QED BY <1>1, <1>2, <1>3, <2>1, <2>2, CalmKeeps
<1> QED BY <1>7, <1>8, <1>9 DEF Adopt

-----------------------------------------------------------------------------
(* The types: preserving, creating, giving up.                               *)

LEMMA DirFields ==
  ASSUME TypeInv
  PROVE  DOMAIN dir = {"j", "b", "oldj", "oldb", "near"}
BY DEF TypeInv, DirsOK, GoodDir

LEMMA GiveUpTyped ==
  ASSUME TypeInv, NEW p \in Editors, NEW base, GiveUp(p, base),
         FilesGrow, LogsKept, Numbered'
  PROVE  DirsNew /\ GoodEd(ed[p])'
<1>1. Close(p, "stuck")
  BY DEF GiveUp
<1>2. GoodEd(ed[p])'
  BY <1>1, CloseTyped DEF Inside
<1>3. PICK d \in { [dir EXCEPT !.j = 0],
                   IF base THEN [dir EXCEPT !.j = 0, !.b = NoBase] ELSE dir } :
        dir' = d /\ cut' = cut \cup {[dir EXCEPT !.j = 0], d}
  BY DEF GiveUp
<1>4. ASSUME NEW c, c \in {[dir EXCEPT !.j = 0], dir,
                           [dir EXCEPT !.j = 0, !.b = NoBase]}
      PROVE  GoodDir(c)'
  <2>1. /\ DOMAIN c = DOMAIN dir /\ c.j \in {0, dir.j} /\ c.b \in {NoBase, dir.b}
        /\ c.oldj = dir.oldj /\ c.oldb = dir.oldb /\ c.near = dir.near
    BY <1>4, DirFields
  <2> QED BY <2>1, DirEdited
<1>5. DirsNew
  <2>1. dir' \in cut'
    BY <1>3
  <2>2. ASSUME NEW c \in cut' PROVE c \in cut \/ GoodDir(c)'
    BY <1>3, <1>4
  <2> QED BY <2>1, <2>2 DEF DirsNew
<1> QED BY <1>2, <1>5

LEMMA NotPreservedTyped ==
  ASSUME TypeInv, NEW p \in Editors, NotPreserved(p),
         FilesGrow, LogsKept, Numbered'
  PROVE  DirsNew /\ GoodEd(ed[p])'
<1>1. CASE GiveUp(p, FALSE)
  BY <1>1, GiveUpTyped
<1>2. CASE (Close(p, "stuck") \/ Close(p, "edit")) /\ UNCHANGED <<dir, cut>>
  BY <1>2, CloseTyped, DirsStill DEF Inside
<1> QED BY <1>1, <1>2 DEF NotPreserved

LEMMA PreserveTyped ==
  ASSUME TypeInv, NEW p \in Editors,
         \/ PreserveBase(p) \/ PreserveBase2(p)
         \/ PreserveLog(p) \/ PreserveLog2(p)
  PROVE  TypeInv'
<1> DEFINE e == ed[p]
<1>0. DOMAIN e = Fields /\ GoodEd(e) /\ p \in DOMAIN ed
  BY DEF TypeInv, LockInv, Shape, EdsOK
<1>1. Moves(p) /\ Numbered'
  BY PreserveMoves DEF TypeInv
<1>2. Calm /\ UNCHANGED journals
      /\ e.pc \in {"oldBase", "oldBase2", "oldLog", "oldLog2"}
  BY DEF PreserveBase, PreserveBase2, PreserveLog, PreserveLog2, files, bounds,
         history, Calm
<1>3. FilesGrow /\ LogsKept /\ LogsOK'
  BY <1>2, CalmStill
<1>4. e.fd # 0
  BY <1>0, <1>2 DEF GoodEd, Inside
<1>5. ASSUME DirsNew, GoodEd(ed[p])' PROVE TypeInv'
  BY <1>1, <1>2, <1>3, <1>5, CalmKeeps
<1>6. ASSUME NEW label, label \notin {"header", "barrier"}, Goto(p, label) PROVE GoodEd(ed[p])'
  BY <1>1, <1>3, <1>4, <1>6, GotoTyped
<1>7. ASSUME Close(p, "stuck") \/ Close(p, "edit") PROVE GoodEd(ed[p])'
  BY <1>1, <1>3, <1>7, CloseTyped DEF Inside
<1>8. ASSUME NEW d, DOMAIN d = DOMAIN dir, d.near = dir.near,
             d.j \in {0, dir.j}, d.b \in {NoBase, dir.b},
             d.oldj \subseteq dir.oldj \cup ({dir.j} \ {0}),
             d.oldb \subseteq dir.oldb \cup ({dir.b} \ {NoBase})
      PROVE  GoodDir(d)'
  BY <1>1, <1>3, <1>8, DirEdited
<1>9. CASE PreserveBase(p)
  <2>1. CASE UNCHANGED <<dir, cut>> /\ (Goto(p, "base") \/ Goto(p, "oldLog"))
    BY <1>5, <1>6, <2>1, DirsStill
  <2>2. CASE dir.b # NoBase /\ Change([dir EXCEPT !.oldb = @ \cup {dir.b}])
             /\ Goto(p, "oldBase2")
    <3>1. ASSUME NEW d, d = [dir EXCEPT !.oldb = @ \cup {dir.b}]
          PROVE  GoodDir(d)'
      <4>1. /\ DOMAIN d = DOMAIN dir /\ d.j = dir.j /\ d.b = dir.b
            /\ d.oldj = dir.oldj /\ d.oldb = dir.oldb \cup {dir.b}
            /\ d.near = dir.near
        BY <3>1, DirFields
      <4> QED BY <1>8, <2>2, <4>1
    <3> QED BY <1>5, <1>6, <2>2, <3>1, DirsTo
  <2>3. CASE NotPreserved(p)
    BY <1>1, <1>3, <1>5, <2>3, NotPreservedTyped
  <2> QED BY <1>9, <2>1, <2>2, <2>3 DEF PreserveBase
<1>10. CASE PreserveBase2(p)
  <2>1. ASSUME NEW d, DOMAIN d = DOMAIN dir, d.b = NoBase, d.j \in {0, dir.j},
               d.oldj = dir.oldj, d.oldb = dir.oldb, d.near = dir.near
        PROVE  GoodDir(d)'
    BY <1>8, <2>1
  <2>2. CASE /\ Commit([dir EXCEPT !.b = NoBase])
             /\ Goto(p, "base") \/ Goto(p, "oldLog")
    <3>1. ASSUME NEW d, d = [dir EXCEPT !.b = NoBase] PROVE GoodDir(d)'
      BY <2>1, <3>1, DirFields
    <3> QED BY <1>5, <1>6, <2>2, <3>1, DirsTo
  <2>3. CASE /\ Close(p, "edit") \/ Close(p, "stuck")
             /\ LET d == [dir EXCEPT !.b = NoBase,
                             !.j = IF e.goal = "create" THEN 0 ELSE @] IN
                dir' = d /\ cut' = cut \cup {d, [dir EXCEPT !.b = NoBase]}
    <3> DEFINE D == {[dir EXCEPT !.b = NoBase,
                         !.j = IF e.goal = "create" THEN 0 ELSE @],
                     [dir EXCEPT !.b = NoBase]}
    <3>1. ASSUME NEW d \in D PROVE GoodDir(d)'
      <4>1. /\ DOMAIN d = DOMAIN dir /\ d.j \in {0, dir.j} /\ d.b = NoBase
            /\ d.oldj = dir.oldj /\ d.oldb = dir.oldb /\ d.near = dir.near
        BY DirFields
      <4> QED BY <2>1, <4>1
    <3>2. dir' \in D /\ cut' = cut \cup D
      BY <2>3
    <3> HIDE DEF D
    <3>3. DirsNew
      BY <3>1, <3>2 DEF DirsNew
    <3> QED BY <1>5, <1>7, <2>3, <3>3
  <2> QED BY <1>10, <2>2, <2>3 DEF PreserveBase2
<1>11. CASE PreserveLog(p)
  <2>1. CASE dir.j = e.fd /\ Change([dir EXCEPT !.oldj = @ \cup {dir.j}])
             /\ Goto(p, "oldLog2")
    <3>1. ASSUME NEW d, d = [dir EXCEPT !.oldj = @ \cup {dir.j}]
          PROVE  GoodDir(d)'
      <4>1. /\ DOMAIN d = DOMAIN dir /\ d.j = dir.j /\ d.b = dir.b
            /\ d.oldj = dir.oldj \cup {dir.j} /\ d.oldb = dir.oldb
            /\ d.near = dir.near
        BY <3>1, DirFields
      <4> QED BY <1>4, <1>8, <2>1, <4>1
    <3> QED BY <1>5, <1>6, <2>1, <3>1, DirsTo
  <2>2. CASE NotPreserved(p)
    BY <1>1, <1>3, <1>5, <2>2, NotPreservedTyped
  <2> QED BY <1>11, <2>1, <2>2 DEF PreserveLog
<1>12. CASE PreserveLog2(p)
  <2>1. DirsNew
    <3>1. ASSUME NEW d, d \in {[dir EXCEPT !.j = 0],
                               [dir EXCEPT !.oldj = @ \ {e.fd}]}
          PROVE  GoodDir(d)'
      <4>1. /\ DOMAIN d = DOMAIN dir /\ d.j \in {0, dir.j} /\ d.b = dir.b
            /\ d.oldj \subseteq dir.oldj /\ d.oldb = dir.oldb
            /\ d.near = dir.near
        BY <3>1, DirFields
      <4> QED BY <1>8, <4>1
    <3>2. \/ Commit([dir EXCEPT !.j = 0]) \/ Change([dir EXCEPT !.j = 0])
          \/ Change([dir EXCEPT !.oldj = @ \ {e.fd}])
      BY <1>12 DEF PreserveLog2
    <3> QED BY <3>1, <3>2, DirsTo
  <2>2. CASE ed' = [ed EXCEPT ![p].fd = 0, ![p].held = FALSE,
                ![p].pc = IF ed[p].goal = "again" THEN "open" ELSE "edit"]
    <3>1. /\ ed'[p].pc \in {"open", "edit"} /\ ed'[p].text = e.text
          /\ ed'[p].meta = e.meta /\ ed'[p].fd = 0 /\ ed'[p].base = e.base
      BY <1>0, <2>2 DEF Fields
    <3>2. UNCHANGED <<disk, clock, journals>> /\ Len(journals) \in Nat
      BY <1>2, LogsSeq DEF Calm, TypeInv, LockInv
    <3>3. 0 \in 0 .. Len(journals')
      BY <3>2
    <3>4. ASSUME NEW l \in {"open", "edit"}
          PROVE  l \notin Inside /\ l \notin {"header", "barrier"}
      BY DEF Inside
    <3>5. GoodEd(ed[p])'
      BY <1>0, <3>1, <3>2, <3>3, <3>4 DEF GoodEd
    <3> QED BY <1>5, <2>1, <3>5
  <2>3. CASE Close(p, "stuck") \/ Close(p, "edit")
    BY <1>5, <1>7, <2>1, <2>3
  <2> QED BY <1>12, <2>2, <2>3 DEF PreserveLog2
<1> QED BY <1>9, <1>10, <1>11, <1>12

(* The base of a journal, and its header.                                    *)
LEMMA NewBaseGood ==
  ASSUME TypeInv, NEW p \in Editors
  PROVE  /\ NewBase(p) \in Bases /\ NewBase(p) # NoBase
         /\ NewBase(p).kind = "link" => /\ NewBase(p).ino = dst
                                        /\ ed[p].meta.ino # 0
<1> DEFINE b == NewBase(p)
<1>1. /\ DOMAIN NoBase = {"kind", "ino", "text"} /\ NoBase.kind = "none"
      /\ NoBase.ino = 0 /\ NoBase.text = <<>> /\ <<>> \in Texts
  BY DEF NoBase, Texts
<1>2. dst \in Nat /\ At(dst).text \in Texts
  BY FileInode DEF TypeInv, FilesOK
<1>3. CASE ed[p].meta.ino = 0
  <2>1. b = [kind |-> "copy", ino |-> 0, text |-> <<>>]
    BY <1>3 DEF NewBase, NoBase
  <2> HIDE DEF b
  <2> QED BY <1>1, <2>1 DEF Bases, b
<1>4. CASE ed[p].meta.ino # 0 /\ dir.near
  <2>1. b = [kind |-> "link", ino |-> dst, text |-> <<>>]
    BY <1>4 DEF NewBase, NoBase
  <2> HIDE DEF b
  <2> QED BY <1>1, <1>2, <1>4, <2>1 DEF Bases, b
<1>5. CASE ed[p].meta.ino # 0 /\ ~dir.near
  <2>1. b = [kind |-> "copy", ino |-> 0, text |-> At(dst).text]
    BY <1>5 DEF NewBase, NoBase
  <2> HIDE DEF b
  <2> QED BY <1>1, <1>2, <2>1 DEF Bases, b
<1> QED BY <1>3, <1>4, <1>5

LEMMA CreateBaseTyped ==
  ASSUME TypeInv, NEW p \in Editors, CreateBase(p)
  PROVE  TypeInv'
<1> DEFINE e == ed[p]
           b == NewBase(p)
<1>0. DOMAIN e = Fields /\ GoodEd(e) /\ p \in DOMAIN ed
  BY DEF TypeInv, LockInv, Shape, EdsOK
<1>1. Moves(p) /\ Numbered'
  BY CreateMoves DEF TypeInv
<1>2. Calm /\ UNCHANGED journals /\ e.pc = "base"
  BY DEF CreateBase, files, bounds, history, Calm
<1>3. FilesGrow /\ LogsKept /\ LogsOK'
  BY <1>2, CalmStill
<1>4. e.fd # 0
  BY <1>0, <1>2 DEF GoodEd, Inside
<1>5. b \in Bases /\ b # NoBase /\ (b.kind = "link" => b.ino = dst /\ e.meta.ino # 0)
  BY NewBaseGood
<1> HIDE DEF b
<1>6. ASSUME ed' = [ed EXCEPT ![p].pc = "header", ![p].base = b]
      PROVE  GoodEd(ed[p])'
  <2>1. /\ ed'[p].pc = "header" /\ ed'[p].text = e.text
        /\ ed'[p].meta = e.meta /\ ed'[p].fd = e.fd /\ ed'[p].base = b
    BY <1>0, <1>6 DEF Fields
  <2>2. UNCHANGED <<disk, clock, journals>>
    BY <1>2 DEF Calm
  <2> QED BY <1>0, <1>4, <1>5, <2>1, <2>2 DEF GoodEd
<1>7. CASE /\ e.meta \in {MetaOf(dst), MetaOf(0)}
           /\ Commit([dir EXCEPT !.b = b])
           /\ ed' = [ed EXCEPT ![p].pc = "header", ![p].base = b]
  <2>1. ASSUME NEW d, d = [dir EXCEPT !.b = b] PROVE GoodDir(d)'
    <3>1. /\ DOMAIN d = DOMAIN dir /\ d.j = dir.j /\ d.b = b
          /\ d.oldj = dir.oldj /\ d.oldb = dir.oldb /\ d.near = dir.near
      BY <2>1, DirFields
    <3>2. MetaOf(0).ino = 0 /\ MetaOf(dst).ino = dst
      BY DEF MetaOf
    <3>3. b.kind = "link" => b.ino \in 1 .. Len(disk)
      BY <1>5, <1>7, <3>2 DEF TypeInv, FilesOK
    <3>4. GoodDir(dir) /\ UNCHANGED <<disk, journals>>
      BY <1>2 DEF TypeInv, DirsOK, Calm
    <3> QED BY <1>5, <3>1, <3>3, <3>4 DEF GoodDir
  <2> QED BY <1>1, <1>2, <1>3, <1>6, <1>7, <2>1, DirsTo, CalmKeeps
<1>8. CASE /\ UNCHANGED <<dir, cut>>
           /\ ed' = [ed EXCEPT ![p].pc = "header", ![p].base = b]
  BY <1>1, <1>2, <1>3, <1>6, <1>8, DirsStill, CalmKeeps
<1>9. CASE \E y : GiveUp(p, y)
  BY <1>1, <1>2, <1>3, <1>9, GiveUpTyped, CalmKeeps
<1> QED BY <1>7, <1>8, <1>9 DEF CreateBase, Based, b

LEMMA HeaderTyped ==
  ASSUME TypeInv, NEW p \in Editors, WriteHeader(p) \/ Barrier(p)
  PROVE  TypeInv'
<1> DEFINE e == ed[p]
           f == e.fd
           x == journals[f]
<1>0. DOMAIN e = Fields /\ GoodEd(e) /\ p \in DOMAIN ed
  BY DEF TypeInv, LockInv, Shape, EdsOK
<1>1. Moves(p) /\ Numbered'
  BY CreateMoves DEF TypeInv
<1>2. Calm /\ e.pc \in {"header", "barrier"}
  BY DEF WriteHeader, Barrier, files, bounds, history, Calm
<1>3. FilesGrow
  BY <1>2, FileStill DEF Calm, TypeInv
<1>4. f \in 1 .. Len(journals) /\ Len(journals) \in Nat /\ f # 0
  <2>1. Len(journals) \in Nat /\ e.pc \in Inside
    BY <1>2, LogsSeq DEF Inside, TypeInv, LockInv
  <2> QED BY <1>0, <2>1 DEF GoodEd
<1>5. GoodLog(x) /\ Len(x.recs) \in Nat
  BY <1>4, LogOf
<1>6. CASE UNCHANGED journals /\ GiveUp(p, TRUE)
  BY <1>1, <1>2, <1>3, <1>6, CalmStill, GiveUpTyped, CalmKeeps
<1>7. CASE /\ SetJournal(f, [x EXCEPT !.hdr = [ino |-> e.meta.ino,
                                 mtime |-> e.meta.mtime, base |-> e.base]])
           /\ ed' = [ed EXCEPT ![p].pc = "barrier", ![p].base = NoBase]
           /\ UNCHANGED <<dir, cut>> /\ e.pc = "header"
  <2> DEFINE h == [ino |-> e.meta.ino, mtime |-> e.meta.mtime, base |-> e.base]
             new == [x EXCEPT !.hdr = h]
  <2>1. /\ h \in [ino : Nat, mtime : Nat, base : Bases] /\ h # NoHeader
        /\ h.ino <= Len(disk) /\ h.mtime <= clock
        /\ (h.ino = 0 => h.mtime = 0)
    BY <1>0, <1>7 DEF GoodEd, Metas, NoHeader
  <2> HIDE DEF h
  <2>2. /\ DOMAIN new = {"hdr", "recs", "safe"} /\ new.hdr = h
        /\ new.recs = x.recs /\ new.safe = x.safe
    BY <1>5 DEF GoodLog
  <2>3. x.safe \in 0 .. Len(x.recs) + 1 /\ new.safe \in 0 .. Size(new)
    BY <1>5, <2>1, <2>2 DEF GoodLog, Size
  <2>4. GoodLog(new)
    BY <1>5, <2>1, <2>2, <2>3 DEF GoodLog
  <2>5. SetJournal(f, new)
    BY <1>7 DEF h
  <2> HIDE DEF new
  <2>6. LogsKept /\ LogsOK' /\ Len(journals') = Len(journals)
    BY <1>3, <1>4, <2>1, <2>2, <2>4, <2>5, LogsWritten
  <2>7. journals'[f].hdr # NoHeader
    BY <1>4, <2>1, <2>2, <2>5, LogsSet DEF TypeInv, LockInv
  <2>8. /\ ed'[p].pc = "barrier" /\ ed'[p].text = e.text
        /\ ed'[p].meta = e.meta /\ ed'[p].fd = f /\ ed'[p].base = NoBase
    BY <1>0, <1>7 DEF Fields
  <2>9. NoBase \in Bases /\ UNCHANGED <<disk, clock>>
    BY <1>2 DEF NoBase, Bases, Texts, Calm
  <2>10. GoodEd(ed[p])'
    BY <1>0, <1>4, <2>6, <2>7, <2>8, <2>9 DEF GoodEd
  <2> QED BY <1>1, <1>2, <1>7, <2>6, <2>10, DirsStill, CalmKeeps
<1>8. CASE /\ SetJournal(f, [x EXCEPT !.safe = 1]) /\ e.pc = "barrier"
           /\ Commit(dir) /\ Goto(p, "edit")
  <2> DEFINE new == [x EXCEPT !.safe = 1]
  <2>1. x.hdr # NoHeader
    BY <1>0, <1>8 DEF GoodEd
  <2>2. /\ DOMAIN new = {"hdr", "recs", "safe"} /\ new.hdr = x.hdr
        /\ new.recs = x.recs /\ new.safe = 1
    BY <1>5 DEF GoodLog
  <2>3. new.safe \in 0 .. Size(new)
    BY <1>5, <2>1, <2>2 DEF Size
  <2>4. GoodLog(new)
    BY <1>5, <2>2, <2>3 DEF GoodLog
  <2>5. SetJournal(f, new)
    BY <1>8
  <2> HIDE DEF new
  <2>6. LogsKept /\ LogsOK'
    BY <1>3, <1>4, <2>2, <2>4, <2>5, LogsWritten
  <2>7. ASSUME NEW d, d = dir PROVE GoodDir(d)'
    <3>1. GoodDir(d)
      BY <2>7 DEF TypeInv, DirsOK, GoodDir
    <3> QED BY <1>1, <1>3, <2>6, <3>1, DirStays
  <2>8. DirsNew
    BY <1>8, <2>7, DirsTo
  <2>9. GoodEd(ed[p])'
    BY <1>1, <1>3, <1>8, <2>6, GotoTyped DEF Inside
  <2> QED BY <1>1, <1>2, <2>6, <2>8, <2>9, CalmKeeps
<1> QED
  <2>1. CASE WriteHeader(p)
    BY <1>6, <1>7, <2>1 DEF WriteHeader
  <2>2. CASE Barrier(p)
    BY <1>6, <1>8, <2>2 DEF Barrier
  <2> QED BY <2>1, <2>2

-----------------------------------------------------------------------------
(* The types: editing, saving, discarding.                                   *)

(* More records, or more of them durable.                                    *)
LEMMA LogGrown ==
  ASSUME NEW x, GoodLog(x), NEW r \in Recs
  PROVE  GoodLog([x EXCEPT !.recs = Append(@, r)])
<1> DEFINE new == [x EXCEPT !.recs = Append(@, r)]
<1>1. x.recs \in Seq(Recs) /\ DOMAIN x = {"hdr", "recs", "safe"}
  BY DEF GoodLog, Recs
<1>2. Append(x.recs, r) \in Seq(Recs) /\ Len(Append(x.recs, r)) = Len(x.recs) + 1
      /\ Len(x.recs) \in Nat
  BY <1>1, AppendProperties, LenProperties
<1>3. /\ DOMAIN new = {"hdr", "recs", "safe"} /\ new.hdr = x.hdr
      /\ new.safe = x.safe /\ new.recs = Append(x.recs, r)
  BY <1>1
<1> HIDE DEF new
<1>4. new.safe \in 0 .. Size(new)
  BY <1>2, <1>3 DEF GoodLog, Size
<1>5. GoodLog(new)
  BY <1>2, <1>3, <1>4 DEF GoodLog, Recs
<1> QED BY <1>5 DEF new

LEMMA LogSynced ==
  ASSUME NEW x, GoodLog(x)
  PROVE  GoodLog([x EXCEPT !.safe = Size(x)])
<1> DEFINE n == Size(x)
           new == [x EXCEPT !.safe = n]
<1>1. n \in Nat
  BY LenProperties DEF GoodLog, Size
<1>2. /\ DOMAIN new = {"hdr", "recs", "safe"} /\ new.hdr = x.hdr
      /\ new.safe = n /\ new.recs = x.recs
  BY DEF GoodLog
<1>3. Size(new) = n
  BY <1>2 DEF Size
<1> HIDE DEF new, n
<1>4. GoodLog(new)
  BY <1>1, <1>2, <1>3 DEF GoodLog
<1> QED BY <1>4 DEF new, n

(* What the clock gives out next.                                            *)
LEMMA ClockBound == MaxClock \in Nat \ {0}
BY JournalAssumption

LEMMA ClockNext ==
  ASSUME TypeInv, clock < MaxClock
  PROVE  /\ clock \in Nat /\ clock + 1 \in Nat /\ MaxClock \in Nat
         /\ clock + 1 \in 1 .. MaxClock /\ clock <= clock + 1
<1>1. clock \in 1 .. MaxClock
  BY DEF TypeInv, FilesOK
<1> QED BY <1>1, ClockBound

LEMMA EditTyped ==
  ASSUME TypeInv, NEW p \in Editors, Record(p) \/ Sync(p)
  PROVE  TypeInv'
<1> DEFINE e == ed[p]
           f == e.fd
           x == journals[f]
<1>0. DOMAIN e = Fields /\ GoodEd(e) /\ p \in DOMAIN ed
  BY DEF TypeInv, LockInv, Shape, EdsOK
<1>1. Moves(p) /\ Numbered'
  BY EditMoves DEF TypeInv
<1>2. /\ UNCHANGED <<disk, dst, dir, cut, leaves, meddles, spoilt, baseless>>
      /\ UNCHANGED unread
      /\ e.pc = "edit" /\ f # 0
  BY DEF Record, Sync, Ready, files, bounds, history
<1>3. FilesGrow
  <2>1. clock' \in clock .. MaxClock /\ clock \in Nat
    <3>1. CASE UNCHANGED clock
      BY <3>1, ClockBound DEF TypeInv, FilesOK
    <3>2. CASE clock < MaxClock /\ clock' = clock + 1
      BY <3>2, ClockNext
    <3> QED BY <3>1, <3>2 DEF Record, Sync
  <2>2. Len(disk) \in Nat /\ MaxClock \in Nat
    BY LenProperties, ClockBound DEF TypeInv, FilesOK
  <2> QED BY <1>2, <2>1, <2>2 DEF FilesGrow, FilesOK, TypeInv
<1>4. f \in 1 .. Len(journals) /\ Len(journals) \in Nat
  BY <1>0, <1>2, LogsSeq DEF GoodEd, TypeInv, LockInv
<1>5. GoodLog(x)
  BY <1>4, LogOf
<1>6. LogsKept /\ LogsOK'
  <2>1. CASE UNCHANGED journals
    BY <1>3, <2>1, LogsStill
  <2>2. ASSUME NEW new, SetJournal(f, new), GoodLog(new), new.hdr = x.hdr
        PROVE  LogsKept /\ LogsOK'
    BY <1>3, <1>4, <2>2, LogsWritten
  <2>3. CASE Record(p)
    <3>1. ASSUME NEW r \in Recs, SetJournal(f, [x EXCEPT !.recs = Append(@, r)])
          PROVE  LogsKept /\ LogsOK'
      <4> DEFINE new == [x EXCEPT !.recs = Append(@, r)]
      <4>1. GoodLog(new)
        BY <1>5, LogGrown
      <4>2. new.hdr = x.hdr /\ SetJournal(f, new)
        BY <1>5, <3>1 DEF GoodLog
      <4> HIDE DEF new
      <4> QED BY <2>2, <4>1, <4>2
    <3>2. Bad \in Recs
      BY DEF Bad, Recs, Texts
    <3>3. [op |-> clock + 1, on |-> e.text] \in Recs
      BY <1>0, <2>3, ClockNext DEF Record, Recs, GoodEd
    <3> QED BY <2>1, <2>3, <3>1, <3>2, <3>3 DEF Record
  <2>4. CASE Sync(p)
    <3> DEFINE new == [x EXCEPT !.safe = Size(x)]
    <3>1. GoodLog(new) /\ new.hdr = x.hdr
      BY <1>5, LogSynced DEF GoodLog
    <3>2. SetJournal(f, new) \/ UNCHANGED journals
      BY <2>4 DEF Sync
    <3> HIDE DEF new
    <3> QED BY <2>1, <2>2, <3>1, <3>2
  <2> QED BY <2>3, <2>4
<1>7. GoodEd(ed[p])'
  <2>1. /\ ed'[p].pc = "edit" /\ ed'[p].fd = f /\ ed'[p].meta = e.meta
        /\ ed'[p].base = e.base
        /\ ed'[p].text \in {e.text, Append(e.text, clock + 1)}
    <3>1. CASE Record(p)
      <4> DEFINE t == Append(e.text, clock + 1)
      <4>1. PICK pr : \/ ed' = [ed EXCEPT ![p].text = t, ![p].synced = FALSE,
                                          ![p].prot = pr]
                      \/ ed' = [ed EXCEPT ![p].text = t, ![p].bad = TRUE]
        BY <3>1, Zenon DEF Record
      <4> HIDE DEF t
      <4>2. /\ ed'[p].pc = "edit" /\ ed'[p].fd = f /\ ed'[p].meta = e.meta
            /\ ed'[p].base = e.base /\ ed'[p].text = t
        BY <1>0, <1>2, <4>1 DEF Fields
      <4> QED BY <4>2 DEF t
    <3>2. CASE Sync(p)
      <4>1. PICK pr : \/ ed' = [ed EXCEPT ![p].synced = TRUE, ![p].prot = pr]
                      \/ ed' = [ed EXCEPT ![p].bad = TRUE]
        BY <3>2, Zenon DEF Sync
      <4> QED BY <1>0, <1>2, <4>1 DEF Fields
    <3> QED BY <3>1, <3>2
  <2>2. ed'[p].text \in Texts
    <3>1. e.text \in Seq(Nat)
      BY <1>0 DEF GoodEd, Texts
    <3>2. clock + 1 \in Nat
      BY DEF TypeInv, FilesOK
    <3>3. Append(e.text, clock + 1) \in Seq(Nat)
      BY <3>1, <3>2, AppendProperties
    <3> QED BY <2>1, <3>1, <3>3 DEF Texts
  <2>3. GoodEd(e) => /\ e.base \in Bases /\ e.fd \in 0 .. Len(journals')
                     /\ e.meta \in Metas /\ e.meta.ino <= Len(disk')
                     /\ e.meta.mtime <= clock'
                     /\ (e.meta.ino = 0 => e.meta.mtime = 0)
    BY <1>1, <1>3, <1>6, EdStays DEF GoodEd
  <2> QED BY <1>0, <2>1, <2>2, <2>3 DEF GoodEd, Inside
<1>8. CountsOK'
  BY <1>2, <1>4, <1>6 DEF CountsOK, TypeInv, LogsKept
<1> QED BY <1>1, <1>2, <1>3, <1>6, <1>7, <1>8, DirsStill, TypesKeep

LEMMA CountsKept ==
  ASSUME TypeInv, UNCHANGED <<leaves, meddles, spoilt, baseless, unread>>,
         LogsKept, Numbered'
  PROVE  CountsOK'
<1>1. Len(journals) \in Nat /\ Len(journals') \in Nat
  BY LogsSeq, LenProperties DEF Numbered, TypeInv, LockInv
<1> QED BY <1>1 DEF CountsOK, TypeInv, LogsKept

LEMMA InplaceWritten ==
  ASSUME TypeInv, NEW t \in Texts, UNCHANGED <<dst, clock>>,
         disk' = [disk EXCEPT ![dst].text = t]
  PROVE  FilesGrow
<1>1. CASE dst = 0
  <2>1. DOMAIN disk = 1 .. Len(disk) /\ disk = [i \in DOMAIN disk |-> disk[i]]
    BY LenProperties DEF TypeInv, FilesOK
  <2>2. disk' = disk
    <3>1. 0 \notin DOMAIN disk
      BY <2>1
    <3> DEFINE new == [disk[dst] EXCEPT !.text = t]
    <3>2. disk' = [disk EXCEPT ![dst] = new]
      OBVIOUS
    <3> HIDE DEF new
    <3>3. disk' = [i \in DOMAIN disk |-> IF i = dst THEN new ELSE disk[i]]
      BY <3>2
    <3>4. disk' = [i \in DOMAIN disk |-> disk[i]]
      BY <1>1, <3>1, <3>3
    <3> QED BY <2>1, <3>4, Zenon
  <2> QED BY <2>2, FileStill DEF TypeInv
<1>2. CASE dst # 0
  <2> DEFINE x == [text |-> t, mtime |-> disk[dst].mtime]
  <2>1. dst \in 1 .. Len(disk) /\ clock \in 1 .. MaxClock
    BY <1>2 DEF TypeInv, FilesOK
  <2>2. disk[dst].mtime \in 1 .. clock
    BY <2>1 DEF TypeInv, FilesOK
  <2>3. disk[dst] \in [text : Texts, mtime : Nat]
    BY <2>1, ElementOfSeq DEF TypeInv, FilesOK
  <2>4. disk' = [disk EXCEPT ![dst] = x]
    <3>1. [disk[dst] EXCEPT !.text = t] = x
      BY <2>3
    <3> QED BY <3>1
  <2>5. x \in [text : Texts, mtime : Nat] /\ x.mtime \in 1 .. clock'
    BY <2>2
  <2>6. clock' \in clock .. MaxClock /\ MaxClock \in Nat
    BY <2>1, ClockBound
  <2> HIDE DEF x
  <2> QED BY <1>2, <2>4, <2>5, <2>6, FileWritten DEF TypeInv
<1> QED BY <1>1, <1>2

LEMMA TornText == Torn \in Texts
BY DEF Torn, Texts

LEMMA SaveTyped ==
  ASSUME TypeInv, NEW p \in Editors,
         SaveAtomic(p) \/ SaveInplace(p) \/ SaveInplace2(p)
  PROVE  TypeInv'
<1> DEFINE e == ed[p]
<1>0. DOMAIN e = Fields /\ GoodEd(e) /\ p \in DOMAIN ed /\ e.text \in Texts
  BY DEF TypeInv, LockInv, Shape, EdsOK, GoodEd
<1>1. Moves(p) /\ Numbered'
  BY SaveMoves DEF TypeInv
<1>2. UNCHANGED <<journals, dir, cut, leaves, meddles, spoilt, baseless, unread>>
  BY DEF SaveAtomic, SaveInplace, SaveInplace2, log, bounds, history
<1>3. FilesGrow
  <2>1. CASE SaveAtomic(p)
    BY <1>0, <2>1, ClockNext, FileReplaced DEF SaveAtomic, TypeInv
  <2>2. CASE SaveInplace(p)
    <3> DEFINE x == [text |-> Torn, mtime |-> clock']
    <3>1. /\ disk' = [disk EXCEPT ![dst] = x] /\ dst' = dst /\ dst # 0
          /\ clock < MaxClock /\ clock' = clock + 1
      BY <2>2 DEF SaveInplace
    <3>2. clock' \in clock .. MaxClock /\ MaxClock \in Nat
      BY <3>1, ClockNext
    <3>3. x \in [text : Texts, mtime : Nat] /\ x.mtime \in 1 .. clock'
      BY <3>1, ClockNext, TornText
    <3> HIDE DEF x
    <3> QED BY <3>1, <3>2, <3>3, FileWritten DEF TypeInv
  <2>3. CASE SaveInplace2(p)
    BY <1>0, <2>3, InplaceWritten DEF SaveInplace2
  <2> QED BY <2>1, <2>2, <2>3
<1>4. LogsKept /\ LogsOK' /\ DirsNew
  BY <1>2, <1>3, LogsStill, DirsStill
<1>5. GoodEd(ed[p])'
  <2>1. CASE Saved(p)
    BY <1>1, <1>3, <1>4, <2>1, SavedTyped
  <2>2. CASE SaveInplace(p)
    <3>1. CASE e.fd = 0 /\ Goto(p, "inplace")
      BY <1>1, <1>3, <1>4, <3>1, GotoTyped DEF Inside
    <3>2. CASE e.fd # 0 /\ Goto(p, "inplace log")
      BY <1>1, <1>3, <1>4, <3>2, GotoTyped DEF Inside
    <3> QED BY <2>2, <3>1, <3>2 DEF SaveInplace
  <2> QED BY <2>1, <2>2 DEF SaveAtomic, SaveInplace2
<1> QED BY <1>1, <1>2, <1>3, <1>4, <1>5, CountsKept, TypesKeep

LEMMA DropTyped ==
  ASSUME TypeInv, NEW p \in Editors,
         DropBase(p) \/ DropLog(p) \/ DropSync(p)
  PROVE  TypeInv'
<1> DEFINE e == ed[p]
<1>0. DOMAIN e = Fields /\ GoodEd(e) /\ p \in DOMAIN ed
  BY DEF TypeInv, LockInv, Shape, EdsOK
<1>1. Moves(p) /\ Numbered'
  BY DropMoves DEF TypeInv
<1>2. /\ UNCHANGED <<disk, dst, clock, journals, leaves, meddles, spoilt, unread>>
      /\ e.pc \in {"dropBase", "dropLog", "dropSync"}
  BY DEF DropBase, DropLog, DropSync, files, bounds, history
<1>3. FilesGrow
  BY <1>2, FileStill DEF TypeInv
<1>4. LogsKept /\ LogsOK'
  BY <1>2, <1>3, LogsStill
<1>5. e.fd \in 1 .. Len(journals)
  <2>1. e.fd # 0 /\ e.fd \in 0 .. Len(journals) /\ Len(journals) \in Nat
    BY <1>0, <1>2, LogsSeq DEF GoodEd, Inside, TypeInv, LockInv
  <2> QED BY <2>1
<1>6. CountsOK'
  <2>1. baseless' = baseless \/ baseless' = baseless \cup {e.fd}
    BY DEF DropBase, DropLog, DropSync, history
  <2> QED BY <1>2, <1>5, <2>1 DEF CountsOK, TypeInv
<1>7. DirsNew
  <2>1. ASSUME NEW d, d \in {[dir EXCEPT !.b = NoBase], [dir EXCEPT !.j = 0],
                             dir}
        PROVE  GoodDir(d)'
    <3>1. /\ DOMAIN d = DOMAIN dir /\ d.j \in {0, dir.j} /\ d.b \in {NoBase, dir.b}
          /\ d.oldj = dir.oldj /\ d.oldb = dir.oldb /\ d.near = dir.near
      BY <2>1, DirFields
    <3> QED BY <1>1, <1>3, <1>4, <3>1, DirEdited
  <2>2. \/ Change([dir EXCEPT !.b = NoBase]) \/ Change([dir EXCEPT !.j = 0])
        \/ Commit(dir) \/ UNCHANGED <<dir, cut>>
    BY DEF DropBase, DropLog, DropSync, NotDropped
  <2> QED BY <2>1, <2>2, DirsTo, DirsStill
<1>8. GoodEd(ed[p])'
  <2>1. Goto(p, "dropLog") \/ Goto(p, "dropSync") \/ Close(p, "edit")
    BY DEF DropBase, DropLog, DropSync, NotDropped
  <2>2. e.fd # 0
    BY <1>5
  <2> QED BY <1>1, <1>3, <1>4, <2>1, <2>2, GotoTyped, CloseTyped DEF Inside
<1> QED BY <1>1, <1>3, <1>4, <1>6, <1>7, <1>8, TypesKeep

LEMMA BlankGood ==
  ASSUME Numbered, FilesOK PROVE GoodEd(Blank)
<1>1. Len(journals) \in Nat /\ Len(disk) \in Nat /\ clock \in Nat
  BY LogsSeq, LenProperties DEF FilesOK
<1>2. /\ Blank.text \in Texts /\ Blank.base \in Bases /\ Blank.fd = 0
      /\ Blank.pc = "out"
  BY DEF Blank, Texts, Bases, NoBase
<1>3. Blank.meta \in Metas /\ Blank.meta.ino = 0 /\ Blank.meta.mtime = 0
  BY DEF Blank, Metas
<1> QED BY <1>1, <1>2, <1>3 DEF GoodEd, Inside

LEMMA LeaveTyped ==
  ASSUME TypeInv, NEW p \in Editors, Leave(p)
  PROVE  TypeInv'
<1>1. Moves(p) /\ Numbered'
  BY LeaveMoves DEF TypeInv
<1>2. UNCHANGED <<disk, dst, clock, journals, dir, cut, meddles, spoilt,
                  baseless, unread>>
  BY DEF Leave, files, log
<1>3. FilesGrow
  BY <1>2, FileStill DEF TypeInv
<1>4. LogsKept /\ LogsOK' /\ DirsNew
  BY <1>2, <1>3, LogsStill, DirsStill
<1>5. GoodEd(ed[p])'
  <2>1. GoodEd(Blank)
    BY BlankGood DEF TypeInv, LockInv
  <2>2. ed'[p] = Blank
    BY DEF Leave, TypeInv, LockInv, Shape
  <2> QED BY <1>2, <2>1, <2>2 DEF GoodEd
<1>6. CountsOK'
  <2>1. leaves' \in 0 .. MaxLeave
    <3>1. MaxLeave \in Nat
      BY JournalAssumption
    <3> QED BY <3>1 DEF Leave, CountsOK, TypeInv
  <2> QED BY <1>2, <2>1 DEF CountsOK, TypeInv
<1> QED BY <1>1, <1>3, <1>4, <1>5, <1>6, TypesKeep

-----------------------------------------------------------------------------
(* The types: power cuts and other programs.                                 *)

(* What is left of a journal file.                                           *)
LEMMA SurvivorGood ==
  ASSUME NEW x, GoodLog(x), NEW n \in x.safe .. Size(x),
         Len(disk) \in Nat /\ clock \in Nat
  PROVE  /\ GoodLog(Survivor(x, n))
         /\ Survivor(x, n).hdr = x.hdr \/ Survivor(x, n).hdr = NoHeader
<1> DEFINE new == Survivor(x, n)
<1>1. x.safe \in Nat /\ Len(x.recs) \in Nat /\ x.recs \in Seq(Recs)
  BY LenProperties DEF GoodLog, Recs, Size
<1>2. n \in Nat
  BY <1>1 DEF Size
<1>3. CASE n = 0
  <2>1. new = [hdr |-> NoHeader, recs |-> <<>>, safe |-> 0]
    BY <1>3 DEF Survivor
  <2> HIDE DEF new
  <2>2. NoHeader \in [ino : Nat, mtime : Nat, base : Bases]
        /\ NoHeader.ino = 0 /\ NoHeader.mtime = 0
    BY DEF NoHeader, NoBase, Bases, Texts
  <2>3. <<>> \in Seq([op : Nat, on : Texts])
    OBVIOUS
  <2>4. GoodLog(new) /\ new.hdr = NoHeader
    BY <2>1, <2>2, <2>3 DEF GoodLog, Size
  <2> QED BY <2>4 DEF new
<1>4. CASE n # 0
  <2>1. x.hdr # NoHeader /\ n - 1 \in 0 .. Len(x.recs)
    BY <1>1, <1>2, <1>4 DEF Size
  <2> DEFINE r == SubSeq(x.recs, 1, n - 1)
  <2>2. r \in Seq(Recs) /\ Len(r) = n - 1
    BY <1>1, <2>1, SubSeqRecs
  <2>3. new = [x EXCEPT !.recs = r, !.safe = Len(r) + 1]
    <3>1. Len(r) + 1 = n
      BY <1>2, <2>2
    <3>2. Survivor(x, n) = [x EXCEPT !.recs = SubSeq(@, 1, n - 1), !.safe = n]
      BY <1>4 DEF Survivor
    <3> QED BY <3>1, <3>2 DEF GoodLog
  <2> HIDE DEF r, new
  <2>4. GoodLog(new) /\ new.hdr = x.hdr
    BY <2>1, <2>2, <2>3, LogCut
  <2> QED BY <2>4 DEF new
<1> QED BY <1>3, <1>4

LEMMA PowerCutLogs ==
  ASSUME TypeInv, PowerCut
  PROVE  /\ Len(journals') = Len(journals) /\ Numbered'
         /\ \A f \in 1 .. Len(journals) :
              \E n \in journals[f].safe .. Size(journals[f]) :
                journals'[f] = Survivor(journals[f], n)
<1>0. LockInv'
  BY PowerCutKeeps DEF TypeInv
<1>1. PICK n \in [DOMAIN journals -> 0 .. MaxClock] :
        /\ \A f \in DOMAIN n : n[f] \in journals[f].safe .. Size(journals[f])
        /\ journals' = [f \in DOMAIN n |-> Survivor(journals[f], n[f])]
  BY DEF PowerCut
<1>2. DOMAIN journals = 1 .. Len(journals) /\ Len(journals) \in Nat
      /\ DOMAIN n = DOMAIN journals
  BY <1>1, LogsSeq DEF TypeInv, LockInv
<1>3. DOMAIN journals' = 1 .. Len(journals)
  BY <1>1, <1>2
<1>4. Numbered' /\ DOMAIN journals' = 1 .. Len(journals') /\ Len(journals') \in Nat
  BY <1>0, LenProperties DEF LockInv, Numbered
<1>5. Len(journals') = Len(journals)
  BY <1>2, <1>3, <1>4
<1> QED BY <1>1, <1>2, <1>4, <1>5

LEMMA PowerCutTyped ==
  ASSUME TypeInv, PowerCut PROVE TypeInv'
<1>1. LockInv'
  BY PowerCutKeeps DEF TypeInv
<1>2. UNCHANGED <<disk, dst, clock, meddles, spoilt, baseless, unread>>
  BY DEF PowerCut, files
<1>3. FilesOK'
  BY <1>2 DEF FilesOK, TypeInv
<1>4. /\ Len(journals') = Len(journals) /\ Numbered'
      /\ \A f \in 1 .. Len(journals) :
           \E n \in journals[f].safe .. Size(journals[f]) :
             journals'[f] = Survivor(journals[f], n)
  BY PowerCutLogs
<1>5. Len(disk) \in Nat /\ clock \in Nat
  BY LenProperties DEF TypeInv, FilesOK
<1>6. LogsOK'
  <2> SUFFICES ASSUME NEW f \in 1 .. Len(journals) PROVE GoodLog(journals[f])'
    BY <1>4 DEF LogsOK
  <2>1. PICK n \in journals[f].safe .. Size(journals[f]) :
          journals'[f] = Survivor(journals[f], n)
    BY <1>4
  <2>2. GoodLog(Survivor(journals[f], n))
    BY <1>5, SurvivorGood DEF TypeInv, LogsOK
  <2>3. ASSUME NEW x, x = journals'[f], GoodLog(x) PROVE GoodLog(journals[f])'
    BY <1>2, <2>3 DEF GoodLog
  <2> QED BY <2>1, <2>2, <2>3
<1>7. DirsOK'
  <2>1. dir' \in cut /\ cut' = {dir'}
    BY DEF PowerCut
  <2>2. GoodDir(dir')
    BY <2>1 DEF TypeInv, DirsOK
  <2>3. GoodDir(dir)'
    BY <1>2, <1>4, <2>2 DEF GoodDir
  <2> QED BY <2>1, <2>3 DEF DirsOK
<1>8. EdsOK'
  <2> SUFFICES ASSUME NEW p \in Editors PROVE GoodEd(ed[p])'
    BY DEF EdsOK
  <2>1. ed'[p] = Blank
    BY DEF PowerCut
  <2>2. /\ Blank.text \in Texts /\ Blank.base \in Bases /\ Blank.fd = 0
        /\ Blank.pc = "out" /\ Blank.meta \in Metas /\ Blank.meta.ino = 0
        /\ Blank.meta.mtime = 0
    BY DEF Blank, Texts, Bases, NoBase, Metas
  <2>3. Len(journals') \in Nat
    BY <1>4, LenProperties DEF Numbered
  <2> QED BY <1>2, <1>5, <2>1, <2>2, <2>3 DEF GoodEd, Inside
<1>9. CountsOK'
  <2>1. MaxLeave \in Nat
    BY JournalAssumption
  <2> QED BY <1>2, <1>4, <2>1 DEF PowerCut, CountsOK, TypeInv
<1> QED BY <1>1, <1>3, <1>6, <1>7, <1>8, <1>9 DEF TypeInv

LEMMA MeddleTyped ==
  ASSUME TypeInv, Meddle PROVE TypeInv'
<1>1. /\ UNCHANGED <<journals, dir, cut, ed, leaves, baseless, unread>>
      /\ clock < MaxClock /\ clock' = clock + 1
  BY DEF Meddle, log
<1>2. clock' \in clock .. MaxClock /\ MaxClock \in Nat /\ clock \in Nat
      /\ clock' \in 1 .. clock' /\ clock' \in Nat
  BY <1>1, ClockNext
<1>3. <<clock'>> \in Texts
  BY <1>2 DEF Texts
<1>4. FilesGrow
  <2>1. CASE /\ disk' = Append(disk, [text |-> <<clock'>>, mtime |-> clock'])
             /\ dst' = Len(disk')
    BY <1>1, <1>2, <1>3, <2>1, FileReplaced DEF TypeInv
  <2>2. ASSUME dst # 0, dst' = dst,
               NEW x \in [text : Texts, mtime : Nat], x.mtime = clock',
               disk' = [disk EXCEPT ![dst] = x]
        PROVE  FilesGrow
    BY <1>2, <2>2, FileWritten DEF TypeInv
  <2>3. CASE /\ dst # 0 /\ dst' = dst
             /\ disk' = [disk EXCEPT ![dst] = [text |-> <<clock'>>,
                                               mtime |-> clock']]
    <3> DEFINE x == [text |-> <<clock'>>, mtime |-> clock']
    <3>1. x \in [text : Texts, mtime : Nat] /\ x.mtime = clock'
      BY <1>2, <1>3
    <3>2. disk' = [disk EXCEPT ![dst] = x]
      BY <2>3
    <3> HIDE DEF x
    <3> QED BY <2>2, <2>3, <3>1, <3>2
  <2>4. CASE dst # 0 /\ dst' = dst /\ disk' = [disk EXCEPT ![dst].mtime = clock']
    <3> DEFINE x == [text |-> disk[dst].text, mtime |-> clock']
    <3>1. disk[dst] \in [text : Texts, mtime : Nat]
      <4>1. dst \in 1 .. Len(disk)
        BY <2>4 DEF TypeInv, FilesOK
      <4> QED BY <4>1, ElementOfSeq DEF TypeInv, FilesOK
    <3>2. x \in [text : Texts, mtime : Nat] /\ x.mtime = clock'
      BY <1>2, <3>1
    <3>3. [disk[dst] EXCEPT !.mtime = clock'] = x
      BY <3>1
    <3>4. disk' = [disk EXCEPT ![dst] = x]
      BY <2>4, <3>3
    <3> HIDE DEF x
    <3> QED BY <2>2, <2>4, <3>2, <3>4
  <2> QED BY <2>1, <2>3, <2>4 DEF Meddle
<1>5. Numbered' /\ LogsKept /\ LogsOK' /\ DirsNew
  BY <1>1, <1>4, NumberedSame, LogsStill, DirsStill DEF TypeInv, LockInv
<1>6. LockInv'
  BY <1>1, <1>5 DEF TypeInv, LockInv, Shape, Locked, Exclusive
<1>7. EdsOK'
  <2> SUFFICES ASSUME NEW q \in Editors PROVE GoodEd(ed[q])'
    BY DEF EdsOK
  <2>1. ASSUME NEW e, e = ed[q], GoodEd(e) PROVE GoodEd(ed[q])'
    <3>1. GoodEd(e)'
      BY <1>4, <1>5, <2>1, EdStays
    <3> QED BY <1>1, <2>1, <3>1 DEF GoodEd
  <2> QED BY <2>1 DEF TypeInv, EdsOK
<1>8. DirsOK'
  <2>1. ASSUME NEW d \in cut PROVE GoodDir(d)'
    BY <1>4, <1>5, <2>1, DirStays DEF TypeInv, DirsOK
  <2> QED BY <1>1, <2>1 DEF DirsOK, TypeInv
<1>9. CountsOK'
  <2>1. MaxMeddle \in Nat /\ spoilt' \in BOOLEAN
    BY JournalAssumption DEF Meddle, TypeInv, CountsOK
  <2>2. meddles' \in 0 .. MaxMeddle
    <3>1. meddles < MaxMeddle /\ meddles' = meddles + 1
      BY DEF Meddle
    <3> QED BY <2>1, <3>1 DEF TypeInv, CountsOK
  <2> QED BY <1>1, <2>1, <2>2 DEF CountsOK, TypeInv
<1> QED BY <1>4, <1>5, <1>6, <1>7, <1>8, <1>9 DEF TypeInv, FilesGrow

LEMMA TypeStart == Init => TypeInv
<1> SUFFICES ASSUME Init PROVE TypeInv
  OBVIOUS
<1>1. LockInv
  BY LockStart
<1>2. Len(journals) = 0 /\ journals = <<>>
  BY DEF Init
<1>3. FilesOK
  <2> DEFINE x == [text |-> <<1>>, mtime |-> 1]
  <2>1. x \in [text : Texts, mtime : Nat] /\ x.mtime = 1
    BY DEF Texts
  <2>2. disk = <<x>> /\ dst \in {0, 1} /\ clock = 1
    BY DEF Init
  <2> HIDE DEF x
  <2>3. disk \in Seq([text : Texts, mtime : Nat]) /\ Len(disk) = 1
        /\ disk[1] = x
    BY <2>1, <2>2
  <2> QED BY <2>1, <2>2, <2>3, ClockBound DEF FilesOK
<1>4. LogsOK
  BY <1>2 DEF LogsOK
<1>5. DirsOK
  <2>1. PICK place \in Places :
          dir = [j |-> 0, b |-> NoBase, oldj |-> {}, oldb |-> {},
                 near |-> place.near]
    BY DEF Init
  <2>2. place.near \in BOOLEAN
    BY JournalAssumption
  <2>3. NoBase \in Bases /\ NoBase.kind = "none"
    BY DEF NoBase, Bases, Texts
  <2>4. cut = {dir}
    BY DEF Init
  <2>5. GoodDir(dir)
    BY <1>2, <2>1, <2>2, <2>3 DEF GoodDir
  <2> QED BY <2>4, <2>5 DEF DirsOK
<1>6. EdsOK
  BY <1>1, <1>3, BlankGood DEF Init, EdsOK, LockInv
<1>7. CountsOK
  <2>1. MaxLeave \in Nat /\ MaxMeddle \in Nat
    BY JournalAssumption
  <2>2. leaves = 0 /\ meddles = 0 /\ baseless = {} /\ unread = {}
    BY DEF Init
  <2>3. spoilt \in BOOLEAN
    BY DEF Init
  <2> QED BY <2>1, <2>2, <2>3 DEF CountsOK
<1> QED BY <1>1, <1>3, <1>4, <1>5, <1>6, <1>7 DEF TypeInv

LEMMA TypeStep == TypeInv /\ [Next]_vars => TypeInv'
<1> SUFFICES ASSUME TypeInv, [Next]_vars PROVE TypeInv'
  OBVIOUS
<1>1. ASSUME NEW p \in Editors, Step(p) PROVE TypeInv'
  BY <1>1, OpeningTyped, AnswerTyped, OpenLogTyped, LockTyped, AdoptTyped,
     PreserveTyped, CreateBaseTyped, HeaderTyped, EditTyped, SaveTyped,
     DropTyped, LeaveTyped
  DEF Step
<1>2. CASE UNCHANGED vars
  <2>1. UNCHANGED <<disk, dst, journals, dir, cut, ed, clock, leaves, meddles,
                    spoilt, baseless, unread>>
    BY <1>2 DEF vars, files, log, bounds, history
  <2>2. LockInv'
    BY <1>2, LockStep DEF TypeInv
  <2>3. FilesOK' /\ LogsOK' /\ CountsOK'
    BY <2>1 DEF TypeInv, FilesOK, LogsOK, GoodLog, CountsOK
  <2>4. DirsOK' /\ EdsOK'
    BY <2>1 DEF TypeInv, DirsOK, GoodDir, EdsOK, GoodEd
  <2> QED BY <2>2, <2>3, <2>4 DEF TypeInv
<1> QED BY <1>1, <1>2, PowerCutTyped, MeddleTyped DEF Next

(* For any number of editors and whatever happens, names, descriptors and    *)
(* headers refer to inodes and journal files there are, and no journal file  *)
(* is durable beyond its end.                                                *)
THEOREM TypeCorrect == Spec => []TypeOK
<1>1. TypeInv => TypeOK
  <2> SUFFICES ASSUME TypeInv PROVE TypeOK
    OBVIOUS
  <2>1. DOMAIN disk = 1 .. Len(disk) /\ DOMAIN journals = 1 .. Len(journals)
        /\ Len(disk) \in Nat /\ Len(journals) \in Nat
    BY LogsSeq, LenProperties DEF TypeInv, FilesOK, LockInv
  <2>2. \A f \in DOMAIN journals : /\ journals[f].hdr.ino \in 0 .. Len(disk)
                                   /\ journals[f].safe \in 0 .. Size(journals[f])
    BY <2>1 DEF TypeInv, LogsOK, GoodLog
  <2>3. dir \in cut /\ \A d \in cut : /\ d.j \in 0 .. Len(journals)
                                      /\ d.oldj \subseteq DOMAIN journals
                                      /\ NoBase \notin d.oldb
    BY <2>1 DEF TypeInv, DirsOK, GoodDir
  <2>4. \A p \in Editors : /\ ed[p].fd \in 0 .. Len(journals)
                           /\ ed[p].meta.ino \in 0 .. Len(disk)
                           /\ ed[p].held => ed[p].fd # 0
    BY <2>1 DEF TypeInv, EdsOK, GoodEd, LockInv, Locked, Metas
  <2> QED BY <2>1, <2>2, <2>3, <2>4 DEF TypeOK, TypeInv, FilesOK, CountsOK
<1> QED BY <1>1, TypeStart, TypeStep, PTL DEF Spec

-----------------------------------------------------------------------------
(* One editor: where its journal is.                                         *)

Alone == \A p, q \in Editors : p = q

(* Versions of the file, in the order they came to be: a later one has a     *)
(* later inode, or the same one written later.                               *)
Older(a, b) == a.ino < b.ino \/ (a.ino = b.ino /\ a.mtime < b.mtime)
Upto(a, b)  == Older(a, b) \/ (a.ino = b.ino /\ a.mtime = b.mtime)
Version(m)  == m.ino \in Nat /\ m.mtime \in Nat
Now == MetaOf(dst)

LEMMA OlderUpto ==
  ASSUME NEW a, NEW b, NEW c, Version(a), Version(b), Version(c),
         Older(a, b), Upto(b, c)
  PROVE  Older(a, c)
BY DEF Older, Upto, Version

LEMMA UptoUpto ==
  ASSUME NEW a, NEW b, NEW c, Version(a), Version(b), Version(c),
         Upto(a, b), Upto(b, c)
  PROVE  Upto(a, c)
BY DEF Older, Upto, Version

LEMMA UptoOlder ==
  ASSUME NEW a, NEW b, NEW c, Version(a), Version(b), Version(c),
         Upto(a, b), Older(b, c)
  PROVE  Older(a, c)
BY DEF Older, Upto, Version

LEMMA UptoSelf == ASSUME NEW a PROVE Upto(a, a)
BY DEF Upto

H(f)      == journals[f].hdr
Headed(f) == f # 0 /\ H(f) # NoHeader
(* A journal whose base is gone, though no discard on request removed it.    *)
Lost(d)   == Headed(d.j) /\ d.b = NoBase /\ d.j \notin baseless

(* Every journal was made for a version there has been, and one that lost    *)
(* its base for a version that is no longer there.                           *)
Past    == \A f \in 1 .. Len(journals) : Headed(f) => Upto(H(f), Now)
Orphans == \A d \in cut : Lost(d) => Older(H(d.j), Now)

(* ... no longer there for an editor that works on version m.                *)
Versed(m) ==
  /\ Upto(m, Now)
  /\ Headed(dir.j) => Upto(H(dir.j), m)
  /\ Lost(dir) => Older(H(dir.j), m)

(* What the steps of an editor rely on: the journal it has open is the one   *)
(* by that name; it has no header until this editor writes it, beside a      *)
(* base; one that is preserved or discarded is of an older version.          *)
Sited(e) ==
  /\ e.fd # 0 /\ e.pc # "dropSync" => dir.j = e.fd
  /\ e.pc \in {"lock", "base", "header"} => ~Headed(e.fd)
  /\ e.pc \in {"oldBase", "oldBase2"} =>
       IF e.goal = "create" THEN ~Headed(e.fd)
       ELSE Headed(e.fd) => Older(H(e.fd), e.meta)
  /\ e.pc = "base" => dir.b = NoBase
  /\ e.pc \in {"header", "barrier"} =>
       \A d \in cut : d.j = e.fd => d.b # NoBase
  /\ e.pc = "dropBase" /\ e.goal # "decline" =>
       (Headed(e.fd) => Older(H(e.fd), e.meta))
  /\ e.pc = "edit" /\ e.fd # 0 =>
       Headed(e.fd) /\ (dir.b # NoBase \/ dir.j \in baseless)
  /\ e.pc \in {"inplace", "inplace log"} =>
       \A f \in 1 .. Len(journals) : Headed(f) => Older(H(f), Now)

Placed(e) == (e.pc # "out" => Versed(e.meta)) /\ Sited(e)

PlaceInv == TypeInv /\ Past /\ Orphans /\ \A p \in Editors : Placed(ed[p])

LEMMA HeaderVersion ==
  ASSUME TypeInv, NEW f \in 1 .. Len(journals) PROVE Version(H(f))
BY LogOf DEF GoodLog, H, Version

LEMMA NowVersion == TypeInv => Version(Now)
BY FileMeta DEF TypeInv, GoodMeta, Metas, Version, Now

LEMMA MetaVersion ==
  ASSUME TypeInv, NEW p \in Editors PROVE Version(ed[p].meta)
BY DEF TypeInv, EdsOK, GoodEd, Metas, Version

(* Steps that write no header.                                               *)
HeadsSame ==
  /\ Len(journals) <= Len(journals')
  /\ \A f \in 1 .. Len(journals) : H(f)' = H(f)
  /\ \A f \in 1 .. Len(journals') : f > Len(journals) => H(f)' = NoHeader

(* What such a step keeps: versions only get older, ...                      *)
LEMMA PastKeeps ==
  ASSUME PlaceInv, TypeInv', HeadsSame, Upto(Now, Now') PROVE Past'
<1> SUFFICES ASSUME NEW f \in 1 .. Len(journals'), Headed(f)'
             PROVE  Upto(H(f), Now)'
  BY DEF Past
<1>1. Len(journals) \in Nat /\ Len(journals') \in Nat
  BY LogsSeq, LenProperties DEF PlaceInv, TypeInv, LockInv, Numbered
<1>2. f \in 1 .. Len(journals) /\ H(f)' = H(f) /\ Headed(f)
  BY <1>1 DEF HeadsSame, Headed
<1>3. Upto(H(f), Now) /\ Version(H(f))
  BY <1>2, HeaderVersion DEF PlaceInv, Past
<1>4. Version(Now) /\ Version(Now)'
  BY NowVersion, PTL DEF PlaceInv
<1>5. Version(Now')
  BY <1>4 DEF Version
<1>6. Upto(H(f), Now')
  BY <1>3, <1>4, <1>5, UptoUpto
<1> QED BY <1>2, <1>6 DEF Upto, Older

(* A journal with a header after such a step had it before.                  *)
LEMMA HeadKept ==
  ASSUME TypeInv, TypeInv', HeadsSame, NEW f, f \in 0 .. Len(journals'),
         Headed(f)'
  PROVE  /\ f \in 1 .. Len(journals) /\ H(f)' = H(f) /\ Headed(f)
         /\ Version(H(f))
<1>1. Len(journals) \in Nat
  BY LogsSeq DEF TypeInv, LockInv
<1>2. Len(journals') \in Nat
  BY LenProperties DEF TypeInv, LockInv, Numbered
<1>3. f \in 1 .. Len(journals') /\ H(f)' # NoHeader
  BY <1>2 DEF Headed
<1>4. f \in 1 .. Len(journals) /\ H(f)' = H(f)
  BY <1>1, <1>2, <1>3 DEF HeadsSame
<1> QED BY <1>3, <1>4, HeaderVersion DEF Headed

(* A directory that a step leaves has the journal that was there, with its   *)
(* base, or the journal may be without: it is older than version m.          *)
Tame(d, m) == Headed(d.j)' =>
  /\ d.j = dir.j
  /\ d.b = NoBase => \/ dir.b = NoBase \/ dir.j \in baseless'
                     \/ Older(H(dir.j), m)

(* The version of the file that an editor has just loaded or saved.          *)
LEMMA VersedNow == TypeInv /\ Past /\ Orphans => Versed(Now)
<1> SUFFICES ASSUME TypeInv, Past, Orphans PROVE Versed(Now)
  OBVIOUS
<1>1. Headed(dir.j) => dir.j \in 1 .. Len(journals)
  BY DirLog DEF Headed
<1> QED BY <1>1, UptoSelf DEF Versed, Past, Orphans, TypeInv, DirsOK

LEMMA TameKeeps ==
  ASSUME PlaceInv, TypeInv', HeadsSame, Upto(Now, Now'),
         baseless \subseteq baseless', NEW m, Version(m), Versed(m),
         \A d \in cut' : d \in cut \/ Tame(d, m),
         \A d \in {dir'} : Tame(d, m)
  PROVE  Past' /\ Orphans' /\ Versed(m)'
<1>1. Past'
  BY PastKeeps
<1>2. TypeInv /\ Version(Now) /\ Version(Now')
  <2>1. Version(Now) /\ Version(Now)'
    BY NowVersion, PTL DEF PlaceInv
  <2> QED BY <2>1 DEF PlaceInv, Version
<1>3. Upto(m, Now) /\ Upto(m, Now')
  BY <1>2, UptoUpto DEF Versed
<1>4. ASSUME NEW d, Tame(d, m), d.j \in 0 .. Len(journals'), Headed(d.j)'
      PROVE  /\ d.j = dir.j /\ H(d.j)' = H(dir.j) /\ Headed(dir.j)
             /\ Version(H(dir.j)) /\ Upto(H(dir.j), m)
             /\ (d.b = NoBase /\ d.j \notin baseless' => Older(H(dir.j), m))
  <2>1. Headed(d.j) /\ H(d.j)' = H(d.j) /\ Version(H(d.j))
    BY <1>2, <1>4, HeadKept
  <2>2. d.j = dir.j
    BY <1>4 DEF Tame
  <2>3. Upto(H(dir.j), m)
    BY <2>1, <2>2 DEF Versed
  <2>4. ASSUME d.b = NoBase, d.j \notin baseless' PROVE Older(H(dir.j), m)
    <3>1. CASE dir.b = NoBase
      <4>1. Lost(dir)
        BY <2>1, <2>2, <2>4, <3>1 DEF Lost
      <4> QED BY <4>1 DEF Versed
    <3>2. CASE dir.b # NoBase
      BY <1>4, <2>2, <2>4, <3>2 DEF Tame
    <3> QED BY <3>1, <3>2
  <2> QED BY <2>1, <2>2, <2>3, <2>4
<1>5. ASSUME NEW d \in cut' PROVE d.j \in 0 .. Len(journals')
  BY DEF TypeInv, DirsOK, GoodDir
<1>6. Orphans'
  <2> SUFFICES ASSUME NEW d \in cut', Lost(d)' PROVE Older(H(d.j)', Now')
    BY DEF Orphans
  <2>1. Headed(d.j)' /\ d.b = NoBase /\ d.j \notin baseless'
    BY DEF Lost
  <2>2. CASE d \in cut
    <3>1. Headed(d.j) /\ H(d.j)' = H(d.j) /\ Version(H(d.j))
      BY <1>2, <1>5, <2>1, HeadKept
    <3>2. Lost(d)
      BY <2>1, <3>1 DEF Lost
    <3>3. Older(H(d.j), Now)
      BY <2>2, <3>2 DEF PlaceInv, Orphans
    <3> QED BY <1>2, <3>1, <3>3, OlderUpto
  <2>3. CASE Tame(d, m)
    <3>1. Older(H(dir.j), m) /\ Version(H(dir.j)) /\ H(d.j)' = H(dir.j)
      BY <1>4, <1>5, <2>1, <2>3
    <3> QED BY <1>2, <1>3, <3>1, OlderUpto
  <2> QED BY <2>2, <2>3
<1>7. Versed(m)'
  <2>1. dir' \in cut'
    BY DEF TypeInv, DirsOK
  <2>2. ASSUME NEW d, d = dir' PROVE
          /\ Headed(d.j)' => Upto(H(d.j)', m)
          /\ Headed(d.j)' /\ d.b = NoBase /\ d.j \notin baseless'
               => Older(H(d.j)', m)
    BY <1>4, <1>5, <2>1, <2>2
  <2>3. Headed(dir.j)' => Upto(H(dir.j)', m)
    BY <2>2 DEF Headed, H
  <2>4. Lost(dir)' => Older(H(dir.j)', m)
    BY <2>2 DEF Headed, H, Lost
  <2> QED BY <1>3, <2>3, <2>4 DEF Versed
<1> QED BY <1>1, <1>6, <1>7

-----------------------------------------------------------------------------
(* One editor: the steps that leave the file and the headers alone.          *)

LEMMA HeadsStill ==
  ASSUME TypeInv, UNCHANGED journals PROVE HeadsSame
BY LogsSeq DEF HeadsSame, H, TypeInv, LockInv

LEMMA HeadsSet ==
  ASSUME TypeInv, NEW f \in 1 .. Len(journals), NEW new, SetJournal(f, new),
         new.hdr = journals[f].hdr
  PROVE  HeadsSame
<1>1. Numbered /\ Len(journals) \in Nat
  BY LogsSeq DEF TypeInv, LockInv
<1>2. /\ Len(journals') = Len(journals)
      /\ \A g \in 1 .. Len(journals) :
           journals'[g] = IF g = f THEN new ELSE journals[g]
  BY <1>1, LogsSet
<1> QED BY <1>1, <1>2 DEF HeadsSame, H

LEMMA HeadsCreated ==
  ASSUME TypeInv, NEW new, new.hdr = NoHeader,
         journals' = Append(journals, new)
  PROVE  HeadsSame
<1>1. Numbered
  BY DEF TypeInv, LockInv
<1>2. /\ Len(journals') = Len(journals) + 1 /\ Len(journals) \in Nat
      /\ \A g \in 1 .. Len(journals') :
           journals'[g] = IF g = Len(journals') THEN new ELSE journals[g]
  BY <1>1, LogsAppend
<1> QED BY <1>2 DEF HeadsSame, H

LEMMA NowStill == ASSUME UNCHANGED <<disk, dst>>
                  PROVE  Now' = Now /\ Upto(Now, Now')
BY DEF Now, MetaOf, At, Upto

LEMMA GotoFields ==
  ASSUME TypeInv, NEW p \in Editors, NEW label, Goto(p, label)
  PROVE  /\ ed'[p].pc = label /\ ed'[p].fd = ed[p].fd
         /\ ed'[p].meta = ed[p].meta /\ ed'[p].goal = ed[p].goal
         /\ ed'[p].text = ed[p].text /\ ed'[p].bad = ed[p].bad
BY DEF TypeInv, LockInv, Shape, Fields, Goto

LEMMA GoOnFields ==
  ASSUME TypeInv, NEW p \in Editors, GoOn(p)
  PROVE  /\ ed'[p].pc = "edit" /\ ed'[p].goal = "aside"
         /\ ed'[p].fd = ed[p].fd /\ ed'[p].meta = ed[p].meta
         /\ ed'[p].text = ed[p].text /\ ed'[p].bad = ed[p].bad
BY DEF TypeInv, LockInv, Shape, Fields, GoOn

LEMMA CloseFields ==
  ASSUME TypeInv, NEW p \in Editors, NEW label, Close(p, label)
  PROVE  /\ ed'[p].pc = label /\ ed'[p].fd = 0
         /\ ed'[p].meta = ed[p].meta /\ ed'[p].goal = ed[p].goal
         /\ ed'[p].text = ed[p].text
BY DEF TypeInv, LockInv, Shape, Fields, Close

(* At most of the steps nothing more is said of an editor than that the      *)
(* journal it has open, if any, is the one by that name.                     *)
LEMMA SitedFree ==
  ASSUME NEW p, ed'[p].fd \in {0, dir'.j},
         ed'[p].pc \in {"out", "loaded", "asked", "open", "stuck", "edit",
                        "adopt", "oldLog", "oldLog2", "dropLog", "dropSync"},
         ed'[p].pc = "edit" => ed'[p].fd = 0
  PROVE  Sited(ed[p])'
BY DEF Sited

LEMMA QuietStep ==
  ASSUME Alone, PlaceInv, NEW p \in Editors, TypeInv', HeadsSame,
         UNCHANGED <<disk, dst>>, baseless \subseteq baseless',
         ed[p].pc # "out", ed'[p].meta = ed[p].meta,
         \A d \in cut' : d \in cut \/ Tame(d, ed[p].meta),
         \A d \in {dir'} : Tame(d, ed[p].meta), Sited(ed[p])'
  PROVE  PlaceInv'
<1>1. ASSUME NEW m, m = ed[p].meta PROVE Past' /\ Orphans' /\ Versed(m)'
  <2>1. Version(m) /\ Versed(m)
    BY <1>1, MetaVersion DEF PlaceInv, Placed
  <2> QED BY <1>1, <2>1, NowStill, TameKeeps
<1>2. Past' /\ Orphans' /\ Versed(ed[p].meta)'
  BY <1>1 DEF Versed
<1>3. ASSUME NEW q \in Editors PROVE Placed(ed[q])'
  <2>1. q = p
    BY DEF Alone
  <2> QED BY <1>2, <2>1 DEF Placed
<1> QED BY <1>2, <1>3 DEF PlaceInv

(* Nothing more happens to the directory.                                    *)
LEMMA TameStill ==
  ASSUME UNCHANGED <<dir, cut>>, NEW m
  PROVE  /\ \A d \in cut' : d \in cut \/ Tame(d, m)
         /\ \A d \in {dir'} : Tame(d, m)
BY DEF Tame

(* One name goes: the journal's, ...                                         *)
LEMMA TameTo ==
  ASSUME NEW m, NEW d, Tame(d, m), Change(d) \/ Commit(d)
  PROVE  /\ \A c \in cut' : c \in cut \/ Tame(c, m)
         /\ \A c \in {dir'} : Tame(c, m)
BY DEF Change, Commit

LEMMA TameGiveUp ==
  ASSUME TypeInv, NEW m, NEW p, NEW base, GiveUp(p, base)
  PROVE  /\ \A d \in cut' : d \in cut \/ Tame(d, m)
         /\ \A d \in {dir'} : Tame(d, m)
<1>1. PICK d \in { [dir EXCEPT !.j = 0],
                   IF base THEN [dir EXCEPT !.j = 0, !.b = NoBase] ELSE dir } :
        dir' = d /\ cut' = cut \cup {[dir EXCEPT !.j = 0], d}
  BY DEF GiveUp
<1>2. ASSUME NEW c, c \in {[dir EXCEPT !.j = 0], dir,
                           [dir EXCEPT !.j = 0, !.b = NoBase]}
      PROVE  Tame(c, m)
  <2>1. c = dir \/ c.j = 0
    BY <1>2, DirFields
  <2> QED BY <2>1 DEF Tame, Headed
<1>3. dir' \in {[dir EXCEPT !.j = 0], dir, [dir EXCEPT !.j = 0, !.b = NoBase]}
      /\ \A c \in cut' : c \in cut \/ c \in {[dir EXCEPT !.j = 0], dir,
                                      [dir EXCEPT !.j = 0, !.b = NoBase]}
  BY <1>1
<1> QED BY <1>2, <1>3

(* A step that gives the journal up: nothing else is to be shown.            *)
LEMMA ClosePlaced ==
  ASSUME Alone, PlaceInv, NEW p \in Editors, TypeInv', HeadsSame,
         UNCHANGED <<disk, dst>>, baseless \subseteq baseless',
         ed[p].pc # "out", NEW label \in {"edit", "stuck"}, Close(p, label),
         \A d \in cut' : d \in cut \/ Tame(d, ed[p].meta),
         \A d \in {dir'} : Tame(d, ed[p].meta)
  PROVE  PlaceInv'
<1>1. /\ ed'[p].pc = label /\ ed'[p].fd = 0 /\ ed'[p].meta = ed[p].meta
  BY CloseFields DEF PlaceInv
<1>2. Sited(ed[p])'
  BY <1>1, SitedFree
<1> QED BY <1>1, <1>2, QuietStep

LEMMA PlaceOf ==
  ASSUME Alone, NEW p \in Editors, TypeInv', Past', Orphans',
         Placed(ed[p])'
  PROVE  PlaceInv'
<1>1. ASSUME NEW q \in Editors PROVE Placed(ed[q])'
  <2>1. q = p
    BY DEF Alone
  <2> QED BY <2>1
<1> QED BY <1>1 DEF PlaceInv

LEMMA OpeningPlaced ==
  ASSUME Alone, PlaceInv, NEW p \in Editors,
         Load(p) \/ Probe(p) \/ AsIs(p) \/ Ensure(p)
  PROVE  PlaceInv'
<1>1. TypeInv /\ TypeInv' /\ Locked(ed[p])
  BY OpeningTyped DEF PlaceInv, TypeInv, LockInv
<1>2. UNCHANGED <<disk, dst, journals, dir, cut, baseless>>
  BY DEF Load, Probe, AsIs, Ensure, files, log, history
<1>3. HeadsSame
  BY <1>1, <1>2, HeadsStill
<1>4. CASE Load(p)
  <2>1. ed'[p].pc = "loaded" /\ ed'[p].fd = 0 /\ ed'[p].meta = Now
    BY <1>1, <1>4 DEF Load, Blank, Now, TypeInv, LockInv, Shape
  <2>2. ASSUME NEW m, m = Now PROVE Past' /\ Orphans' /\ Versed(m)'
    <3>1. Version(m) /\ Versed(m)
      BY <1>1, <2>2, NowVersion, VersedNow DEF PlaceInv
    <3>2. Upto(Now, Now') /\ TypeInv'
      BY <1>1, <1>2, NowStill
    <3>3. /\ \A d \in cut' : d \in cut \/ Tame(d, m)
          /\ \A d \in {dir'} : Tame(d, m)
      BY <1>2, TameStill
    <3>4. baseless \subseteq baseless'
      BY <1>2
    <3> QED BY <1>3, <3>1, <3>2, <3>3, <3>4, TameKeeps
  <2>3. Past' /\ Orphans' /\ Versed(ed[p].meta)'
    BY <2>1, <2>2 DEF Versed
  <2>4. Sited(ed[p])'
    BY <2>1, SitedFree
  <2> QED BY <1>1, <2>3, <2>4, PlaceOf DEF Placed
<1>5. CASE Probe(p) \/ AsIs(p) \/ Ensure(p)
  <2>1. /\ ed'[p].pc \in {"asked", "edit", "open"} /\ ed'[p].fd = ed[p].fd
        /\ ed'[p].meta = ed[p].meta /\ ed[p].fd = 0 /\ ed[p].pc # "out"
    <3>1. CASE Ensure(p)
      BY <1>1, <3>1 DEF Ensure, TypeInv, LockInv, Shape, Fields
    <3>2. CASE Probe(p) \/ AsIs(p)
      <4>1. (Goto(p, "asked") \/ Goto(p, "edit") \/ GoOn(p))
            /\ ed[p].pc \in {"loaded", "asked"}
        BY <3>2 DEF Probe, AsIs
      <4>2. ed[p].fd = 0
        BY <1>1, <4>1 DEF Locked, Apart
      <4> QED BY <1>1, <4>1, <4>2, GotoFields, GoOnFields
    <3> QED BY <1>5, <3>1, <3>2
  <2>2. Sited(ed[p])'
    BY <2>1, SitedFree
  <2>3. UNCHANGED <<disk, dst>> /\ baseless \subseteq baseless'
    BY <1>2
  <2> QED BY <1>1, <1>2, <1>3, <2>1, <2>2, <2>3, TameStill, QuietStep
<1> QED BY <1>4, <1>5

(* Replaying takes the editor to the version its header is of, ...           *)
LEMMA ReplayPlaced ==
  ASSUME Alone, PlaceInv, NEW p \in Editors, TypeInv', dir.j # 0,
         ed[p].pc = "asked", Matches(dir.j, ed[p].meta),
         UNCHANGED <<disk, dst, dir, cut, baseless>>,
         NEW n, Replay(p, dir.j, n)
  PROVE  PlaceInv'
<1> DEFINE f == dir.j
           x == journals[f]
<1>1. TypeInv /\ Locked(ed[p]) /\ f \in 1 .. Len(journals) /\ Headed(f)
  BY DirLog DEF PlaceInv, TypeInv, LockInv, Matches, Headed, H
<1>2. HeadsSame
  <2>1. CASE UNCHANGED journals
    BY <1>1, <2>1, HeadsStill
  <2>2. CASE SetJournal(f, [x EXCEPT !.recs = SubSeq(@, 1, n), !.safe = n + 1])
    <3> DEFINE new == [x EXCEPT !.recs = SubSeq(@, 1, n), !.safe = n + 1]
    <3>1. new.hdr = x.hdr
      BY <1>1, LogOf DEF GoodLog
    <3>2. SetJournal(f, new)
      BY <2>2
    <3> HIDE DEF new
    <3> QED BY <1>1, <3>1, <3>2, HeadsSet
  <2> QED BY <2>1, <2>2 DEF Replay
<1>3. PICK m : /\ m \in {ed[p].meta, [ino |-> x.hdr.ino, mtime |-> x.hdr.mtime]}
               /\ ed'[p].meta = m /\ ed'[p].pc = "open" /\ ed'[p].fd = 0
               /\ m = ed[p].meta \/ ~HeaderMatches(f, ed[p].meta)
  <2>1. ed[p].fd = 0
    BY <1>1 DEF Locked, Apart
  <2>2. /\ ed'[p].pc = "open" /\ ed'[p].fd = ed[p].fd
        /\ ed'[p].meta = IF Current(p, f) THEN ed[p].meta
                         ELSE [ino |-> x.hdr.ino, mtime |-> x.hdr.mtime]
    <3> DEFINE e == ed[p]
               t == After(From(p, f), x.recs, n)
    <3>1. DOMAIN e = Fields /\ p \in DOMAIN ed
      BY <1>1 DEF TypeInv, LockInv, Shape
    <3>2. /\ ed'[p].pc = "open" /\ ed'[p].text = t /\ ed'[p].fd = e.fd
          /\ ed'[p].meta = IF Current(p, f) THEN e.meta
                           ELSE [ino |-> x.hdr.ino, mtime |-> x.hdr.mtime]
      BY <3>1 DEF Replay, Fields
    <3> QED BY <3>2
  <2> QED BY <2>1, <2>2 DEF Current
<1>4. Version(m) /\ Versed(m)
  <2>1. CASE m = ed[p].meta
    BY <1>1, <2>1, MetaVersion DEF PlaceInv, Placed
  <2>2. CASE m # ed[p].meta
    <3>1. m.ino = H(f).ino /\ m.mtime = H(f).mtime /\ Version(H(f))
      BY <1>1, <1>3, <2>2, HeaderVersion DEF H
    <3>2. Upto(H(f), Now) /\ Upto(H(f), m) /\ Upto(m, Now)
      BY <1>1, <3>1 DEF PlaceInv, Past, Upto, Older
    <3>3. BaseMatches(f)
      BY <1>3, <2>2 DEF Matches
    <3>4. dir.b # NoBase
      BY <3>3 DEF BaseMatches, NoBase
    <3> QED BY <3>1, <3>2, <3>4 DEF Version, Versed, Lost
  <2> QED BY <2>1, <2>2
<1>5. Upto(Now, Now') /\ baseless \subseteq baseless'
  BY NowStill
<1>6. Past' /\ Orphans' /\ Versed(m)'
  BY <1>2, <1>4, <1>5, TameStill, TameKeeps
<1>7. Sited(ed[p])' /\ Versed(ed[p].meta)'
  BY <1>3, <1>6, SitedFree DEF Versed
<1> QED BY <1>6, <1>7, PlaceOf DEF Placed

(* ... and one that does not fit the file is of an older version of it.      *)
LEMMA Unfit ==
  ASSUME PlaceInv, NEW p \in Editors, ed[p].pc # "out",
         Headed(dir.j), ~HeaderMatches(dir.j, ed[p].meta)
  PROVE  Older(H(dir.j), ed[p].meta)
<1>1. Upto(H(dir.j), ed[p].meta)
  BY DEF PlaceInv, Placed, Versed
<1> QED BY <1>1 DEF HeaderMatches, Headed, H, Upto

LEMMA AnswerPlaced ==
  ASSUME Alone, PlaceInv, NEW p \in Editors, Recover(p) \/ Decline(p)
  PROVE  PlaceInv'
<1>1. TypeInv /\ TypeInv' /\ Locked(ed[p])
  BY AnswerTyped DEF PlaceInv, TypeInv, LockInv
<1>2. UNCHANGED <<disk, dst, dir, cut, baseless>> /\ ed[p].pc = "asked"
      /\ baseless \subseteq baseless'
  BY DEF Recover, Decline, files, log, history
<1>3. ed[p].fd = 0
  BY <1>1, <1>2 DEF Locked, Apart
<1>4. ASSUME UNCHANGED journals, ed'[p].meta = ed[p].meta, Sited(ed[p])'
      PROVE  PlaceInv'
  <2>1. HeadsSame
    BY <1>1, <1>4, HeadsStill
  <2> QED BY <1>1, <1>2, <1>4, <2>1, TameStill, QuietStep
<1>5. CASE UNCHANGED journals /\ GoOn(p)
  <2>1. ed'[p].pc = "edit" /\ ed'[p].fd = 0 /\ ed'[p].meta = ed[p].meta
    BY <1>1, <1>3, <1>5, GoOnFields
  <2> QED BY <1>4, <1>5, <2>1, SitedFree
<1>6. ASSUME dir.j # 0, UNCHANGED journals,
             NEW label, NEW goal,
             ed' = [ed EXCEPT ![p].pc = label, ![p].goal = goal,
                              ![p].fd = dir.j, ![p].held = TRUE]
      PROVE  /\ ed'[p].pc = label /\ ed'[p].goal = goal /\ ed'[p].fd = dir.j
             /\ ed'[p].meta = ed[p].meta
  BY <1>1, <1>6 DEF TypeInv, LockInv, Shape, Fields
<1>7. CASE Decline(p)
  <2>1. UNCHANGED journals
    BY <1>7 DEF Decline, log
  <2>2. CASE dir.j # 0
             /\ ed' = [ed EXCEPT ![p].pc = "dropBase", ![p].fd = dir.j,
                                 ![p].goal = "decline", ![p].held = TRUE]
    <3>1. ed' = [ed EXCEPT ![p].pc = "dropBase", ![p].goal = "decline",
                           ![p].fd = dir.j, ![p].held = TRUE]
      BY <2>2
    <3>2. /\ ed'[p].pc = "dropBase" /\ ed'[p].goal = "decline"
          /\ ed'[p].fd = dir.j /\ ed'[p].meta = ed[p].meta
      BY <1>6, <2>1, <2>2, <3>1
    <3>3. Sited(ed[p])'
      BY <1>2, <3>2 DEF Sited
    <3> QED BY <1>4, <2>1, <3>2, <3>3
  <2> QED BY <1>5, <1>7, <2>1, <2>2 DEF Decline
<1>8. CASE Recover(p)
  <2>1. CASE dir.j # 0 /\ ~Current(p, dir.j) /\ UNCHANGED journals
             /\ ed' = [ed EXCEPT ![p].pc = "oldBase", ![p].goal = "replay",
                                 ![p].fd = dir.j, ![p].held = TRUE]
    <3>1. /\ ed'[p].pc = "oldBase" /\ ed'[p].goal = "replay"
          /\ ed'[p].fd = dir.j /\ ed'[p].meta = ed[p].meta
      BY <1>6, <2>1
    <3>2. Headed(dir.j) => Older(H(dir.j), ed[p].meta)
      BY <1>2, <2>1, Unfit DEF Current
    <3>3. Sited(ed[p])'
      BY <1>2, <2>1, <3>1, <3>2 DEF Sited, Headed, H
    <3> QED BY <1>4, <2>1, <3>1, <3>3
  <2>2. \/ UNCHANGED journals /\ GoOn(p)
        \/ /\ dir.j # 0 /\ Matches(dir.j, ed[p].meta)
           /\ \E n \in Stops(From(p, dir.j), ValidPrefix(journals[dir.j].recs)) :
                Replay(p, dir.j, n)
        \/ dir.j # 0 /\ ~Current(p, dir.j) /\ UNCHANGED journals
           /\ ed' = [ed EXCEPT ![p].pc = "oldBase", ![p].goal = "replay",
                               ![p].fd = dir.j, ![p].held = TRUE]
    BY <1>8, Zenon DEF Recover
  <2> QED BY <1>1, <1>2, <1>5, <2>1, <2>2, ReplayPlaced
<1> QED BY <1>7, <1>8

LEMMA OpenLogPlaced ==
  ASSUME Alone, PlaceInv, NEW p \in Editors, OpenLog(p)
  PROVE  PlaceInv'
<1> DEFINE e == ed[p]
<1>1. TypeInv /\ TypeInv' /\ DOMAIN e = Fields /\ p \in DOMAIN ed
  BY OpenLogTyped DEF PlaceInv, TypeInv, LockInv, Shape
<1>2. UNCHANGED <<disk, dst, baseless>> /\ baseless \subseteq baseless'
      /\ e.pc = "open"
  BY DEF OpenLog, files, history
<1>3. CASE /\ journals' = Append(journals, [hdr |-> NoHeader, recs |-> <<>>,
                                            safe |-> 0])
           /\ Change([dir EXCEPT !.j = Len(journals')])
           /\ ed' = [ed EXCEPT ![p].pc = "lock", ![p].fd = Len(journals'),
                               ![p].goal = "create"]
  <2> DEFINE new == [hdr |-> NoHeader, recs |-> <<>>, safe |-> 0]
  <2>1. new.hdr = NoHeader /\ journals' = Append(journals, new)
    BY <1>3
  <2> HIDE DEF new
  <2>2. HeadsSame
    BY <1>1, <2>1, HeadsCreated
  <2>3. /\ Len(journals') = Len(journals) + 1 /\ Len(journals) \in Nat
        /\ journals'[Len(journals')] = new
    <3>1. Numbered
      BY <1>1 DEF TypeInv, LockInv
    <3> QED BY <2>1, <3>1, LogsAppend
  <2>4. ~Headed(Len(journals))' /\ dir'.j = Len(journals')
    <3>1. H(Len(journals))' = NoHeader
      BY <2>1, <2>3 DEF H
    <3>2. dir'.j = Len(journals')
      BY <1>1, <1>3, DirFields DEF Change
    <3> QED BY <3>1, <3>2 DEF Headed
  <2>5. /\ ed'[p].pc = "lock" /\ ed'[p].fd = Len(journals')
        /\ ed'[p].meta = e.meta /\ ed'[p].goal = "create"
    BY <1>1, <1>3 DEF Fields
  <2>6. Sited(ed[p])'
    BY <2>4, <2>5 DEF Sited, Headed, H
  <2>7. ASSUME NEW d, d = [dir EXCEPT !.j = Len(journals')]
        PROVE  Tame(d, e.meta)
    <3>1. d.j = Len(journals')
      BY <1>1, <2>7, DirFields
    <3> QED BY <2>4, <3>1 DEF Tame, Headed, H
  <2>8. /\ \A c \in cut' : c \in cut \/ Tame(c, e.meta)
        /\ \A c \in {dir'} : Tame(c, e.meta)
    BY <1>3, <2>7, TameTo
  <2> QED BY <1>1, <1>2, <2>2, <2>5, <2>6, <2>8, QuietStep
<1>4. CASE UNCHANGED log /\ dir.j # 0
           /\ ed' = [ed EXCEPT ![p].pc = "adopt", ![p].fd = dir.j]
  <2>1. UNCHANGED <<journals, dir, cut>>
    BY <1>4 DEF log
  <2>2. /\ ed'[p].pc = "adopt" /\ ed'[p].fd = dir.j /\ ed'[p].meta = e.meta
    BY <1>1, <1>4 DEF Fields
  <2>3. Sited(ed[p])'
    BY <2>1, <2>2, SitedFree
  <2> QED BY <1>1, <1>2, <2>1, <2>2, <2>3, HeadsStill, TameStill, QuietStep
<1>5. CASE UNCHANGED log /\ Close(p, "stuck")
  <2>1. UNCHANGED <<journals, dir, cut>>
    BY <1>5 DEF log
  <2> QED BY <1>1, <1>2, <1>5, <2>1, HeadsStill, TameStill, ClosePlaced
<1> QED BY <1>3, <1>4, <1>5 DEF OpenLog

LEMMA LockPlaced ==
  ASSUME Alone, PlaceInv, NEW p \in Editors, Lock(p)
  PROVE  PlaceInv'
<1> DEFINE e == ed[p]
<1>1. /\ TypeInv /\ TypeInv' /\ DOMAIN e = Fields /\ p \in DOMAIN ed
      /\ Locked(e)
  BY LockTyped DEF PlaceInv, TypeInv, LockInv, Shape
<1>2. UNCHANGED <<disk, dst, journals, baseless>> /\ baseless \subseteq baseless'
      /\ e.pc = "lock"
  BY DEF Lock, files, log, history
<1>3. HeadsSame
  BY <1>1, <1>2, HeadsStill
<1>4. CASE UNCHANGED log
           /\ ed' = [ed EXCEPT ![p].held = TRUE, ![p].pc = "oldBase"]
  <2>1. UNCHANGED <<dir, cut>>
    BY <1>4 DEF log
  <2>2. /\ ed'[p].pc = "oldBase" /\ ed'[p].fd = e.fd /\ ed'[p].meta = e.meta
        /\ ed'[p].goal = e.goal
    BY <1>1, <1>4 DEF Fields
  <2>3. dir.j = e.fd /\ ~Headed(e.fd)
    BY <1>1, <1>2 DEF PlaceInv, Placed, Sited, Locked, Reaching
  <2>4. Sited(ed[p])'
    BY <1>2, <2>1, <2>2, <2>3 DEF Sited, Headed, H
  <2> QED BY <1>1, <1>2, <1>3, <2>1, <2>2, <2>4, TameStill, QuietStep
<1>5. CASE Change([dir EXCEPT !.j = 0]) /\ Close(p, "stuck")
  <2>1. ASSUME NEW d, d = [dir EXCEPT !.j = 0] PROVE Tame(d, e.meta)
    <3>1. d.j = 0
      BY <1>1, <2>1, DirFields
    <3> QED BY <3>1 DEF Tame, Headed
  <2>2. /\ \A c \in cut' : c \in cut \/ Tame(c, e.meta)
        /\ \A c \in {dir'} : Tame(c, e.meta)
    BY <1>5, <2>1, TameTo
  <2> QED BY <1>1, <1>2, <1>3, <1>5, <2>2, ClosePlaced
<1> QED BY <1>4, <1>5 DEF Lock

LEMMA AdoptPlaced ==
  ASSUME Alone, PlaceInv, NEW p \in Editors, Adopt(p)
  PROVE  PlaceInv'
<1> DEFINE e == ed[p]
           f == e.fd
           x == journals[f]
           r == ValidPrefix(x.recs)
<1>1. /\ TypeInv /\ TypeInv' /\ DOMAIN e = Fields /\ p \in DOMAIN ed
      /\ Locked(e)
  BY AdoptTyped DEF PlaceInv, TypeInv, LockInv, Shape
<1>2. UNCHANGED <<disk, dst, dir, cut, baseless>> /\ baseless \subseteq baseless'
      /\ e.pc = "adopt"
  BY DEF Adopt, files, history
<1>3. f = dir.j /\ f \in 1 .. Len(journals)
  <2>1. f # 0 /\ dir.j = f
    BY <1>1, <1>2 DEF PlaceInv, Placed, Sited, Locked, Reaching
  <2> QED BY <1>1, <2>1, DirLog
<1>4. CASE /\ HeaderMatches(f, e.meta)
           /\ ed' = [ed EXCEPT ![p].pc = "edit", ![p].held = TRUE]
           /\ \/ UNCHANGED journals
              \/ SetJournal(f, [x EXCEPT !.recs = r, !.safe = Len(r) + 1])
  <2>1. HeadsSame
    <3>1. CASE UNCHANGED journals
      BY <1>1, <3>1, HeadsStill
    <3>2. CASE SetJournal(f, [x EXCEPT !.recs = r, !.safe = Len(r) + 1])
      <4> DEFINE new == [x EXCEPT !.recs = r, !.safe = Len(r) + 1]
      <4>1. new.hdr = x.hdr
        BY <1>1, <1>3, LogOf DEF GoodLog
      <4>2. SetJournal(f, new)
        BY <3>2
      <4> HIDE DEF new
      <4> QED BY <1>1, <1>3, <4>1, <4>2, HeadsSet
    <3> QED BY <1>4, <3>1, <3>2
  <2>2. /\ ed'[p].pc = "edit" /\ ed'[p].fd = f /\ ed'[p].meta = e.meta
    BY <1>1, <1>4 DEF Fields
  <2>3. Headed(f) /\ ~Older(H(dir.j), e.meta)
    <3>1. H(f) # NoHeader /\ H(f).ino = e.meta.ino /\ H(f).mtime = e.meta.mtime
      BY <1>4 DEF HeaderMatches, H
    <3>2. Version(e.meta) /\ f # 0
      BY <1>1, <1>3, MetaVersion
    <3> QED BY <1>3, <3>1, <3>2 DEF Headed, Older, Version
  <2>4. dir.b # NoBase \/ dir.j \in baseless
    <3>1. ~Lost(dir)
      BY <1>2, <2>3 DEF PlaceInv, Placed, Versed
    <3> QED BY <1>3, <2>3, <3>1 DEF Lost
  <2>5. ASSUME NEW g, g = f PROVE Headed(g)'
    BY <1>3, <2>1, <2>3, <2>5 DEF Headed, HeadsSame
  <2>6. Sited(ed[p])'
    BY <1>2, <1>3, <2>2, <2>4, <2>5 DEF Sited, Headed, H
  <2> QED BY <1>1, <1>2, <2>1, <2>2, <2>6, TameStill, QuietStep
<1>5. CASE /\ UNCHANGED journals /\ ~HeaderMatches(f, e.meta)
           /\ ed' = [ed EXCEPT ![p].pc = "oldBase", ![p].goal = "again",
                               ![p].held = TRUE]
  <2>1. /\ ed'[p].pc = "oldBase" /\ ed'[p].fd = f /\ ed'[p].meta = e.meta
        /\ ed'[p].goal = "again"
    BY <1>1, <1>5 DEF Fields
  <2>2. Headed(f) => Older(H(f), e.meta)
    BY <1>2, <1>3, <1>5, Unfit
  <2>3. Sited(ed[p])'
    BY <1>2, <1>3, <1>5, <2>1, <2>2 DEF Sited, Headed, H
  <2> QED BY <1>1, <1>2, <1>5, <2>1, <2>3, HeadsStill, TameStill, QuietStep
<1>6. CASE UNCHANGED journals /\ Close(p, "stuck")
  BY <1>1, <1>2, <1>6, HeadsStill, TameStill, ClosePlaced
<1> QED BY <1>4, <1>5, <1>6 DEF Adopt

(* Preserving under .stale names: the base goes only beside a journal of an  *)
(* older version, or one that has no header yet.                             *)
LEMMA NotPreservedPlaced ==
  ASSUME Alone, PlaceInv, NEW p \in Editors, TypeInv', NotPreserved(p),
         UNCHANGED <<disk, dst, journals, baseless>>, ed[p].pc # "out"
  PROVE  PlaceInv'
<1>1. TypeInv /\ HeadsSame /\ baseless \subseteq baseless'
  BY HeadsStill DEF PlaceInv
<1>2. CASE GiveUp(p, FALSE)
  <2>1. Close(p, "stuck")
    BY <1>2 DEF GiveUp
  <2>2. /\ \A d \in cut' : d \in cut \/ Tame(d, ed[p].meta)
        /\ \A d \in {dir'} : Tame(d, ed[p].meta)
    BY <1>1, <1>2, TameGiveUp
  <2> QED BY <1>1, <2>1, <2>2, ClosePlaced
<1>3. CASE (Close(p, "stuck") \/ Close(p, "edit")) /\ UNCHANGED <<dir, cut>>
  BY <1>1, <1>3, TameStill, ClosePlaced
<1> QED BY <1>2, <1>3 DEF NotPreserved

LEMMA PreserveBasePlaced ==
  ASSUME Alone, PlaceInv, NEW p \in Editors, PreserveBase(p)
  PROVE  PlaceInv'
<1> DEFINE e == ed[p]
<1>1. TypeInv /\ TypeInv' /\ Sited(e) /\ GoodEd(e)
  BY PreserveTyped DEF PlaceInv, TypeInv, EdsOK, Placed
<1>2. UNCHANGED <<disk, dst, journals, baseless>> /\ baseless \subseteq baseless'
      /\ e.pc = "oldBase"
  BY DEF PreserveBase, files, history
<1>3. HeadsSame
  BY <1>1, <1>2, HeadsStill
<1>4. dir.j = e.fd
  BY <1>1, <1>2 DEF Sited, GoodEd, Inside
<1>5. CASE dir.b = NoBase /\ UNCHANGED <<dir, cut>>
           /\ Goto(p, IF e.goal = "create" THEN "base" ELSE "oldLog")
  <2>1. /\ ed'[p].pc = IF e.goal = "create" THEN "base" ELSE "oldLog"
        /\ ed'[p].fd = e.fd /\ ed'[p].meta = e.meta
    BY <1>1, <1>5, GotoFields
  <2>2. Sited(ed[p])'
    <3>1. CASE e.goal = "create"
      BY <1>1, <1>2, <1>4, <1>5, <2>1, <3>1 DEF Sited, Headed, H
    <3>2. CASE e.goal # "create"
      BY <1>4, <1>5, <2>1, <3>2, SitedFree
    <3> QED BY <3>1, <3>2
  <2> QED BY <1>1, <1>2, <1>3, <1>5, <2>1, <2>2, TameStill, QuietStep
<1>6. CASE dir.b # NoBase /\ Change([dir EXCEPT !.oldb = @ \cup {dir.b}])
           /\ Goto(p, "oldBase2")
  <2>1. ASSUME NEW d, d = [dir EXCEPT !.oldb = @ \cup {dir.b}]
        PROVE  Tame(d, e.meta) /\ d.j = dir.j
    <3>1. d.j = dir.j /\ d.b = dir.b
      BY <1>1, <2>1, DirFields
    <3> QED BY <3>1 DEF Tame
  <2>2. /\ \A c \in cut' : c \in cut \/ Tame(c, e.meta)
        /\ \A c \in {dir'} : Tame(c, e.meta)
        /\ dir'.j = dir.j
    BY <1>6, <2>1, TameTo DEF Change
  <2>3. /\ ed'[p].pc = "oldBase2" /\ ed'[p].goal = e.goal
        /\ ed'[p].fd = e.fd /\ ed'[p].meta = e.meta
    BY <1>1, <1>6, GotoFields
  <2>4. Sited(ed[p])'
    BY <1>1, <1>2, <1>4, <2>2, <2>3 DEF Sited, Headed, H
  <2> QED BY <1>1, <1>2, <1>3, <2>2, <2>3, <2>4, QuietStep
<1>7. CASE NotPreserved(p)
  BY <1>1, <1>2, <1>7, NotPreservedPlaced
<1> QED BY <1>5, <1>6, <1>7 DEF PreserveBase

LEMMA PreserveBase2Placed ==
  ASSUME Alone, PlaceInv, NEW p \in Editors, PreserveBase2(p)
  PROVE  PlaceInv'
<1> DEFINE e == ed[p]
<1>1. TypeInv /\ TypeInv' /\ Sited(e) /\ GoodEd(e)
  BY PreserveTyped DEF PlaceInv, TypeInv, EdsOK, Placed
<1>2. UNCHANGED <<disk, dst, journals, baseless>> /\ baseless \subseteq baseless'
      /\ e.pc = "oldBase2"
  BY DEF PreserveBase2, files, history
<1>3. HeadsSame
  BY <1>1, <1>2, HeadsStill
<1>4. dir.j = e.fd
  BY <1>1, <1>2 DEF Sited, GoodEd, Inside
<1>5. Headed(dir.j) => Older(H(dir.j), e.meta)
  BY <1>1, <1>2, <1>4 DEF Sited
<1>6. ASSUME NEW d, d.j \in {0, dir.j} PROVE Tame(d, e.meta)
  BY <1>2, <1>5, <1>6 DEF Tame, Headed, H
<1>7. CASE /\ Commit([dir EXCEPT !.b = NoBase])
           /\ Goto(p, IF e.goal = "create" THEN "base" ELSE "oldLog")
  <2>1. ASSUME NEW d, d = [dir EXCEPT !.b = NoBase]
        PROVE  Tame(d, e.meta) /\ d.j = dir.j /\ d.b = NoBase
    <3>1. d.j = dir.j /\ d.b = NoBase
      BY <1>1, <2>1, DirFields
    <3> QED BY <1>6, <3>1
  <2>2. /\ \A c \in cut' : c \in cut \/ Tame(c, e.meta)
        /\ \A c \in {dir'} : Tame(c, e.meta)
        /\ dir'.j = dir.j /\ dir'.b = NoBase
    BY <1>7, <2>1, TameTo DEF Commit
  <2>3. /\ ed'[p].pc = IF e.goal = "create" THEN "base" ELSE "oldLog"
        /\ ed'[p].fd = e.fd /\ ed'[p].meta = e.meta
    BY <1>1, <1>7, GotoFields
  <2>4. Sited(ed[p])'
    <3>1. CASE e.goal = "create"
      BY <1>1, <1>2, <1>4, <2>2, <2>3, <3>1 DEF Sited, Headed, H
    <3>2. CASE e.goal # "create"
      BY <1>4, <2>2, <2>3, <3>2, SitedFree
    <3> QED BY <3>1, <3>2
  <2> QED BY <1>1, <1>2, <1>3, <2>2, <2>3, <2>4, QuietStep
<1>8. CASE /\ Close(p, "edit") \/ Close(p, "stuck")
           /\ LET d == [dir EXCEPT !.b = NoBase,
                           !.j = IF e.goal = "create" THEN 0 ELSE @] IN
              dir' = d /\ cut' = cut \cup {d, [dir EXCEPT !.b = NoBase]}
  <2> DEFINE D == {[dir EXCEPT !.b = NoBase,
                       !.j = IF e.goal = "create" THEN 0 ELSE @],
                   [dir EXCEPT !.b = NoBase]}
  <2>1. ASSUME NEW d \in D PROVE Tame(d, e.meta)
    <3>1. d.j \in {0, dir.j}
      BY <1>1, DirFields
    <3> QED BY <1>6, <3>1
  <2>2. dir' \in D /\ cut' = cut \cup D
    BY <1>8
  <2> HIDE DEF D
  <2>3. /\ \A c \in cut' : c \in cut \/ Tame(c, e.meta)
        /\ \A c \in {dir'} : Tame(c, e.meta)
    BY <2>1, <2>2
  <2> QED BY <1>1, <1>2, <1>3, <1>8, <2>3, ClosePlaced
<1> QED BY <1>7, <1>8 DEF PreserveBase2

LEMMA PreserveLogPlaced ==
  ASSUME Alone, PlaceInv, NEW p \in Editors, PreserveLog(p) \/ PreserveLog2(p)
  PROVE  PlaceInv'
<1> DEFINE e == ed[p]
<1>1. /\ TypeInv /\ TypeInv' /\ Sited(e) /\ GoodEd(e)
      /\ DOMAIN e = Fields /\ p \in DOMAIN ed
  BY PreserveTyped DEF PlaceInv, TypeInv, EdsOK, Placed, LockInv, Shape
<1>2. UNCHANGED <<disk, dst, journals, baseless>> /\ baseless \subseteq baseless'
      /\ e.pc \in {"oldLog", "oldLog2"}
  BY DEF PreserveLog, PreserveLog2, files, history
<1>3. HeadsSame
  BY <1>1, <1>2, HeadsStill
<1>4. dir.j = e.fd
  BY <1>1, <1>2 DEF Sited, GoodEd, Inside
<1>5. ASSUME NEW d, \/ d = [dir EXCEPT !.j = 0]
                    \/ d = [dir EXCEPT !.oldj = @ \cup {dir.j}]
                    \/ d = [dir EXCEPT !.oldj = @ \ {e.fd}]
      PROVE  Tame(d, e.meta)
  <2>1. d.j = 0 \/ (d.j = dir.j /\ d.b = dir.b)
    BY <1>1, <1>5, DirFields
  <2> QED BY <2>1 DEF Tame, Headed
<1>6. CASE PreserveLog(p)
  <2>1. CASE Change([dir EXCEPT !.oldj = @ \cup {dir.j}]) /\ Goto(p, "oldLog2")
    <3>1. /\ \A c \in cut' : c \in cut \/ Tame(c, e.meta)
          /\ \A c \in {dir'} : Tame(c, e.meta)
      BY <1>5, <2>1, TameTo
    <3>2. dir'.j = dir.j
      BY <1>1, <2>1, DirFields DEF Change
    <3>3. ed'[p].pc = "oldLog2" /\ ed'[p].fd = e.fd /\ ed'[p].meta = e.meta
      BY <1>1, <2>1, GotoFields
    <3>4. Sited(ed[p])'
      BY <1>4, <3>2, <3>3, SitedFree
    <3> QED BY <1>1, <1>2, <1>3, <3>1, <3>3, <3>4, QuietStep
  <2>2. CASE NotPreserved(p)
    BY <1>1, <1>2, <2>2, NotPreservedPlaced
  <2> QED BY <1>6, <2>1, <2>2 DEF PreserveLog
<1>7. CASE PreserveLog2(p)
  <2>1. /\ \A c \in cut' : c \in cut \/ Tame(c, e.meta)
        /\ \A c \in {dir'} : Tame(c, e.meta)
    <3>1. \/ Commit([dir EXCEPT !.j = 0]) \/ Change([dir EXCEPT !.j = 0])
          \/ Change([dir EXCEPT !.oldj = @ \ {e.fd}])
      BY <1>7 DEF PreserveLog2
    <3> QED BY <1>5, <3>1, TameTo
  <2>2. CASE ed' = [ed EXCEPT ![p].fd = 0, ![p].held = FALSE,
                ![p].pc = IF ed[p].goal = "again" THEN "open" ELSE "edit"]
    <3>1. ed'[p].pc \in {"open", "edit"} /\ ed'[p].fd = 0
          /\ ed'[p].meta = e.meta
      BY <1>1, <2>2 DEF Fields
    <3>2. Sited(ed[p])'
      BY <3>1, SitedFree
    <3> QED BY <1>1, <1>2, <1>3, <2>1, <3>1, <3>2, QuietStep
  <2>3. CASE Close(p, "stuck") \/ Close(p, "edit")
    BY <1>1, <1>2, <1>3, <2>1, <2>3, ClosePlaced
  <2> QED BY <1>7, <2>2, <2>3 DEF PreserveLog2
<1> QED BY <1>6, <1>7

(* The base and the header of a journal that has just been created.          *)
LEMMA GiveUpPlaced ==
  ASSUME Alone, PlaceInv, NEW p \in Editors, TypeInv', NEW base,
         GiveUp(p, base), UNCHANGED <<disk, dst, journals, baseless>>,
         ed[p].pc # "out"
  PROVE  PlaceInv'
<1>1. TypeInv /\ HeadsSame /\ baseless \subseteq baseless'
  BY HeadsStill DEF PlaceInv
<1>2. Close(p, "stuck")
  BY DEF GiveUp
<1>3. /\ \A d \in cut' : d \in cut \/ Tame(d, ed[p].meta)
      /\ \A d \in {dir'} : Tame(d, ed[p].meta)
  BY <1>1, TameGiveUp
<1> QED BY <1>1, <1>2, <1>3, ClosePlaced

LEMMA CreateBasePlaced ==
  ASSUME Alone, PlaceInv, NEW p \in Editors, CreateBase(p)
  PROVE  PlaceInv'
<1> DEFINE e == ed[p]
           b == NewBase(p)
<1>1. /\ TypeInv /\ TypeInv' /\ Sited(e) /\ GoodEd(e)
      /\ DOMAIN e = Fields /\ p \in DOMAIN ed
  BY CreateBaseTyped DEF PlaceInv, TypeInv, EdsOK, Placed, LockInv, Shape
<1>2. UNCHANGED <<disk, dst, journals, baseless>> /\ baseless \subseteq baseless'
      /\ e.pc = "base"
  BY DEF CreateBase, files, history
<1>3. HeadsSame
  BY <1>1, <1>2, HeadsStill
<1>4. dir.j = e.fd /\ ~Headed(e.fd) /\ dir.b = NoBase
  BY <1>1, <1>2 DEF Sited, GoodEd, Inside
<1>5. b # NoBase
  BY <1>1, NewBaseGood
<1> HIDE DEF b
<1>6. CASE /\ Commit([dir EXCEPT !.b = b])
           /\ ed' = [ed EXCEPT ![p].pc = "header", ![p].base = b]
  <2>1. ASSUME NEW d, d = [dir EXCEPT !.b = b]
        PROVE  Tame(d, e.meta) /\ d.j = dir.j /\ d.b = b
    <3>1. d.j = dir.j /\ d.b = b
      BY <1>1, <2>1, DirFields
    <3> QED BY <1>5, <3>1 DEF Tame
  <2>2. /\ \A c \in cut' : c \in cut \/ Tame(c, e.meta)
        /\ \A c \in {dir'} : Tame(c, e.meta)
    BY <1>6, <2>1, TameTo
  <2>3. dir'.j = dir.j /\ \A c \in cut' : c.b # NoBase
    BY <1>5, <1>6, <2>1 DEF Commit
  <2>4. ed'[p].pc = "header" /\ ed'[p].fd = e.fd /\ ed'[p].meta = e.meta
    BY <1>1, <1>6 DEF Fields
  <2>5. Sited(ed[p])'
    BY <1>2, <1>4, <2>3, <2>4 DEF Sited, Headed, H
  <2> QED BY <1>1, <1>2, <1>3, <2>2, <2>4, <2>5, QuietStep
<1>7. CASE \E y : GiveUp(p, y)
  BY <1>1, <1>2, <1>7, GiveUpPlaced
<1> QED BY <1>4, <1>5, <1>6, <1>7 DEF CreateBase, Based, b

(* The header: the only step that writes one, beside a base, of the version  *)
(* that was loaded.                                                          *)
LEMMA HeaderPlaced ==
  ASSUME Alone, PlaceInv, NEW p \in Editors, WriteHeader(p)
  PROVE  PlaceInv'
<1> DEFINE e == ed[p]
           f == e.fd
           x == journals[f]
           h == [ino |-> e.meta.ino, mtime |-> e.meta.mtime, base |-> e.base]
           new == [x EXCEPT !.hdr = h]
<1>1. /\ TypeInv /\ TypeInv' /\ Sited(e) /\ GoodEd(e) /\ Versed(e.meta)
      /\ DOMAIN e = Fields /\ p \in DOMAIN ed /\ e.pc = "header"
  BY HeaderTyped DEF PlaceInv, TypeInv, EdsOK, Placed, LockInv, Shape, WriteHeader
<1>2. UNCHANGED <<disk, dst, baseless>> /\ Now' = Now
  BY NowStill DEF WriteHeader, files, history
<1>3. /\ dir.j = f /\ ~Headed(f) /\ f # 0 /\ f \in 1 .. Len(journals)
      /\ \A d \in cut : d.j = f => d.b # NoBase
  <2>1. dir.j = f /\ ~Headed(f) /\ f # 0
        /\ \A d \in cut : d.j = f => d.b # NoBase
    BY <1>1 DEF Sited, GoodEd, Inside
  <2> QED BY <1>1, <2>1, DirLog
<1>4. CASE GiveUp(p, TRUE) /\ UNCHANGED journals
  BY <1>1, <1>2, <1>4, GiveUpPlaced
<1>5. CASE /\ SetJournal(f, new) /\ UNCHANGED <<dir, cut>>
           /\ ed' = [ed EXCEPT ![p].pc = "barrier", ![p].base = NoBase]
  <2>1. new.hdr = h
    BY <1>1, <1>3, LogOf DEF GoodLog
  <2> HIDE DEF new
  <2>2. /\ Len(journals') = Len(journals) /\ Len(journals) \in Nat
        /\ \A g \in 1 .. Len(journals) :
             journals'[g] = IF g = f THEN new ELSE journals[g]
    BY <1>1, <1>3, <1>5, LogsSet, LogsSeq DEF TypeInv, LockInv
  <2>3. \A g \in 1 .. Len(journals) : H(g)' = IF g = f THEN h ELSE H(g)
    BY <2>1, <2>2 DEF H
  <2>4. h # NoHeader /\ h.ino = e.meta.ino /\ h.mtime = e.meta.mtime
    <3>1. h.base # NoHeader.base
      BY <1>1 DEF GoodEd, NoHeader
    <3> QED BY <3>1
  <2> HIDE DEF h
  <2>5. ed'[p].pc = "barrier" /\ ed'[p].fd = f /\ ed'[p].meta = e.meta
    BY <1>1, <1>5 DEF Fields
  <2>6. Upto(h, e.meta) /\ Upto(h, Now)
    BY <1>1, <2>4 DEF Versed, Upto, Older
  <2>7. Past'
    <3> SUFFICES ASSUME NEW g \in 1 .. Len(journals'), Headed(g)'
                 PROVE  Upto(H(g)', Now)
      BY <1>2 DEF Past
    <3>1. CASE g = f
      BY <2>2, <2>3, <2>6, <3>1
    <3>2. CASE g # f
      <4>1. Headed(g) /\ H(g)' = H(g)
        BY <2>2, <2>3, <3>2 DEF Headed
      <4> QED BY <2>2, <4>1 DEF PlaceInv, Past
    <3> QED BY <3>1, <3>2
  <2>8. ASSUME NEW d \in cut, Lost(d)'
        PROVE  d.j # f /\ Lost(d) /\ H(d.j)' = H(d.j)
    <3>1. d.j # 0 /\ d.j \in 1 .. Len(journals) /\ d.j # f /\ d.b = NoBase
          /\ d.j \notin baseless
      BY <1>1, <1>2, <1>3, <2>8, <2>2
      DEF Lost, Headed, TypeInv, DirsOK, GoodDir
    <3> QED BY <2>3, <2>8, <3>1 DEF Lost, Headed
  <2>9. Orphans'
    <3> SUFFICES ASSUME NEW d \in cut', Lost(d)' PROVE Older(H(d.j)', Now)
      BY <1>2 DEF Orphans
    <3>1. d \in cut
      BY <1>5
    <3> QED BY <2>8, <3>1 DEF PlaceInv, Orphans
  <2>10. Versed(ed[p].meta)'
    <3>1. ASSUME NEW g, g = f PROVE H(g)' = h /\ dir'.j = g
      BY <1>3, <1>5, <2>3, <3>1
    <3>2. H(dir.j)' = h
      BY <3>1 DEF H
    <3>3. ~Lost(dir)'
      <4>1. ASSUME NEW d, d = dir, Lost(d)' PROVE FALSE
        <5>1. d \in cut
          BY <1>1, <4>1 DEF TypeInv, DirsOK
        <5> QED BY <1>3, <2>8, <4>1, <5>1
      <4> QED BY <1>5, <4>1 DEF Lost, Headed, H
    <3>4. Upto(e.meta, Now)
      BY <1>1 DEF Versed
    <3> QED BY <1>2, <2>5, <2>6, <3>2, <3>3, <3>4 DEF Versed
  <2>11. Sited(ed[p])'
    BY <1>1, <1>3, <1>5, <2>5 DEF Sited
  <2> QED BY <1>1, <2>7, <2>9, <2>10, <2>11, PlaceOf DEF Placed
<1> QED BY <1>4, <1>5 DEF WriteHeader

LEMMA BarrierPlaced ==
  ASSUME Alone, PlaceInv, NEW p \in Editors, Barrier(p)
  PROVE  PlaceInv'
<1> DEFINE e == ed[p]
           f == e.fd
           x == journals[f]
<1>1. TypeInv /\ TypeInv' /\ Sited(e) /\ GoodEd(e) /\ e.pc = "barrier"
  BY HeaderTyped DEF PlaceInv, TypeInv, EdsOK, Placed, Barrier
<1>2. UNCHANGED <<disk, dst, baseless>> /\ baseless \subseteq baseless'
  BY DEF Barrier, files, history
<1>3. /\ dir.j = f /\ f # 0 /\ f \in 1 .. Len(journals) /\ Headed(f)
      /\ \A d \in cut : d.j = f => d.b # NoBase
  <2>1. dir.j = f /\ f # 0 /\ \A d \in cut : d.j = f => d.b # NoBase
    BY <1>1 DEF Sited, GoodEd, Inside
  <2>2. Headed(f)
    BY <1>1, <2>1 DEF GoodEd, Headed, H
  <2> QED BY <1>1, <2>1, <2>2, DirLog
<1>4. CASE GiveUp(p, TRUE) /\ UNCHANGED journals
  BY <1>1, <1>2, <1>4, GiveUpPlaced
<1>5. CASE /\ SetJournal(f, [x EXCEPT !.safe = 1])
           /\ Commit(dir) /\ Goto(p, "edit")
  <2> DEFINE new == [x EXCEPT !.safe = 1]
  <2>1. new.hdr = x.hdr
    BY <1>1, <1>3, LogOf DEF GoodLog
  <2>2. SetJournal(f, new)
    BY <1>5
  <2> HIDE DEF new
  <2>3. HeadsSame
    BY <1>1, <1>3, <2>1, <2>2, HeadsSet
  <2>4. /\ ed'[p].pc = "edit" /\ ed'[p].fd = f /\ ed'[p].meta = e.meta
    BY <1>1, <1>5, GotoFields
  <2>5. dir' = dir /\ dir.b # NoBase
    BY <1>1, <1>3, <1>5 DEF Commit, TypeInv, DirsOK
  <2>6. ASSUME NEW g, g = f PROVE Headed(g)'
    BY <1>3, <2>3, <2>6 DEF Headed, HeadsSame
  <2>7. Sited(ed[p])'
    BY <1>3, <2>4, <2>5, <2>6 DEF Sited, Headed, H
  <2>8. ASSUME NEW d, d = dir PROVE Tame(d, e.meta)
    BY <2>8 DEF Tame
  <2>9. /\ \A c \in cut' : c \in cut \/ Tame(c, e.meta)
        /\ \A c \in {dir'} : Tame(c, e.meta)
    BY <1>5, <2>8, TameTo
  <2> QED BY <1>1, <1>2, <2>3, <2>4, <2>7, <2>9, QuietStep
<1> QED BY <1>4, <1>5 DEF Barrier

LEMMA EditPlaced ==
  ASSUME Alone, PlaceInv, NEW p \in Editors, Record(p) \/ Sync(p)
  PROVE  PlaceInv'
<1> DEFINE e == ed[p]
           f == e.fd
           x == journals[f]
<1>1. /\ TypeInv /\ TypeInv' /\ Sited(e)
      /\ DOMAIN e = Fields /\ p \in DOMAIN ed /\ e.pc = "edit" /\ f # 0
  BY EditTyped DEF PlaceInv, TypeInv, EdsOK, Placed, LockInv, Shape, Record,
                   Sync, Ready
<1>2. UNCHANGED <<disk, dst, dir, cut, baseless>> /\ baseless \subseteq baseless'
  BY DEF Record, Sync, files, history
<1>3. /\ dir.j = f /\ f \in 1 .. Len(journals) /\ Headed(f)
      /\ (dir.b # NoBase \/ dir.j \in baseless)
  <2>1. dir.j = f /\ Headed(f) /\ (dir.b # NoBase \/ dir.j \in baseless)
    BY <1>1 DEF Sited
  <2> QED BY <1>1, <2>1, DirLog
<1>4. HeadsSame
  <2>1. CASE UNCHANGED journals
    BY <1>1, <2>1, HeadsStill
  <2>2. ASSUME NEW new, SetJournal(f, new), new.hdr = x.hdr PROVE HeadsSame
    BY <1>1, <1>3, <2>2, HeadsSet
  <2>3. DOMAIN x = {"hdr", "recs", "safe"}
    BY <1>1, <1>3, LogOf DEF GoodLog
  <2>4. ASSUME NEW r, SetJournal(f, [x EXCEPT !.recs = Append(@, r)])
        PROVE  HeadsSame
    <3> DEFINE new == [x EXCEPT !.recs = Append(@, r)]
    <3>1. new.hdr = x.hdr /\ SetJournal(f, new)
      BY <2>3, <2>4
    <3> HIDE DEF new
    <3> QED BY <2>2, <3>1
  <2>5. CASE SetJournal(f, [x EXCEPT !.safe = Size(x)])
    <3> DEFINE new == [x EXCEPT !.safe = Size(x)]
    <3>1. new.hdr = x.hdr /\ SetJournal(f, new)
      BY <2>3, <2>5
    <3> HIDE DEF new
    <3> QED BY <2>2, <3>1
  <2> QED BY <2>1, <2>4, <2>5 DEF Record, Sync
<1>5. ed'[p].pc = "edit" /\ ed'[p].fd = f /\ ed'[p].meta = e.meta
  <2>1. CASE Record(p)
    <3> DEFINE t == Append(e.text, clock + 1)
    <3>1. PICK pr : \/ ed' = [ed EXCEPT ![p].text = t, ![p].synced = FALSE,
                                        ![p].prot = pr]
                    \/ ed' = [ed EXCEPT ![p].text = t, ![p].bad = TRUE]
      BY <2>1, Zenon DEF Record
    <3> HIDE DEF t
    <3> QED BY <1>1, <3>1 DEF Fields
  <2>2. CASE Sync(p)
    <3>1. PICK pr : \/ ed' = [ed EXCEPT ![p].synced = TRUE, ![p].prot = pr]
                    \/ ed' = [ed EXCEPT ![p].bad = TRUE]
      BY <2>2, Zenon DEF Sync
    <3> QED BY <1>1, <3>1 DEF Fields
  <2> QED BY <2>1, <2>2
<1>6. ASSUME NEW g, g = f PROVE Headed(g)'
  BY <1>3, <1>4, <1>6 DEF Headed, HeadsSame
<1>7. Sited(ed[p])'
  BY <1>2, <1>3, <1>5, <1>6 DEF Sited, Headed, H
<1> QED BY <1>1, <1>2, <1>4, <1>5, <1>7, TameStill, QuietStep

(* A new version of the file is newer than any there has been.               *)
LEMMA NewerNow ==
  ASSUME PlaceInv, TypeInv', Older(Now, Now'), UNCHANGED <<journals, dir, cut>>,
         baseless \subseteq baseless'
  PROVE  /\ Past' /\ Orphans' /\ HeadsSame
         /\ \A f \in 1 .. Len(journals) : Headed(f) => Older(H(f), Now')
         /\ \A m : Version(m) /\ Versed(m) => Versed(m)'
<1>1. TypeInv /\ Version(Now) /\ Version(Now') /\ Upto(Now, Now')
  <2>1. Version(Now) /\ Version(Now)'
    BY NowVersion, PTL DEF PlaceInv
  <2> QED BY <2>1 DEF PlaceInv, Version, Upto
<1>2. HeadsSame
  BY <1>1, HeadsStill
<1>3. ASSUME NEW m, Version(m), Versed(m) PROVE Past' /\ Orphans' /\ Versed(m)'
  BY <1>1, <1>2, <1>3, TameStill, TameKeeps
<1>4. Versed(Now) /\ Version(Now)
  BY <1>1, VersedNow DEF PlaceInv
<1>5. ASSUME NEW m, m = Now PROVE Past' /\ Orphans'
  BY <1>3, <1>4, <1>5
<1>6. Past' /\ Orphans'
  BY <1>5 DEF Past, Orphans
<1>7. ASSUME NEW f \in 1 .. Len(journals), Headed(f) PROVE Older(H(f), Now')
  BY <1>1, <1>7, HeaderVersion, UptoOlder DEF PlaceInv, Past
<1> QED BY <1>2, <1>3, <1>6, <1>7

(* The version of the file after a save, or after another program.           *)
LEMMA NowReplaced ==
  ASSUME FilesOK, clock < MaxClock, clock' = clock + 1,
         NEW t \in Texts, disk' = Append(disk, [text |-> t, mtime |-> clock']),
         dst' = Len(disk')
  PROVE  Older(Now, Now')
<1>1. Len(disk') = Len(disk) + 1 /\ Len(disk) \in Nat
  BY ClockBound, FileReplaced, LenProperties DEF FilesOK
<1>2. dst \in Nat /\ dst < dst'
  BY <1>1 DEF FilesOK
<1> QED BY <1>2 DEF Older, Now, MetaOf

LEMMA NowWritten ==
  ASSUME FilesOK, clock < MaxClock, clock' = clock + 1, dst # 0, dst' = dst,
         NEW x \in [text : Texts, mtime : Nat], x.mtime = clock',
         disk' = [disk EXCEPT ![dst] = x]
  PROVE  Older(Now, Now')
<1>1. MaxClock \in Nat /\ clock \in Nat /\ dst \in 1 .. Len(disk)
  BY ClockBound DEF FilesOK
<1>2. disk'[dst] = x /\ dst # 0 /\ dst \in Nat
  <2>1. DOMAIN disk = 1 .. Len(disk)
    BY LenProperties DEF FilesOK
  <2> QED BY <1>1, <2>1
<1>3. At(dst).mtime \in Nat /\ At(dst).mtime <= clock
  BY <1>1 DEF At, FilesOK
<1>4. At(dst)' = x
  BY <1>2 DEF At
<1>5. Now.mtime = At(dst).mtime /\ Now'.mtime = x.mtime
      /\ Now.ino = dst /\ Now'.ino = dst
  BY <1>4 DEF Now, MetaOf
<1> QED BY <1>1, <1>3, <1>5 DEF Older

-----------------------------------------------------------------------------
(* One editor: saves, discards, crashes and other programs.                  *)

LEMMA PastStill ==
  ASSUME PlaceInv, TypeInv', UNCHANGED <<disk, dst, journals, dir, cut, baseless>>
  PROVE  Past' /\ Orphans'
<1>1. TypeInv /\ HeadsSame /\ Upto(Now, Now') /\ baseless \subseteq baseless'
  BY HeadsStill, NowStill DEF PlaceInv
<1>2. ASSUME NEW m, m = Now PROVE Past' /\ Orphans'
  <2>1. Version(m) /\ Versed(m)
    BY <1>1, <1>2, NowVersion, VersedNow DEF PlaceInv
  <2> QED BY <1>1, <2>1, TameStill, TameKeeps
<1> QED BY <1>2 DEF Past, Orphans

LEMMA SavedPlaced ==
  ASSUME Alone, PlaceInv, NEW p \in Editors, TypeInv', Saved(p),
         Past' /\ Orphans', UNCHANGED <<journals, dir, cut, baseless>>,
         ed[p].pc # "dropSync",
         Headed(ed[p].fd) => Older(H(ed[p].fd), Now')
  PROVE  PlaceInv'
<1> DEFINE e == ed[p]
<1>1. /\ TypeInv /\ Sited(e) /\ DOMAIN e = Fields /\ p \in DOMAIN ed
  BY DEF PlaceInv, TypeInv, Placed, LockInv, Shape
<1>2. /\ ed'[p].pc = IF e.fd = 0 THEN "edit" ELSE "dropBase"
      /\ ed'[p].meta = Now' /\ ed'[p].fd = e.fd /\ ed'[p].goal = "none"
  BY <1>1 DEF Saved, Fields, Now
<1>3. Versed(Now)'
  <2>1. TypeInv' /\ Past' /\ Orphans'
    OBVIOUS
  <2> QED BY <2>1, VersedNow, PTL
<1>4. Versed(ed[p].meta)'
  BY <1>2, <1>3 DEF Versed
<1>5. Sited(ed[p])'
  <2>1. CASE e.fd = 0
    BY <1>2, <2>1, SitedFree
  <2>2. CASE e.fd # 0
    BY <1>1, <1>2, <2>2 DEF Sited, Headed, H
  <2> QED BY <2>1, <2>2
<1> QED BY <1>4, <1>5, PlaceOf DEF Placed

LEMMA SavePlaced ==
  ASSUME Alone, PlaceInv, NEW p \in Editors,
         SaveAtomic(p) \/ SaveInplace(p) \/ SaveInplace2(p)
  PROVE  PlaceInv'
<1> DEFINE e == ed[p]
           f == e.fd
<1>1. /\ TypeInv /\ TypeInv' /\ Sited(e) /\ e.text \in Texts /\ FilesOK
      /\ f \in 0 .. Len(journals) /\ Len(journals) \in Nat
  BY SaveTyped, LogsSeq
  DEF PlaceInv, TypeInv, EdsOK, GoodEd, Placed, LockInv
<1>2. UNCHANGED <<journals, dir, cut, baseless>> /\ baseless \subseteq baseless'
      /\ e.pc \in {"stuck", "edit", "inplace", "inplace log"}
  BY DEF SaveAtomic, SaveInplace, SaveInplace2, log, history, Savable, Ready
<1>3. Headed(f) => f \in 1 .. Len(journals)
  BY <1>1 DEF Headed
<1>4. CASE SaveAtomic(p)
  <2>1. Older(Now, Now')
    BY <1>1, <1>4, NowReplaced DEF SaveAtomic
  <2>2. /\ Past' /\ Orphans'
        /\ \A g \in 1 .. Len(journals) : Headed(g) => Older(H(g), Now')
    BY <1>1, <1>2, <2>1, NewerNow
  <2> QED BY <1>1, <1>2, <1>3, <1>4, <2>2, SavedPlaced DEF SaveAtomic
<1>5. CASE SaveInplace(p)
  <2> DEFINE x == [text |-> Torn, mtime |-> clock']
  <2>1. /\ clock < MaxClock /\ clock' = clock + 1 /\ dst # 0 /\ dst' = dst
        /\ disk' = [disk EXCEPT ![dst] = x]
    BY <1>5 DEF SaveInplace
  <2>2. x \in [text : Texts, mtime : Nat] /\ x.mtime = clock'
    BY <1>1, <2>1, ClockNext, TornText
  <2> HIDE DEF x
  <2>3. Older(Now, Now')
    BY <1>1, <2>1, <2>2, NowWritten
  <2>4. /\ Past' /\ Orphans' /\ HeadsSame
        /\ \A g \in 1 .. Len(journals) : Headed(g) => Older(H(g), Now')
        /\ \A m : Version(m) /\ Versed(m) => Versed(m)'
    BY <1>1, <1>2, <2>3, NewerNow
  <2>5. /\ ed'[p].pc \in {"inplace", "inplace log"} /\ ed'[p].fd = f
        /\ ed'[p].meta = e.meta
    <3>1. Goto(p, "inplace") \/ Goto(p, "inplace log")
      BY <1>5 DEF SaveInplace
    <3> QED BY <1>1, <3>1, GotoFields
  <2>6. ASSUME NEW m, m = e.meta PROVE Versed(m)'
    <3>1. Version(m) /\ Versed(m)
      BY <1>1, <1>2, <2>6, MetaVersion DEF PlaceInv, Placed
    <3> QED BY <2>4, <3>1
  <2>7. Versed(ed[p].meta)'
    BY <2>5, <2>6 DEF Versed
  <2>8. Sited(ed[p])'
    <3>1. \A g \in 1 .. Len(journals') : Headed(g)' => Older(H(g)', Now')
      BY <1>2, <2>4 DEF Headed, H
    <3> QED BY <1>1, <1>2, <2>5, <3>1 DEF Sited
  <2> QED BY <1>1, <2>4, <2>7, <2>8, PlaceOf DEF Placed
<1>6. CASE SaveInplace2(p)
  <2>1. Now' = Now
    <3>1. dst' = dst /\ disk' = [disk EXCEPT ![dst].text = e.text]
      BY <1>6 DEF SaveInplace2
    <3>2. CASE dst = 0
      BY <3>1, <3>2 DEF Now, MetaOf, At
    <3>3. CASE dst # 0
      <4>1. dst \in DOMAIN disk /\ disk[dst] \in [text : Texts, mtime : Nat]
        <5>1. dst \in 1 .. Len(disk) /\ DOMAIN disk = 1 .. Len(disk)
          BY <1>1, <3>3, LenProperties DEF FilesOK
        <5> QED BY <1>1, <5>1, ElementOfSeq DEF FilesOK
      <4>2. disk'[dst].mtime = disk[dst].mtime
        <5>1. disk'[dst] = [disk[dst] EXCEPT !.text = e.text]
          BY <3>1, <4>1
        <5> QED BY <4>1, <5>1
      <4> QED BY <3>1, <3>3, <4>2 DEF Now, MetaOf, At
    <3> QED BY <3>2, <3>3
  <2>2. HeadsSame /\ Upto(Now, Now')
    BY <1>1, <1>2, <2>1, HeadsStill, UptoSelf
  <2>3. ASSUME NEW m, m = Now PROVE Past' /\ Orphans'
    <3>1. Version(m) /\ Versed(m)
      BY <1>1, <2>3, NowVersion, VersedNow DEF PlaceInv
    <3> QED BY <1>1, <1>2, <2>2, <3>1, TameStill, TameKeeps
  <2>4. Past' /\ Orphans'
    BY <2>3 DEF Past, Orphans
  <2>5. Headed(f) => Older(H(f), Now')
    BY <1>1, <1>3, <1>6, <2>1 DEF SaveInplace2, Sited
  <2> QED BY <1>1, <1>2, <1>6, <2>4, <2>5, SavedPlaced DEF SaveInplace2
<1> QED BY <1>4, <1>5, <1>6

(* Discarding a journal leaves one without a base only when it is older than *)
(* the file, or the user declined it.                                        *)
LEMMA DropPlaced ==
  ASSUME Alone, PlaceInv, NEW p \in Editors,
         DropBase(p) \/ DropLog(p) \/ DropSync(p)
  PROVE  PlaceInv'
<1> DEFINE e == ed[p]
<1>1. TypeInv /\ TypeInv' /\ Sited(e) /\ GoodEd(e)
  BY DropTyped DEF PlaceInv, TypeInv, EdsOK, Placed
<1>2. UNCHANGED <<disk, dst, journals>> /\ baseless \subseteq baseless'
      /\ e.pc \in {"dropBase", "dropLog", "dropSync"}
  BY DEF DropBase, DropLog, DropSync, files, history
<1>3. HeadsSame
  BY <1>1, <1>2, HeadsStill
<1>4. CASE NotDropped(p)
  BY <1>1, <1>2, <1>3, <1>4, TameStill, ClosePlaced DEF NotDropped
<1>5. CASE DropBase(p) /\ ~NotDropped(p)
  <2>1. /\ e.pc = "dropBase" /\ Change([dir EXCEPT !.b = NoBase])
        /\ Goto(p, "dropLog")
        /\ baseless' = IF e.goal = "decline" THEN baseless \cup {e.fd} ELSE baseless
    BY <1>5 DEF DropBase
  <2>2. dir.j = e.fd /\ (e.goal # "decline" /\ Headed(dir.j) =>
          Older(H(dir.j), e.meta))
    BY <1>1, <2>1 DEF Sited, GoodEd, Inside
  <2>3. ASSUME NEW d, d = [dir EXCEPT !.b = NoBase]
        PROVE  Tame(d, e.meta) /\ d.j = dir.j
    <3>1. d.j = dir.j
      BY <1>1, <2>3, DirFields
    <3> QED BY <1>2, <2>1, <2>2, <3>1 DEF Tame, Headed, H
  <2>4. /\ \A c \in cut' : c \in cut \/ Tame(c, e.meta)
        /\ \A c \in {dir'} : Tame(c, e.meta)
        /\ dir'.j = dir.j
    BY <2>1, <2>3, TameTo DEF Change
  <2>5. ed'[p].pc = "dropLog" /\ ed'[p].fd = e.fd /\ ed'[p].meta = e.meta
    BY <1>1, <2>1, GotoFields
  <2>6. Sited(ed[p])'
    BY <2>2, <2>4, <2>5, SitedFree
  <2> QED BY <1>1, <1>2, <1>3, <2>1, <2>4, <2>5, <2>6, QuietStep
<1>6. CASE DropLog(p) /\ ~NotDropped(p)
  <2>1. Change([dir EXCEPT !.j = 0]) /\ Goto(p, "dropSync") /\ e.pc = "dropLog"
    BY <1>6 DEF DropLog
  <2>2. ASSUME NEW d, d = [dir EXCEPT !.j = 0] PROVE Tame(d, e.meta)
    <3>1. d.j = 0
      BY <1>1, <2>2, DirFields
    <3> QED BY <3>1 DEF Tame, Headed
  <2>3. /\ \A c \in cut' : c \in cut \/ Tame(c, e.meta)
        /\ \A c \in {dir'} : Tame(c, e.meta)
    BY <2>1, <2>2, TameTo
  <2>4. ed'[p].pc = "dropSync" /\ ed'[p].fd = e.fd /\ ed'[p].meta = e.meta
    BY <1>1, <2>1, GotoFields
  <2>5. Sited(ed[p])'
    BY <2>4 DEF Sited
  <2> QED BY <1>1, <1>2, <1>3, <2>1, <2>3, <2>4, <2>5, QuietStep
<1>7. CASE DropSync(p)
  <2>1. Close(p, "edit") /\ (Commit(dir) \/ UNCHANGED <<dir, cut>>)
    BY <1>7 DEF DropSync
  <2>2. ASSUME NEW d, d = dir PROVE Tame(d, e.meta)
    BY <2>2 DEF Tame
  <2>3. /\ \A c \in cut' : c \in cut \/ Tame(c, e.meta)
        /\ \A c \in {dir'} : Tame(c, e.meta)
    BY <2>1, <2>2, TameTo, TameStill
  <2> QED BY <1>1, <1>2, <1>3, <2>1, <2>3, ClosePlaced
<1> QED BY <1>4, <1>5, <1>6, <1>7

LEMMA LeavePlaced ==
  ASSUME Alone, PlaceInv, NEW p \in Editors, Leave(p)
  PROVE  PlaceInv'
<1>1. TypeInv /\ TypeInv'
  BY LeaveTyped DEF PlaceInv
<1>2. UNCHANGED <<disk, dst, journals, dir, cut, baseless>>
  BY DEF Leave, files, log
<1>3. Past' /\ Orphans'
  BY <1>1, <1>2, PastStill
<1>4. ed'[p].pc = "out" /\ ed'[p].fd = 0
  BY <1>1 DEF Leave, Blank, TypeInv, LockInv, Shape
<1>5. Placed(ed[p])'
  BY <1>4, SitedFree DEF Placed
<1> QED BY <1>1, <1>3, <1>5, PlaceOf

LEMMA PowerCutPlaced ==
  ASSUME PlaceInv, PowerCut PROVE PlaceInv'
<1>1. TypeInv /\ TypeInv' /\ Len(journals) \in Nat
  BY PowerCutTyped, LogsSeq DEF PlaceInv, TypeInv, LockInv
<1>2. UNCHANGED <<disk, dst, baseless>> /\ Now' = Now
      /\ dir' \in cut /\ cut' = {dir'}
  BY NowStill DEF PowerCut, files
<1>3. /\ Len(journals') = Len(journals)
      /\ \A f \in 1 .. Len(journals) : H(f)' = H(f) \/ H(f)' = NoHeader
  <2>1. /\ Len(journals') = Len(journals)
        /\ \A f \in 1 .. Len(journals) :
             \E n \in journals[f].safe .. Size(journals[f]) :
               journals'[f] = Survivor(journals[f], n)
    BY <1>1, PowerCutLogs
  <2>2. ASSUME NEW f \in 1 .. Len(journals)
        PROVE  H(f)' = H(f) \/ H(f)' = NoHeader
    <3>1. PICK n \in journals[f].safe .. Size(journals[f]) :
            journals'[f] = Survivor(journals[f], n)
      BY <2>1
    <3>2. Len(disk) \in Nat /\ clock \in Nat
      BY <1>1, LenProperties DEF TypeInv, FilesOK
    <3> QED BY <1>1, <3>1, <3>2, LogOf, SurvivorGood DEF H
  <2> QED BY <2>1, <2>2
<1>4. ASSUME NEW f \in 1 .. Len(journals), Headed(f)'
      PROVE  H(f)' = H(f) /\ Headed(f)
  BY <1>3, <1>4 DEF Headed
<1>5. Past'
  BY <1>2, <1>3, <1>4 DEF PlaceInv, Past
<1>6. Orphans'
  <2> SUFFICES ASSUME NEW d \in cut', Lost(d)' PROVE Older(H(d.j)', Now)
    BY <1>2 DEF Orphans
  <2>1. d \in cut /\ d.j \in 1 .. Len(journals) /\ Headed(d.j)'
    BY <1>1, <1>2 DEF Lost, Headed, TypeInv, DirsOK, GoodDir
  <2>2. Lost(d) /\ H(d.j)' = H(d.j)
    BY <1>2, <1>4, <2>1 DEF Lost
  <2> QED BY <2>1, <2>2 DEF PlaceInv, Orphans
<1>7. ASSUME NEW p \in Editors PROVE Placed(ed[p])'
  <2>1. ed'[p].pc = "out" /\ ed'[p].fd = 0
    BY DEF PowerCut, Blank
  <2> QED BY <2>1, SitedFree DEF Placed
<1> QED BY <1>1, <1>5, <1>6, <1>7 DEF PlaceInv

LEMMA MeddlePlaced ==
  ASSUME PlaceInv, Meddle PROVE PlaceInv'
<1>1. TypeInv /\ TypeInv' /\ FilesOK
  BY MeddleTyped DEF PlaceInv, TypeInv
<1>2. /\ UNCHANGED <<journals, dir, cut, ed, baseless>>
      /\ baseless \subseteq baseless'
      /\ clock < MaxClock /\ clock' = clock + 1 /\ clock' \in Nat
      /\ \A p \in Editors : ed[p].pc \notin {"inplace", "inplace log"}
  BY <1>1, ClockNext DEF Meddle, log
<1>3. <<clock'>> \in Texts
  <2>1. clock' \in Nat
    BY <1>2
  <2> QED BY <2>1 DEF Texts
<1>4. Older(Now, Now')
  <2>1. CASE /\ disk' = Append(disk, [text |-> <<clock'>>, mtime |-> clock'])
             /\ dst' = Len(disk')
    BY <1>1, <1>2, <1>3, <2>1, NowReplaced
  <2>2. CASE /\ dst # 0 /\ dst' = dst
             /\ \/ disk' = [disk EXCEPT ![dst] = [text |-> <<clock'>>,
                                                  mtime |-> clock']]
                \/ disk' = [disk EXCEPT ![dst].mtime = clock']
    <3>1. disk[dst] \in [text : Texts, mtime : Nat]
      <4>1. dst \in 1 .. Len(disk)
        BY <1>1, <2>2 DEF FilesOK
      <4> QED BY <1>1, <4>1, ElementOfSeq DEF FilesOK
    <3>2. [disk[dst] EXCEPT !.mtime = clock']
            = [text |-> disk[dst].text, mtime |-> clock']
      BY <3>1
    <3>3. PICK t \in Texts :
            disk' = [disk EXCEPT ![dst] = [text |-> t, mtime |-> clock']]
      BY <1>3, <2>2, <3>1, <3>2
    <3> DEFINE x == [text |-> t, mtime |-> clock']
    <3>4. x \in [text : Texts, mtime : Nat] /\ x.mtime = clock'
          /\ disk' = [disk EXCEPT ![dst] = x]
      BY <1>2, <3>3
    <3> HIDE DEF x
    <3> QED BY <1>1, <1>2, <2>2, <3>4, NowWritten
  <2> QED BY <2>1, <2>2 DEF Meddle
<1>5. /\ Past' /\ Orphans'
      /\ \A m : Version(m) /\ Versed(m) => Versed(m)'
  BY <1>1, <1>2, <1>4, NewerNow
<1>6. ASSUME NEW p \in Editors PROVE Placed(ed[p])'
  <2>1. CASE ed[p].pc # "out"
    <3>1. ASSUME NEW m, m = ed[p].meta PROVE Versed(m)'
      <4>1. Version(m) /\ Versed(m)
        BY <1>1, <2>1, <3>1, MetaVersion DEF PlaceInv, Placed
      <4> QED BY <1>5, <4>1
    <3>2. Versed(ed[p].meta)'
      BY <1>2, <3>1 DEF Versed
    <3>3. Sited(ed[p]) /\ ed[p].pc \notin {"inplace", "inplace log"}
      BY <1>2 DEF PlaceInv, Placed
    <3>4. Sited(ed[p])'
      BY <1>2, <3>3 DEF Sited, Headed, H
    <3> QED BY <3>2, <3>4 DEF Placed
  <2>2. CASE ed[p].pc = "out"
    <3>1. ed'[p].pc = "out" /\ ed'[p].fd = 0
      BY <1>1, <1>2, <2>2 DEF TypeInv, LockInv, Locked, Apart
    <3> QED BY <3>1, SitedFree DEF Placed
  <2> QED BY <2>1, <2>2
<1> QED BY <1>1, <1>5, <1>6 DEF PlaceInv

LEMMA PlaceStart == Init => PlaceInv
<1> SUFFICES ASSUME Init PROVE PlaceInv
  OBVIOUS
<1>1. TypeInv
  BY TypeStart
<1>2. Len(journals) = 0 /\ dir.j = 0 /\ cut = {dir}
  BY DEF Init
<1>3. Past /\ Orphans
  BY <1>2 DEF Past, Orphans, Lost, Headed
<1>4. ASSUME NEW p \in Editors PROVE Placed(ed[p])
  BY DEF Init, Blank, Placed, Sited
<1> QED BY <1>1, <1>3, <1>4 DEF PlaceInv

LEMMA PlaceStep == Alone /\ PlaceInv /\ [Next]_vars => PlaceInv'
<1> SUFFICES ASSUME Alone, PlaceInv, [Next]_vars PROVE PlaceInv'
  OBVIOUS
<1>1. ASSUME NEW p \in Editors, Step(p) PROVE PlaceInv'
  BY <1>1, OpeningPlaced, AnswerPlaced, OpenLogPlaced, LockPlaced, AdoptPlaced,
     PreserveBasePlaced, PreserveBase2Placed, PreserveLogPlaced,
     CreateBasePlaced, HeaderPlaced, BarrierPlaced, EditPlaced, SavePlaced,
     DropPlaced, LeavePlaced
  DEF Step
<1>2. CASE UNCHANGED vars
  <2>1. UNCHANGED <<disk, dst, journals, dir, cut, ed, baseless>>
    BY <1>2 DEF vars, files, log, history
  <2>2. TypeInv'
    BY <1>2, TypeStep DEF PlaceInv
  <2>3. Past' /\ Orphans'
    BY <2>1, <2>2, PastStill
  <2>4. ASSUME NEW p \in Editors PROVE Placed(ed[p])'
    BY <2>1 DEF PlaceInv, Placed, Versed, Sited, Lost, Headed, H, Now, MetaOf, At
  <2> QED BY <2>2, <2>3, <2>4 DEF PlaceInv
<1> QED BY <1>1, <1>2, PowerCutPlaced, MeddlePlaced DEF Next

(* One editor of the file, whatever is answered, whatever other programs do, *)
(* and however often it is killed or the power goes: while its journal       *)
(* works, it is the one that the next session will find under the journal's  *)
(* name, with a header, and with its base beside it.                         *)
THEOREM FoundAlways ==
  ASSUME Alone PROVE Spec => []FoundByName
<1>1. PlaceInv => FoundByName
  <2> SUFFICES ASSUME PlaceInv, NEW p \in Editors, Ready(p), ~ed[p].bad
               PROVE  /\ dir.j = ed[p].fd /\ journals[dir.j].hdr # NoHeader
                      /\ dir.b # NoBase \/ dir.j \in baseless
    BY DEF FoundByName
  <2> QED BY DEF PlaceInv, Placed, Sited, Ready, Headed, H
<1>2. Init => PlaceInv
  BY PlaceStart
<1>3. PlaceInv /\ [Next]_vars => PlaceInv'
  BY PlaceStep
<1> QED BY <1>1, <1>2, <1>3, PTL DEF Spec

-----------------------------------------------------------------------------
(* One editor: what a journal is replayed on.                                *)

NoLog == [hdr |-> NoHeader, recs |-> <<>>, safe |-> 0]

(* The texts that inodes D hold for version m, and those that a header h     *)
(* vouches for: the version it names, and the copy kept beside the journal.  *)
Written(D, m) ==
  IF m.ino = 0 THEN IF m.mtime = 0 THEN {<<>>} ELSE {}
  ELSE IF D[m.ino].mtime = m.mtime THEN {D[m.ino].text} ELSE {}
Grounds(D, h) ==
  Written(D, h) \cup IF h.base.kind = "copy" THEN {h.base.text} ELSE {}

(* Each of the records v was made on the text that those before it give on   *)
(* t; a journal x begins at t; replaying it gives s.                         *)
Follows(v, t) == \A i \in 1 .. Len(v) : v[i].on = After(t, v, i - 1)
Leads(v, t)   == After(t, v, Len(v))
Basis(D, x, t) == Follows(ValidPrefix(x.recs), t) /\ Grounds(D, x.hdr) \subseteq {t}
Made(D, x, s) ==
  \E t \in Texts : Basis(D, x, t) /\ s = Leads(ValidPrefix(x.recs), t)

(* Every journal that has a header begins at the text it vouches for.        *)
Heard(D, x) ==
  IF x.hdr = NoHeader THEN x.recs = <<>>
  ELSE \A t \in Grounds(D, x.hdr) : Basis(D, x, t)

Fit(h, m) == h # NoHeader /\ h.ino = m.ino /\ h.mtime = m.mtime

(* The records of a journal cut to its valid ones, or cut short.             *)
LEMMA FollowsPrefix ==
  ASSUME NEW v \in Seq(Recs), NEW w \in Seq(Recs), NEW t,
         Len(w) <= Len(v), \A i \in 1 .. Len(w) : w[i] = v[i], Follows(v, t)
  PROVE  Follows(w, t)
<1> SUFFICES ASSUME NEW i \in 1 .. Len(w) PROVE w[i].on = After(t, w, i - 1)
  BY DEF Follows
<1>1. Len(v) \in Nat /\ Len(w) \in Nat
  BY LenProperties
<1>2. i \in 1 .. Len(v) /\ w[i] = v[i] /\ i - 1 \in Nat
  BY <1>1
<1>3. \A k \in 1 .. i - 1 : v[k] = w[k]
  BY <1>1
<1>4. After(t, v, i - 1) = After(t, w, i - 1)
  BY <1>2, <1>3, AfterSame
<1> QED BY <1>2, <1>4 DEF Follows

(* One record more, made on the text so far.                                 *)
LEMMA FollowsMore ==
  ASSUME NEW v \in Seq(Recs), NEW t \in Texts, NEW r \in Recs, Follows(v, t),
         r.on = Leads(v, t)
  PROVE  /\ Follows(Append(v, r), t)
         /\ Leads(Append(v, r), t) = Append(Leads(v, t), r.op)
<1> DEFINE w == Append(v, r)
           n == Len(v)
<1>1. /\ w \in Seq(Recs) /\ Len(w) = n + 1 /\ n \in Nat
      /\ \A i \in 1 .. n : w[i] = v[i]
      /\ w[n + 1] = r
  BY AppendProperties, LenProperties
<1> HIDE DEF w, n
<1>2. ASSUME NEW k \in 0 .. n PROVE After(t, w, k) = After(t, v, k)
  <2>1. \A i \in 1 .. k : w[i] = v[i]
    BY <1>1
  <2>2. k \in Nat
    BY <1>1
  <2> QED BY <2>1, <2>2, AfterSame
<1>3. After(t, w, n) = Leads(v, t)
  BY <1>1, <1>2 DEF Leads, n
<1>4. Follows(w, t)
  <2> SUFFICES ASSUME NEW i \in 1 .. Len(w) PROVE w[i].on = After(t, w, i - 1)
    BY DEF Follows
  <2>1. CASE i = n + 1
    BY <1>1, <1>3, <2>1
  <2>2. CASE i # n + 1
    <3>1. i \in 1 .. n /\ i - 1 \in 0 .. n
      BY <1>1, <2>2
    <3> QED BY <1>1, <1>2, <3>1 DEF Follows, n
  <2> QED BY <2>1, <2>2
<1>5. After(t, w, n + 1) = Append(After(t, w, n), w[n + 1].op)
  <2>1. w \in Seq([op : Nat, on : Texts]) /\ n < Len(w) /\ n \in Nat
    BY <1>1 DEF Recs
  <2> QED BY <2>1, AfterNext
<1> QED BY <1>1, <1>3, <1>4, <1>5 DEF Leads, w

(* Where replay of such records stops: at their end.                         *)
LEMMA StopsLast ==
  ASSUME NEW v \in Seq(Recs), NEW t, Follows(v, t), NEW n \in Stops(t, v)
  PROVE  n = Len(v)
<1>1. n \in 0 .. Len(v) /\ (n = Len(v) \/ v[n + 1].on # After(t, v, n))
  BY DEF Stops
<1>2. Len(v) \in Nat
  BY LenProperties
<1>3. CASE n # Len(v)
  <2>1. n + 1 \in 1 .. Len(v) /\ (n + 1) - 1 = n
    BY <1>1, <1>2, <1>3
  <2> QED BY <1>1, <2>1, <1>3 DEF Follows
<1> QED BY <1>3

(* The valid part of records that are all valid, also of some of them and of *)
(* one more, valid or cut short.                                             *)
LEMMA ValidAll ==
  ASSUME NEW r \in Seq(Recs), NEW v, v = ValidPrefix(r)
  PROVE  ValidPrefix(v) = v
<1>1. PICK m \in 0 .. Len(r) : Whole(r, m) /\ v = SubSeq(r, 1, m)
  BY PrefixWhole
<1>2. /\ v \in Seq(Recs) /\ Len(v) = m /\ \A i \in 1 .. m : v[i] = r[i]
      /\ m \in Nat
  BY <1>1, SubSeqRecs
<1>3. Whole(v, m)
  BY <1>1, <1>2 DEF Whole
<1> QED BY <1>2, <1>3, WholeOnly, SubSeqFull

LEMMA ValidCut ==
  ASSUME NEW r \in Seq(Recs), NEW n \in 0 .. Len(r)
  PROVE  /\ Len(ValidPrefix(SubSeq(r, 1, n))) <= Len(ValidPrefix(r))
         /\ \A i \in 1 .. Len(ValidPrefix(SubSeq(r, 1, n))) :
              ValidPrefix(SubSeq(r, 1, n))[i] = ValidPrefix(r)[i]
<1> DEFINE s == SubSeq(r, 1, n)
<1>1. s \in Seq(Recs) /\ Len(s) = n /\ \A i \in 1 .. n : s[i] = r[i]
  BY SubSeqRecs
<1> HIDE DEF s
<1>2. PICK m \in 0 .. Len(r) : Whole(r, m) /\ ValidPrefix(r) = SubSeq(r, 1, m)
  BY PrefixWhole
<1>3. PICK k \in 0 .. Len(s) : Whole(s, k) /\ ValidPrefix(s) = SubSeq(s, 1, k)
  BY <1>1, PrefixWhole
<1>4. Len(r) \in Nat /\ n \in Nat
  BY LenProperties
<1>5. k <= m
  <2>1. CASE k > m
    <3>1. m + 1 \in 1 .. k /\ m + 1 \in 1 .. n /\ m < Len(r)
      BY <1>1, <1>2, <1>3, <1>4, <2>1
    <3>2. r[m + 1] = Bad /\ s[m + 1] = r[m + 1] /\ s[m + 1] # Bad
      BY <1>1, <1>2, <1>3, <3>1 DEF Whole
    <3> QED BY <3>2
  <2>2. k \in Nat /\ m \in Nat
    BY <1>1, <1>2, <1>3, <1>4
  <2> QED BY <2>1, <2>2
<1>6. /\ Len(ValidPrefix(r)) = m /\ Len(ValidPrefix(s)) = k
      /\ \A i \in 1 .. m : ValidPrefix(r)[i] = r[i]
      /\ \A i \in 1 .. k : ValidPrefix(s)[i] = s[i]
  BY <1>1, <1>2, <1>3, SubSeqRecs
<1>7. \A i \in 1 .. k : s[i] = r[i] /\ i \in 1 .. m
  BY <1>1, <1>2, <1>3, <1>4, <1>5
<1> QED BY <1>5, <1>6, <1>7 DEF s

LEMMA ValidMore ==
  ASSUME NEW r \in Seq(Recs), ValidPrefix(r) = r, NEW a \in Recs
  PROVE  ValidPrefix(Append(r, a)) = IF a = Bad THEN r ELSE Append(r, a)
<1> DEFINE w == Append(r, a)
           n == Len(r)
<1>1. /\ w \in Seq(Recs) /\ Len(w) = n + 1 /\ n \in Nat
      /\ \A i \in 1 .. n : w[i] = r[i]
      /\ w[n + 1] = a
  BY AppendProperties, LenProperties
<1> HIDE DEF w
<1>2. \A i \in 1 .. n : r[i] # Bad
  <2>1. PICK m \in 0 .. Len(r) : Whole(r, m) /\ ValidPrefix(r) = SubSeq(r, 1, m)
    BY PrefixWhole
  <2>2. Len(SubSeq(r, 1, m)) = m
    BY <2>1, SubSeqRecs
  <2>3. m = n
    BY <2>1, <2>2
  <2> QED BY <2>1, <2>3 DEF Whole
<1>3. CASE a = Bad
  <2>1. Whole(w, n)
    BY <1>1, <1>2, <1>3 DEF Whole
  <2>2. ValidPrefix(w) = SubSeq(w, 1, n) /\ n \in 0 .. Len(w)
    BY <1>1, <2>1, WholeOnly
  <2>3. SubSeq(w, 1, n) \in Seq(Recs) /\ Len(SubSeq(w, 1, n)) = n
        /\ \A i \in 1 .. n : SubSeq(w, 1, n)[i] = r[i]
    BY <1>1, <2>2, SubSeqRecs
  <2>4. SubSeq(w, 1, n) = r
    BY <2>3, SeqEqual
  <2> QED BY <1>3, <2>2, <2>4 DEF w
<1>4. CASE a # Bad
  <2>1. \A i \in 1 .. n + 1 : w[i] # Bad
    BY <1>1, <1>2, <1>4
  <2>2. Whole(w, n + 1)
    BY <1>1, <2>1 DEF Whole
  <2>3. ValidPrefix(w) = SubSeq(w, 1, n + 1)
    BY <1>1, <2>2, WholeOnly
  <2> QED BY <1>1, <1>4, <2>3, SubSeqFull DEF w
<1> QED BY <1>3, <1>4

(* Nothing is learnt of a header when the inodes change from D to E.         *)
Firm(D, E, h) == Grounds(E, h) \subseteq Grounds(D, h)
(* Two states of one journal file that are replayed alike.                   *)
Alike(x, y) ==
  /\ y.hdr = x.hdr /\ ValidPrefix(y.recs) = ValidPrefix(x.recs)
  /\ x.hdr = NoHeader => y.recs = x.recs

(* What is said of a journal stays so.                                       *)
LEMMA BasisStays ==
  ASSUME NEW D, NEW E, NEW x, NEW y, Alike(x, y), Firm(D, E, x.hdr), NEW t,
         Basis(D, x, t)
  PROVE  Basis(E, y, t)
BY DEF Alike, Firm, Basis

LEMMA HeardStays ==
  ASSUME NEW D, NEW E, NEW x, NEW y, Alike(x, y), Firm(D, E, x.hdr), Heard(D, x)
  PROVE  Heard(E, y)
<1>1. CASE x.hdr = NoHeader
  BY <1>1 DEF Heard, Alike
<1>2. CASE x.hdr # NoHeader
  <2>1. \A t \in Grounds(E, y.hdr) : Basis(D, x, t)
    BY <1>2 DEF Heard, Alike, Firm
  <2> QED BY <1>2, <2>1, BasisStays DEF Heard, Alike
<1> QED BY <1>1, <1>2

LEMMA MadeStays ==
  ASSUME NEW D, NEW E, NEW x, NEW y, Alike(x, y), Firm(D, E, x.hdr), NEW s,
         Made(D, x, s)
  PROVE  Made(E, y, s)
<1>1. PICK t \in Texts : Basis(D, x, t) /\ s = Leads(ValidPrefix(x.recs), t)
  BY DEF Made
<1>2. Basis(E, y, t) /\ s = Leads(ValidPrefix(y.recs), t)
  BY <1>1, BasisStays DEF Alike
<1> QED BY <1>2 DEF Made

LEMMA AlikeSelf == ASSUME NEW x PROVE Alike(x, x)
BY DEF Alike
LEMMA FirmSelf == ASSUME NEW D, NEW h PROVE Firm(D, D, h)
BY DEF Firm

(* What an editor's text has to do with the file and the journal x that has  *)
(* the journal's name, which is sound if s, and which no session went on     *)
(* with unread if k: until it has records of its own, the text is that of    *)
(* the version it works on, unless a journal of that version is there to go  *)
(* on with, which gives the text when replayed, or which was not taken in    *)
(* and begins at it; so it is then with the records of its own.              *)
Loose(e) == e.pc \in {"open", "adopt"} \/ (e.pc = "edit" /\ e.fd = 0)
Aside(e) == e.goal = "aside" \/ (e.pc = "edit" /\ e.goal = "decline")
Bare(e)  == \/ e.pc \in {"loaded", "asked"}
            \/ e.pc \in {"dropBase", "dropLog"} /\ e.goal = "decline"
Fresh == {"loaded", "asked", "lock", "oldBase", "oldBase2", "oldLog", "oldLog2",
          "base", "header", "dropBase", "dropLog", "dropSync"}
Misfit(e) == \/ e.pc \in {"oldLog", "oldLog2", "dropSync"}
             \/ e.pc = "dropLog" /\ e.goal # "decline"
Sure(e, D, x, s, k) ==
  /\ Bare(e) /\ k /\ Fit(x.hdr, e.meta) => Basis(D, x, e.text)
  /\ e.pc \in Fresh => Written(D, e.meta) \subseteq {e.text}
  /\ Loose(e) => IF s /\ Fit(x.hdr, e.meta)
                 THEN k => \/ Made(D, x, e.text)
                           \/ Aside(e) /\ Basis(D, x, e.text)
                 ELSE Written(D, e.meta) \subseteq {e.text}
  /\ e.pc = "header" /\ e.base.kind = "copy" => e.base.text = e.text
  /\ e.pc = "barrier" => x.recs = <<>> /\ Basis(D, x, e.text)
  /\ e.pc = "edit" /\ e.fd # 0 /\ ~e.bad =>
       ValidPrefix(x.recs) = x.recs /\ (k => Made(D, x, e.text))
  /\ Misfit(e) => ~Fit(x.hdr, e.meta)

Log == IF dir.j = 0 THEN NoLog ELSE journals[dir.j]
Known == dir.j \notin unread
Surely(p) ==
  /\ Sure(ed[p], disk, Log, Sound(dir.j), Known)
  /\ ed[p].pc \in {"inplace", "inplace log"} => dst # 0
Trusted(D, x, k) == IF k THEN Heard(D, x) ELSE x.hdr = NoHeader => x.recs = <<>>
HeardAll ==
  \A f \in 1 .. Len(journals) : Trusted(disk, journals[f], f \notin unread)
TruthInv == HeardAll /\ \A p \in Editors : Surely(p)

(* The editors' part, for each kind of step.                                 *)
LEMMA SureFree ==
  ASSUME NEW e, NEW D, NEW x, NEW s, NEW k,
         e.pc \in {"open", "adopt"} \/ (e.pc = "edit" /\ e.fd = 0),
         ~(s /\ Fit(x.hdr, e.meta)), Written(D, e.meta) \subseteq {e.text}
  PROVE  Sure(e, D, x, s, k)
BY DEF Sure, Loose, Bare, Fresh, Misfit

LEMMA SureFresh ==
  ASSUME NEW e, NEW D, NEW x, NEW s, NEW k,
         e.pc \in Fresh \ {"header"},
         Bare(e) /\ k /\ Fit(x.hdr, e.meta) => Basis(D, x, e.text),
         Misfit(e) => ~Fit(x.hdr, e.meta),
         Written(D, e.meta) \subseteq {e.text}
  PROVE  Sure(e, D, x, s, k)
BY DEF Sure, Loose, Bare, Fresh, Misfit

LEMMA SureMade ==
  ASSUME NEW e, NEW D, NEW x, NEW s, NEW k,
         e.pc \in {"open", "adopt"} \/ (e.pc = "edit" /\ e.fd = 0),
         s /\ Fit(x.hdr, e.meta),
         k => Made(D, x, e.text) \/ (Aside(e) /\ Basis(D, x, e.text))
  PROVE  Sure(e, D, x, s, k)
BY DEF Sure, Loose, Bare, Fresh, Misfit

(* One editor: it suffices that its part holds after a step.                 *)
LEMMA TruthOf ==
  ASSUME Alone, NEW p \in Editors, HeardAll', NEW e, e = ed'[p], NEW D, D = disk',
         NEW x, x = Log', NEW s, s = Sound(dir.j)', NEW k, k = Known',
         Sure(e, D, x, s, k),
         e.pc \in {"inplace", "inplace log"} => dst' # 0
  PROVE  TruthInv'
<1>1. Surely(p)'
  <2>1. Sure(ed'[p], disk', Log', Sound(dir.j)', Known')
    OBVIOUS
  <2> QED BY <2>1 DEF Surely
<1>2. ASSUME NEW q \in Editors PROVE Surely(q)'
  <2>1. q = p
    BY DEF Alone
  <2> QED BY <1>1, <2>1
<1> QED BY <1>2 DEF TruthInv

LEMMA HeardSame ==
  ASSUME HeardAll, UNCHANGED <<disk, journals, unread>> PROVE HeardAll'
BY DEF HeardAll

(* What is known of a journal with and without its records.                  *)
LEMMA ToldHeard ==
  ASSUME NEW D, NEW x, NEW k, Heard(D, x) PROVE Trusted(D, x, k)
BY DEF Trusted, Heard

LEMMA TrustedStays ==
  ASSUME NEW D, NEW E, NEW x, NEW y, NEW k, Alike(x, y), Firm(D, E, x.hdr),
         Trusted(D, x, k)
  PROVE  Trusted(E, y, k)
<1>1. CASE k
  BY <1>1, HeardStays DEF Trusted
<1>2. CASE ~k
  BY <1>2 DEF Trusted, Alike
<1> QED BY <1>1, <1>2

LEMMA KnownSame ==
  ASSUME dir'.j = dir.j, UNCHANGED unread PROVE Known' = Known
BY DEF Known

(* Steps that leave the file and the journals alone.                         *)
LEMMA LogSame ==
  ASSUME UNCHANGED journals, dir'.j = dir.j PROVE Log' = Log
BY DEF Log, NoLog

(* No journal is of two versions.                                            *)
LEMMA OlderFit ==
  ASSUME NEW h, NEW m, Version(h), Version(m), Older(h, m)
  PROVE  ~Fit(h, m)
BY DEF Version, Older, Fit

(* The journal that has the name.                                            *)
LEMMA LogFit ==
  ASSUME NEW m, Fit(Log.hdr, m)
  PROVE  dir.j # 0 /\ Log = journals[dir.j] /\ HeaderMatches(dir.j, m)
BY DEF Fit, Log, NoLog, HeaderMatches

LEMMA LogOpen ==
  ASSUME PlaceInv, NEW p \in Editors, ed[p].fd # 0, ed[p].pc # "dropSync"
  PROVE  dir.j = ed[p].fd /\ Log = journals[ed[p].fd]
         /\ ed[p].fd \in 1 .. Len(journals)
<1>1. dir.j = ed[p].fd
  BY DEF PlaceInv, Placed, Sited
<1> QED BY <1>1, DirLog DEF Log, PlaceInv

LEMMA LogHeard ==
  ASSUME TypeInv, HeardAll
  PROVE  Trusted(disk, Log, Known) /\ Log.recs \in Seq(Recs)
         /\ Log.hdr \in [ino : Nat, mtime : Nat, base : Bases]
<1>1. CASE dir.j = 0
  BY <1>1, EmptySeq DEF Log, NoLog, Trusted, Heard, NoHeader, NoBase, Bases, Texts
<1>2. CASE dir.j # 0
  <2>1. dir.j \in 1 .. Len(journals) /\ Log = journals[dir.j]
    BY <1>2, DirLog DEF Log
  <2>2. GoodLog(journals[dir.j])
    BY <2>1, LogOf
  <2> QED BY <2>1, <2>2 DEF HeardAll, Known, GoodLog, Recs
<1> QED BY <1>1, <1>2

(* What the file holds for a version that an editor works on, and what it    *)
(* holds for that of the file.                                               *)
LEMMA WrittenNow ==
  ASSUME FilesOK PROVE Written(disk, Now) = {At(dst).text}
BY FileMeta DEF Written, Now, MetaOf, At, FilesOK

LEMMA SureAt ==
  ASSUME TruthInv, NEW p \in Editors, NEW e, e = ed[p]
  PROVE  /\ Sure(e, disk, Log, Sound(dir.j), Known) /\ HeardAll
         /\ e.pc \in {"inplace", "inplace log"} => dst # 0
BY DEF TruthInv, Surely

-----------------------------------------------------------------------------
(* Loading, the prompt, and the first edit.                                  *)

(* A journal that is not taken in: the text is where it begins.              *)
LEMMA SureAside ==
  ASSUME TypeInv, NEW p \in Editors, GoOn(p), ed[p].pc \in {"loaded", "asked"},
         Locked(ed[p]), NEW D, NEW x, NEW s, NEW k, Sure(ed[p], D, x, s, k),
         NEW u, u = ed'[p]
  PROVE  Sure(u, D, x, s, k)
<1> DEFINE e == ed[p]
<1>1. /\ u.pc = "edit" /\ u.goal = "aside" /\ u.fd = 0 /\ u.meta = e.meta
      /\ u.text = e.text
  BY GoOnFields DEF Locked, Apart
<1>2. Written(D, u.meta) \subseteq {u.text} /\ Aside(u)
      /\ (k /\ Fit(x.hdr, u.meta) => Basis(D, x, u.text))
  BY <1>1 DEF Sure, Fresh, Bare, Aside
<1> HIDE DEF e
<1>3. CASE s /\ Fit(x.hdr, u.meta)
  BY <1>1, <1>2, <1>3, SureMade
<1>4. CASE ~(s /\ Fit(x.hdr, u.meta))
  BY <1>1, <1>2, <1>4, SureFree
<1> QED BY <1>3, <1>4

LEMMA OpeningTrue ==
  ASSUME Alone, PlaceInv, TruthInv, NEW p \in Editors,
         Load(p) \/ Probe(p) \/ AsIs(p) \/ Ensure(p)
  PROVE  TruthInv'
<1> DEFINE e == ed[p]
           u == ed'[p]
           s == Sound(dir.j)
<1>1. /\ TypeInv /\ DOMAIN e = Fields /\ p \in DOMAIN ed /\ Locked(e)
      /\ HeardAll /\ Sure(e, disk, Log, s, Known) /\ FilesOK
  BY SureAt DEF PlaceInv, TypeInv, LockInv, Shape
<1>2. UNCHANGED <<disk, dst, journals, dir, cut, unread>>
  BY DEF Load, Probe, AsIs, Ensure, files, log, history
<1>3. HeardAll' /\ Log' = Log /\ Sound(dir.j)' = s /\ Known' = Known
      /\ disk' = disk
  BY <1>1, <1>2, HeardSame, LogSame, KnownSame DEF Sound
<1>4. ASSUME Sure(u, disk, Log, s, Known), u.pc \notin {"inplace", "inplace log"}
      PROVE  TruthInv'
  BY <1>3, <1>4, TruthOf
<1>5. CASE Load(p)
  <2>1. u.pc = "loaded" /\ u.fd = 0 /\ u.meta = Now /\ u.text = At(dst).text
    BY <1>1, <1>5 DEF Load, Blank, Now
  <2>2. Written(disk, u.meta) = {u.text}
    BY <1>1, <2>1, WrittenNow
  <2>3. Known /\ Fit(Log.hdr, u.meta) => Basis(disk, Log, u.text)
    <3> SUFFICES ASSUME Known, Fit(Log.hdr, u.meta)
                 PROVE  Basis(disk, Log, u.text)
      OBVIOUS
    <3>1. Heard(disk, Log) /\ Log.hdr # NoHeader
      BY <1>1, LogHeard DEF Fit, Trusted
    <3>2. Written(disk, Log.hdr) = Written(disk, u.meta)
      BY DEF Fit, Written
    <3>3. u.text \in Grounds(disk, Log.hdr)
      BY <2>2, <3>2 DEF Grounds
    <3> QED BY <3>1, <3>3 DEF Heard
  <2>4. Sure(u, disk, Log, s, Known)
    BY <2>1, <2>2, <2>3 DEF Sure, Loose, Bare, Fresh, Misfit
  <2> QED BY <1>4, <2>1, <2>4
<1>8. CASE GoOn(p) /\ e.pc \in {"loaded", "asked"}
  <2>1. Sure(u, disk, Log, s, Known)
    BY <1>1, <1>8, SureAside
  <2> QED BY <1>1, <1>4, <1>8, <2>1, GoOnFields
<1>6. CASE Probe(p)
  <2>1. e.pc = "loaded" /\ e.fd = 0
    BY <1>1, <1>6 DEF Probe, Locked, Apart
  <2>2. CASE Goto(p, "asked")
    <3>1. /\ u.pc = "asked" /\ u.fd = e.fd /\ u.meta = e.meta /\ u.text = e.text
      BY <1>1, <2>2, GotoFields
    <3>2. Sure(u, disk, Log, s, Known)
      BY <1>1, <2>1, <3>1 DEF Sure, Loose, Bare, Fresh, Misfit
    <3> QED BY <1>4, <3>1, <3>2
  <2>3. CASE ~(dir.j # 0 /\ Sound(dir.j) /\ Matches(dir.j, e.meta))
             /\ Goto(p, "edit")
    <3>1. /\ u.pc = "edit" /\ u.fd = 0 /\ u.meta = e.meta /\ u.text = e.text
      BY <1>1, <2>1, <2>3, GotoFields
    <3>2. ~(s /\ Fit(Log.hdr, e.meta))
      BY <2>3, LogFit DEF Matches, HeaderMatches
    <3>3. Written(disk, e.meta) \subseteq {e.text}
      BY <1>1, <2>1 DEF Sure, Fresh
    <3>4. Sure(u, disk, Log, s, Known)
      BY <3>1, <3>2, <3>3, SureFree
    <3> QED BY <1>4, <3>1, <3>4
  <2> QED BY <1>6, <1>8, <2>1, <2>2, <2>3 DEF Probe
<1>7. CASE Ensure(p)
  <2>1. /\ u.pc = "open" /\ u.fd = 0 /\ u.meta = e.meta /\ u.text = e.text
        /\ e.pc = "edit" /\ e.fd = 0
        /\ e.goal \in {"aside", "decline"} => u.goal = "aside"
    BY <1>1, <1>7 DEF Ensure, Fields
  <2>2. Aside(e) => Aside(u)
    BY <2>1 DEF Aside
  <2>3. Sure(u, disk, Log, s, Known)
    BY <1>1, <2>1, <2>2 DEF Sure, Loose, Bare, Fresh, Misfit
  <2> QED BY <1>4, <2>1, <2>3
<1> QED BY <1>5, <1>6, <1>7, <1>8 DEF AsIs

LEMMA AloneFree == ASSUME Alone, NEW p \in Editors, NEW f PROVE Free(p, f)
BY DEF Alone, Free

(* A journal file that has the name changes to one that is heard too.        *)
LEMMA HeardSet ==
  ASSUME TypeInv, HeardAll, UNCHANGED disk, dir.j # 0, dir'.j = dir.j, NEW y,
         SetJournal(dir.j, y), \A g : g # dir.j => (g \in unread' <=> g \in unread),
         Trusted(disk, y, Known')
  PROVE  HeardAll' /\ Log' = y
<1>1. Numbered /\ dir.j \in 1 .. Len(journals)
  BY DirLog DEF TypeInv, LockInv
<1>2. /\ Len(journals') = Len(journals)
      /\ \A g \in 1 .. Len(journals) :
           journals'[g] = IF g = dir.j THEN y ELSE journals[g]
  BY <1>1, LogsSet
<1>3. HeardAll'
  <2>1. ASSUME NEW g \in 1 .. Len(journals)
        PROVE  Trusted(disk, journals'[g], g \notin unread')
    <3>1. CASE g = dir.j
      BY <1>2, <3>1 DEF Known
    <3>2. CASE g # dir.j
      <4>1. Trusted(disk, journals[g], g \notin unread) /\ journals'[g] = journals[g]
        BY <1>2, <3>2 DEF HeardAll
      <4> QED BY <3>2, <4>1 DEF Trusted
    <3> QED BY <3>1, <3>2
  <2> QED BY <1>2, <2>1 DEF HeardAll
<1>4. Log' = y
  BY <1>1, <1>2 DEF Log
<1> QED BY <1>3, <1>4

(* A journal that is offered begins at the text it is replayed on.           *)
LEMMA FromBasis ==
  ASSUME PlaceInv, TruthInv, NEW p \in Editors, ed[p].pc = "asked", dir.j # 0,
         Known, Matches(dir.j, ed[p].meta), NEW t, t = From(p, dir.j)
  PROVE  Basis(disk, Log, t)
<1> DEFINE e == ed[p]
           x == journals[dir.j]
<1>1. /\ TypeInv /\ HeardAll /\ Sure(e, disk, Log, Sound(dir.j), Known) /\ Log = x
      /\ x.hdr # NoHeader
  BY SureAt DEF PlaceInv, Log, Matches
<1>2. CASE HeaderMatches(dir.j, e.meta)
  <2>1. Fit(Log.hdr, e.meta) /\ t = e.text
    BY <1>1, <1>2 DEF HeaderMatches, Fit, From, Current
  <2> QED BY <1>1, <2>1 DEF Sure, Bare
<1>3. CASE ~HeaderMatches(dir.j, e.meta)
  <2>1. t = BaseText(dir.b) /\ BaseMatches(dir.j) /\ GoodDir(dir)
    BY <1>1, <1>3 DEF From, Current, Matches, TypeInv, DirsOK
  <2>2. t \in Grounds(disk, x.hdr)
    <3>1. CASE dir.b.kind = "link"
      <4>1. /\ MetaOf(dir.b.ino) = [ino |-> x.hdr.ino, mtime |-> x.hdr.mtime]
            /\ dir.b.ino \in 1 .. Len(disk) /\ t = disk[dir.b.ino].text
        BY <2>1, <3>1 DEF BaseMatches, BaseText, GoodDir
      <4>2. /\ x.hdr.ino = dir.b.ino /\ dir.b.ino # 0
            /\ disk[x.hdr.ino].mtime = x.hdr.mtime
        BY <4>1 DEF MetaOf, At
      <4> QED BY <4>1, <4>2 DEF Grounds, Written
    <3>2. CASE dir.b.kind # "link"
      BY <2>1, <3>2 DEF BaseMatches, BaseText, Grounds
    <3> QED BY <3>1, <3>2
  <2>3. Heard(disk, x)
    BY <1>1, LogHeard DEF Trusted
  <2> QED BY <1>1, <2>2, <2>3 DEF Heard
<1> QED BY <1>2, <1>3

(* Replaying it stops at the last valid record.                              *)
LEMMA PrefixCut ==
  ASSUME NEW r \in Seq(Recs), NEW n, n = Len(ValidPrefix(r))
  PROVE  SubSeq(r, 1, n) = ValidPrefix(r) /\ n \in 0 .. Len(r)
<1>1. PICK m \in 0 .. Len(r) : Whole(r, m) /\ ValidPrefix(r) = SubSeq(r, 1, m)
  BY PrefixWhole
<1>2. m = n
  BY <1>1, SubSeqRecs
<1> QED BY <1>1, <1>2

(* A journal cut to its valid records.                                       *)
LEMMA CutAlike ==
  ASSUME NEW x, GoodLog(x), x.hdr # NoHeader, NEW r, r = ValidPrefix(x.recs),
         NEW y, y.hdr = x.hdr, y.recs = r
  PROVE  Alike(x, y) /\ ValidPrefix(y.recs) = y.recs
<1>1. x.recs \in Seq(Recs)
  BY DEF GoodLog, Recs
<1>2. ValidPrefix(r) = r
  BY <1>1, ValidAll
<1> QED BY <1>2 DEF Alike

(* What replaying it gives.                                                  *)
LEMMA ReplayText ==
  ASSUME PlaceInv, TruthInv, NEW p \in Editors, ed[p].pc = "asked", dir.j # 0,
         Known, Matches(dir.j, ed[p].meta), NEW t, t = From(p, dir.j),
         NEW x, x = journals[dir.j], NEW v, v = ValidPrefix(x.recs),
         NEW n \in Stops(t, v)
  PROVE  /\ n = Len(v) /\ Follows(v, t) /\ After(t, x.recs, n) = Leads(v, t)
         /\ Basis(disk, x, t) /\ t \in Texts /\ x.recs \in Seq(Recs)
         /\ v \in Seq(Recs) /\ \A i \in 1 .. Len(v) : v[i] = x.recs[i]
<1>1. TypeInv /\ Log = x /\ t \in Texts
  BY FromText DEF PlaceInv, Log
<1>2. Basis(disk, x, t) /\ x.recs \in Seq(Recs)
  BY <1>1, FromBasis, LogHeard, SureAt
<1>3. v \in Seq(Recs) /\ \A i \in 1 .. Len(v) : v[i] = x.recs[i]
  BY <1>2, PrefixRecs
<1>4. Follows(v, t)
  BY <1>2 DEF Basis
<1>5. n = Len(v) /\ n \in Nat
  BY <1>3, <1>4, StopsLast, LenProperties
<1>6. After(t, x.recs, n) = After(t, v, n)
  BY <1>3, <1>5, AfterSame
<1> QED BY <1>1, <1>2, <1>3, <1>4, <1>5, <1>6 DEF Leads

(* Recovery: the text is what the journal, cut or not, gives.                *)
LEMMA ReplayTrue ==
  ASSUME Alone, PlaceInv, TruthInv, NEW p \in Editors, ed[p].pc = "asked",
         dir.j # 0, Sound(dir.j), Matches(dir.j, ed[p].meta),
         UNCHANGED <<disk, dst, dir, cut, unread>>, NEW n,
         n \in Stops(From(p, dir.j), ValidPrefix(journals[dir.j].recs)),
         Replay(p, dir.j, n)
  PROVE  TruthInv'
<1> DEFINE e == ed[p]
           u == ed'[p]
           f == dir.j
           x == journals[f]
           t == From(p, f)
           v == ValidPrefix(x.recs)
<1>1. /\ TypeInv /\ DOMAIN e = Fields /\ p \in DOMAIN ed /\ Locked(e)
      /\ HeardAll /\ f \in 1 .. Len(journals) /\ Log = x /\ x.hdr # NoHeader
  BY SureAt, DirLog DEF PlaceInv, TypeInv, LockInv, Shape, Matches, Log
<1>2. /\ x.recs \in Seq(Recs) /\ Known' = Known
      /\ Known => /\ n = Len(v) /\ After(t, x.recs, n) = Leads(v, t)
                  /\ Basis(disk, x, t) /\ t \in Texts
  BY <1>1, ReplayText, LogHeard, KnownSame
<1>3. GoodLog(x)
  BY <1>1, LogOf
<1>a. ASSUME Known
      PROVE  /\ n = Len(v) /\ After(t, x.recs, n) = Leads(v, t)
             /\ Basis(disk, x, t) /\ t \in Texts
  BY <1>2, <1>a
<1>4. ASSUME Known PROVE SubSeq(x.recs, 1, n) = v
  BY <1>2, <1>4, <1>a, PrefixCut
<1>5. /\ u.pc = "open" /\ u.text = After(t, x.recs, n) /\ u.fd = e.fd
      /\ u.meta = IF Current(p, f) THEN e.meta
                  ELSE [ino |-> x.hdr.ino, mtime |-> x.hdr.mtime]
  BY <1>1 DEF Replay, Fields
<1>6. Fit(x.hdr, u.meta)
  BY <1>1, <1>5 DEF Fit, Current, HeaderMatches
<1>7. ASSUME Known PROVE Made(disk, x, u.text)
  BY <1>5, <1>7, <1>a DEF Made
<1>8. PICK y : y.hdr = x.hdr /\ (Known => Alike(x, y)) /\ HeardAll' /\ Log' = y
  <2>1. CASE UNCHANGED journals
    <3>1. HeardAll' /\ Log' = x
      BY <1>1, <2>1, HeardSame, LogSame
    <3> QED BY <3>1, AlikeSelf
  <2>2. CASE SetJournal(f, [x EXCEPT !.recs = SubSeq(@, 1, n), !.safe = n + 1])
    <3> DEFINE y == [x EXCEPT !.recs = SubSeq(@, 1, n), !.safe = n + 1]
    <3>1. y.hdr = x.hdr /\ SetJournal(f, y) /\ y.recs = SubSeq(x.recs, 1, n)
      BY <1>3, <2>2 DEF GoodLog
    <3> HIDE DEF y
    <3>2. ASSUME Known PROVE Alike(x, y)
      <4>1. y.recs = v
        BY <1>4, <3>1, <3>2
      <4> QED BY <1>1, <1>3, <3>1, <4>1, CutAlike
    <3>3. Trusted(disk, y, Known')
      <4>1. CASE Known
        <5>1. Heard(disk, x)
          BY <1>1, <4>1, LogHeard DEF Trusted
        <5>2. Heard(disk, y)
          BY <3>2, <4>1, <5>1, HeardStays, FirmSelf
        <5> QED BY <5>2, ToldHeard
      <4>2. CASE ~Known
        BY <1>1, <1>2, <3>1, <4>2 DEF Trusted
      <4> QED BY <4>1, <4>2
    <3> QED BY <1>1, <3>1, <3>2, <3>3, HeardSet
  <2> QED BY <2>1, <2>2 DEF Replay
<1>9. (Known' => Made(disk, y, u.text)) /\ Fit(y.hdr, u.meta)
  <2>1. ASSUME Known PROVE Made(disk, y, u.text)
    BY <1>7, <1>8, <2>1, MadeStays, FirmSelf
  <2> QED BY <1>2, <1>6, <1>8, <2>1
<1>10. Sound(f)' /\ disk' = disk /\ dir'.j = f
  BY DEF Sound
<1>11. Sure(u, disk, y, TRUE, Known')
  BY <1>5, <1>9, SureMade
<1>12. Sound(dir.j)' = TRUE
  BY <1>10 DEF Sound
<1> QED BY <1>5, <1>8, <1>10, <1>11, <1>12, TruthOf

(* The answers to the prompt.                                                *)
LEMMA AnswerTrue ==
  ASSUME Alone, PlaceInv, TruthInv, NEW p \in Editors, Recover(p) \/ Decline(p)
  PROVE  TruthInv'
<1> DEFINE e == ed[p]
           u == ed'[p]
           f == dir.j
           s == Sound(dir.j)
<1>1. /\ TypeInv /\ DOMAIN e = Fields /\ p \in DOMAIN ed /\ Locked(e)
      /\ HeardAll /\ Sure(e, disk, Log, s, Known)
  BY SureAt DEF PlaceInv, TypeInv, LockInv, Shape
<1>2. UNCHANGED <<disk, dst, dir, cut, unread>> /\ e.pc = "asked"
  BY DEF Recover, Decline, files, log, history
<1>3. /\ Written(disk, e.meta) \subseteq {e.text}
      /\ Known /\ Fit(Log.hdr, e.meta) => Basis(disk, Log, e.text)
  BY <1>1, <1>2 DEF Sure, Bare, Fresh
<1>4. ASSUME UNCHANGED journals, Sure(u, disk, Log, s, Known),
             u.pc \notin {"inplace", "inplace log"}
      PROVE  TruthInv'
  <2>1. HeardAll' /\ Log' = Log /\ Sound(dir.j)' = s /\ Known' = Known
        /\ disk' = disk
    BY <1>1, <1>2, <1>4, HeardSame, LogSame, KnownSame DEF Sound
  <2> QED BY <1>4, <2>1, TruthOf
<1>5. CASE UNCHANGED journals /\ GoOn(p)
  <2>1. Sure(u, disk, Log, s, Known)
    BY <1>1, <1>2, <1>5, SureAside
  <2> QED BY <1>1, <1>4, <1>5, <2>1, GoOnFields
<1>6. CASE UNCHANGED journals /\ u.pc \in {"dropBase", "oldBase"}
           /\ u.meta = e.meta /\ u.text = e.text
  <2>1. Sure(u, disk, Log, s, Known)
    BY <1>3, <1>6, SureFresh DEF Fresh, Bare, Misfit
  <2> QED BY <1>4, <1>6, <2>1
<1>7. CASE Decline(p)
  <2>1. UNCHANGED journals
    BY <1>7 DEF Decline, log
  <2>2. CASE ed' = [ed EXCEPT ![p].pc = "dropBase", ![p].fd = f,
                              ![p].goal = "decline", ![p].held = TRUE]
    <3>1. u.pc = "dropBase" /\ u.meta = e.meta /\ u.text = e.text
      BY <1>1, <2>2 DEF Fields
    <3> QED BY <1>6, <2>1, <3>1
  <2> QED BY <1>5, <1>7, <2>1, <2>2 DEF Decline
<1>8. CASE Recover(p)
  <2>1. CASE /\ f # 0 /\ s /\ Matches(f, e.meta)
             /\ \E n \in Stops(From(p, f), ValidPrefix(journals[f].recs)) :
                  Replay(p, f, n)
    BY <1>2, <2>1, ReplayTrue
  <2>2. CASE /\ ed' = [ed EXCEPT ![p].pc = "oldBase", ![p].goal = "replay",
                                 ![p].fd = f, ![p].held = TRUE]
             /\ UNCHANGED journals
    <3>1. u.pc = "oldBase" /\ u.meta = e.meta /\ u.text = e.text
      BY <1>1, <2>2 DEF Fields
    <3> QED BY <1>6, <2>2, <3>1
  <2> QED BY <1>5, <1>8, <2>1, <2>2 DEF Recover
<1> QED BY <1>7, <1>8

(* An editor that knows nothing of the journal any more, or whose journal    *)
(* has yet to be written.                                                    *)
LEMMA StuckTrue ==
  ASSUME Alone, NEW p \in Editors, HeardAll', ed'[p].pc \in {"out", "stuck"}
  PROVE  TruthInv'
<1>1. ASSUME NEW e, e = ed'[p], NEW D, D = disk', NEW x, x = Log', NEW s,
             s = Sound(dir.j)', NEW k, k = Known'
      PROVE  TruthInv'
  <2>1. e.pc \in {"out", "stuck", "inplace", "inplace log"}
        /\ e.pc \notin {"inplace", "inplace log"}
    BY <1>1
  <2>2. Sure(e, D, x, s, k)
    BY <2>1 DEF Sure, Loose, Bare, Fresh, Misfit
  <2> QED BY <1>1, <2>1, <2>2, TruthOf
<1> QED BY <1>1

LEMMA FreeTrue ==
  ASSUME Alone, NEW p \in Editors, HeardAll', UNCHANGED disk,
         ed'[p].pc = "open" \/ (ed'[p].pc = "edit" /\ ed'[p].fd = 0),
         NEW x, x = Log', ~Fit(x.hdr, ed'[p].meta),
         Written(disk, ed'[p].meta) \subseteq {ed'[p].text}
  PROVE  TruthInv'
<1>1. ASSUME NEW e, e = ed'[p], NEW s, s = Sound(dir.j)',
             NEW k, k = Known'
      PROVE  TruthInv'
  <2>1. Sure(e, disk, x, s, k)
    BY <1>1, SureFree
  <2> QED BY <1>1, <2>1, TruthOf
<1> QED BY <1>1

LEMMA FreshTrue ==
  ASSUME Alone, NEW p \in Editors, HeardAll', UNCHANGED disk,
         ed'[p].pc \in Fresh \ {"header"},
         NEW x, x = Log', Misfit(ed'[p]) => ~Fit(x.hdr, ed'[p].meta),
         Bare(ed'[p]) /\ Known' /\ Fit(x.hdr, ed'[p].meta) =>
           Basis(disk, x, ed'[p].text),
         Written(disk, ed'[p].meta) \subseteq {ed'[p].text}
  PROVE  TruthInv'
<1>1. ASSUME NEW e, e = ed'[p], NEW s, s = Sound(dir.j)',
             NEW k, k = Known'
      PROVE  TruthInv'
  <2>1. Sure(e, disk, x, s, k)
    BY <1>1, SureFresh
  <2>2. e.pc \notin {"inplace", "inplace log"}
    BY <1>1 DEF Fresh
  <2> QED BY <1>1, <2>1, <2>2, TruthOf
<1> QED BY <1>1

LEMMA NoFit ==
  ASSUME NEW m PROVE ~Fit(NoLog.hdr, m) /\ (dir.j = 0 => Log = NoLog)
                     /\ (dir'.j = 0 => Log' = NoLog)
BY DEF Fit, NoLog, Log

LEMMA LooseText ==
  ASSUME NEW e, NEW D, NEW x, NEW s, NEW k, Sure(e, D, x, s, k), Loose(e),
         ~(s /\ Fit(x.hdr, e.meta))
  PROVE  Written(D, e.meta) \subseteq {e.text}
BY DEF Sure

-----------------------------------------------------------------------------
(* Opening, locking and adopting the journal.                                *)
LEMMA OpenLogTrue ==
  ASSUME Alone, PlaceInv, TruthInv, NEW p \in Editors, OpenLog(p)
  PROVE  TruthInv'
<1> DEFINE e == ed[p]
           u == ed'[p]
           s == Sound(dir.j)
<1>1. /\ TypeInv /\ DOMAIN e = Fields /\ p \in DOMAIN ed
      /\ HeardAll /\ Sure(e, disk, Log, s, Known)
  BY SureAt DEF PlaceInv, TypeInv, LockInv, Shape
<1>2. UNCHANGED <<disk, dst, unread>> /\ e.pc = "open" /\ Loose(e)
  BY DEF OpenLog, files, history, Loose
<1>3. CASE /\ dir.j = 0 /\ journals' = Append(journals, NoLog)
           /\ Change([dir EXCEPT !.j = Len(journals')])
           /\ ed' = [ed EXCEPT ![p].pc = "lock", ![p].fd = Len(journals'),
                               ![p].goal = "create"]
  <2>1. /\ Len(journals') = Len(journals) + 1 /\ Len(journals) \in Nat
        /\ \A g \in 1 .. Len(journals') :
             journals'[g] = IF g = Len(journals') THEN NoLog ELSE journals[g]
    BY <1>1, <1>3, LogsAppend DEF TypeInv, LockInv
  <2>2. HeardAll'
    <3>1. Heard(disk, NoLog)
      BY DEF Heard, NoLog
    <3> QED BY <1>1, <1>2, <2>1, <3>1, ToldHeard DEF HeardAll
  <2>3. u.pc = "lock" /\ u.meta = e.meta /\ u.text = e.text
    BY <1>1, <1>3 DEF Fields
  <2>4. Written(disk, e.meta) \subseteq {e.text}
    BY <1>1, <1>2, <1>3, NoFit, LooseText
  <2>5. ~Misfit(u) /\ ~Bare(u) /\ u.pc \in Fresh \ {"header"}
    BY <2>3 DEF Misfit, Bare, Fresh
  <2> QED BY <1>2, <2>2, <2>3, <2>4, <2>5, FreshTrue
<1>4. CASE UNCHANGED log /\ dir.j # 0
           /\ ed' = [ed EXCEPT ![p].pc = "adopt", ![p].fd = dir.j]
  <2>1. UNCHANGED <<journals, dir>>
    BY <1>4 DEF log
  <2>2. HeardAll' /\ Log' = Log /\ Sound(dir.j)' = s /\ Known' = Known
        /\ disk' = disk
    BY <1>1, <1>2, <2>1, HeardSame, LogSame, KnownSame DEF Sound
  <2>3. u.pc = "adopt" /\ u.meta = e.meta /\ u.text = e.text /\ u.goal = e.goal
    BY <1>1, <1>4 DEF Fields
  <2>4. Sure(u, disk, Log, s, Known)
    BY <1>1, <1>2, <2>3 DEF Sure, Loose, Aside, Bare, Fresh, Misfit
  <2> QED BY <2>2, <2>3, <2>4, TruthOf
<1>5. CASE UNCHANGED log /\ Close(p, "stuck")
  <2>1. HeardAll'
    BY <1>1, <1>2, <1>5, HeardSame DEF log
  <2> QED BY <1>1, <1>5, <2>1, CloseFields, StuckTrue
<1> QED BY <1>3, <1>4, <1>5 DEF OpenLog, NoLog

LEMMA LockTrue ==
  ASSUME Alone, PlaceInv, TruthInv, NEW p \in Editors, Lock(p)
  PROVE  TruthInv'
<1> DEFINE e == ed[p]
           u == ed'[p]
           s == Sound(dir.j)
<1>1. /\ TypeInv /\ DOMAIN e = Fields /\ p \in DOMAIN ed
      /\ HeardAll /\ Sure(e, disk, Log, s, Known)
  BY SureAt DEF PlaceInv, TypeInv, LockInv, Shape
<1>2. UNCHANGED <<disk, dst, journals>> /\ e.pc = "lock" /\ HeardAll'
  BY <1>1, HeardSame DEF Lock, files, log, history
<1>3. CASE ed' = [ed EXCEPT ![p].held = TRUE, ![p].pc = "oldBase"]
  <2>1. u.pc = "oldBase" /\ u.meta = e.meta /\ u.text = e.text
    BY <1>1, <1>3 DEF Fields
  <2>2. Written(disk, e.meta) \subseteq {e.text}
    BY <1>1, <1>2 DEF Sure, Fresh
  <2>3. ~Misfit(u) /\ ~Bare(u) /\ u.pc \in Fresh \ {"header"}
    BY <2>1 DEF Misfit, Bare, Fresh
  <2> QED BY <1>2, <2>1, <2>2, <2>3, FreshTrue
<1>4. CASE Close(p, "stuck")
  BY <1>1, <1>2, <1>4, CloseFields, StuckTrue
<1> QED BY <1>3, <1>4 DEF Lock

(* A journal without records.                                                *)
LEMMA EmptyLog ==
  ASSUME NEW t \in Texts
  PROVE  /\ ValidPrefix(<<>>) = <<>> /\ Follows(<<>>, t) /\ Leads(<<>>, t) = t
<1> DEFINE r == << >>
<1>1. r \in Seq(Recs) /\ Len(r) = 0
  BY EmptySeq
<1> HIDE DEF r
<1>2. ValidPrefix(r) \in Seq(Recs) /\ Len(ValidPrefix(r)) \in 0 .. 0
  BY <1>1, PrefixRecs
<1>3. ValidPrefix(r) = r
  <2>1. Len(ValidPrefix(r)) = 0
    BY <1>2
  <2> QED BY <1>1, <1>2, <2>1, EmptySeq DEF r
<1>4. Follows(r, t)
  BY <1>1 DEF Follows
<1>5. Leads(r, t) = t
  <2> DEFINE a == After(t, r, 0)
  <2>1. r \in Seq([op : Nat, on : Texts]) /\ 0 \in 0 .. Len(r)
    BY <1>1 DEF Recs
  <2>2. a \in Texts /\ Len(a) = Len(t) + 0 /\ \A i \in 1 .. Len(t) : a[i] = t[i]
    BY <2>1, AfterText
  <2> HIDE DEF a
  <2>3. Len(t) \in Nat
    BY LenProperties DEF Texts
  <2>4. Len(a) = Len(t)
    BY <2>2, <2>3
  <2>5. a = t
    BY <2>2, <2>4, SeqEqual DEF Texts
  <2> QED BY <1>1, <2>5 DEF Leads, a
<1> QED BY <1>3, <1>4, <1>5 DEF r

LEMMA AdoptTrue ==
  ASSUME Alone, PlaceInv, TruthInv, NEW p \in Editors, Adopt(p)
  PROVE  TruthInv'
<1> DEFINE e == ed[p]
           u == ed'[p]
           f == e.fd
           x == journals[f]
           r == ValidPrefix(x.recs)
           s == Sound(dir.j)
<1>1. /\ TypeInv /\ DOMAIN e = Fields /\ p \in DOMAIN ed /\ Locked(e)
      /\ HeardAll /\ Sure(e, disk, Log, s, Known)
  BY SureAt DEF PlaceInv, TypeInv, LockInv, Shape
<1>2. UNCHANGED <<disk, dst, dir>> /\ e.pc = "adopt" /\ Loose(e)
  BY DEF Adopt, files, Loose
<1>3. dir.j = f /\ Log = x /\ f \in 1 .. Len(journals) /\ GoodLog(x) /\ dir.j # 0
  <2>1. f # 0
    BY <1>1, <1>2 DEF Locked, Reaching
  <2> QED BY <1>1, <1>2, <2>1, LogOpen, LogOf
<1>4. CASE /\ Sound(f) /\ HeaderMatches(f, e.meta) /\ Unread(p, f, r)
           /\ ed' = [ed EXCEPT ![p].pc = "edit", ![p].held = TRUE]
           /\ IF r = x.recs THEN UNCHANGED journals
              ELSE SetJournal(f, [x EXCEPT !.recs = r, !.safe = Len(r) + 1])
  <2>1. Fit(x.hdr, e.meta) /\ s
    BY <1>3, <1>4 DEF Fit, HeaderMatches
  <2>2. Known => Made(disk, x, e.text) \/ (e.goal = "aside" /\ Basis(disk, x, e.text))
    BY <1>1, <1>2, <1>3, <2>1 DEF Sure, Aside
  <2>3. u.pc = "edit" /\ u.fd = f /\ u.meta = e.meta /\ u.text = e.text
    BY <1>1, <1>4 DEF Fields
  <2>8. unread' = IF e.goal = "aside" /\ r # <<>> THEN unread \cup {f} ELSE unread
    BY <1>4 DEF Unread
  <2>9. Known' => Known /\ Made(disk, x, e.text)
    <3> SUFFICES ASSUME Known' PROVE Known /\ Made(disk, x, e.text)
      OBVIOUS
    <3>1. Known /\ (e.goal = "aside" => r = <<>>)
      BY <1>2, <1>3, <2>8 DEF Known
    <3>2. ASSUME r = <<>>, Basis(disk, x, e.text) PROVE Made(disk, x, e.text)
      <4>1. e.text \in Texts /\ e.text = Leads(r, e.text)
        BY <1>1, <3>2, EmptyLog DEF TypeInv, EdsOK, GoodEd
      <4> QED BY <3>2, <4>1 DEF Made
    <3> QED BY <2>2, <3>1, <3>2
  <2>4. PICK y : Alike(x, y) /\ HeardAll' /\ Log' = y /\ ValidPrefix(y.recs) = y.recs
    <3>1. CASE r = x.recs
      <4>1. Log' = x
        BY <1>2, <1>3, <1>4, <3>1, LogSame
      <4>2. HeardAll'
        BY <1>1, <1>2, <1>4, <2>8, <3>1 DEF HeardAll, Trusted, Heard
      <4> QED BY <3>1, <4>1, <4>2, AlikeSelf
    <3>2. CASE r # x.recs
      <4> DEFINE y == [x EXCEPT !.recs = r, !.safe = Len(r) + 1]
      <4>1. y.hdr = x.hdr /\ y.recs = r /\ SetJournal(f, y)
        BY <1>3, <1>4, <3>2 DEF GoodLog
      <4> HIDE DEF y
      <4>2. Alike(x, y) /\ ValidPrefix(y.recs) = y.recs
        BY <1>3, <2>1, <4>1, CutAlike DEF Fit
      <4>3. Trusted(disk, y, Known)
        BY <1>1, <1>3, <4>2, LogHeard, TrustedStays, FirmSelf
      <4>4. Trusted(disk, y, Known')
        BY <2>1, <2>9, <4>1, <4>3 DEF Trusted, Fit
      <4>5. \A g : g # dir.j => (g \in unread' <=> g \in unread)
        BY <1>3, <2>8
      <4> QED BY <1>1, <1>2, <1>3, <4>1, <4>2, <4>4, <4>5, HeardSet
    <3> QED BY <3>1, <3>2
  <2>5. Known' => Made(disk, y, u.text)
    BY <2>9, <2>3, <2>4, MadeStays, FirmSelf
  <2>6. Sure(u, disk, y, Sound(dir.j)', Known')
    BY <1>3, <2>3, <2>4, <2>5 DEF Sure, Loose, Bare, Fresh, Misfit
  <2>7. disk' = disk /\ u.pc \notin {"inplace", "inplace log"}
    BY <1>2, <2>3
  <2> QED BY <2>4, <2>6, <2>7, TruthOf
<1>5. CASE /\ UNCHANGED <<journals, unread>> /\ ~HeaderMatches(f, e.meta)
           /\ ed' = [ed EXCEPT ![p].pc = "oldBase", ![p].goal = "again",
                               ![p].held = TRUE]
  <2>1. u.pc = "oldBase" /\ u.meta = e.meta /\ u.text = e.text
    BY <1>1, <1>5 DEF Fields
  <2>2. ~Fit(x.hdr, e.meta)
    BY <1>5 DEF Fit, HeaderMatches
  <2>3. Written(disk, e.meta) \subseteq {e.text}
    BY <1>1, <1>2, <1>3, <2>2, LooseText
  <2>4. ~Misfit(u) /\ ~Bare(u) /\ u.pc \in Fresh \ {"header"}
    BY <2>1 DEF Misfit, Bare, Fresh
  <2>5. HeardAll'
    BY <1>1, <1>2, <1>5, HeardSame
  <2> QED BY <1>2, <2>1, <2>3, <2>4, <2>5, FreshTrue
<1>6. CASE UNCHANGED <<journals, unread>> /\ Close(p, "stuck")
  <2>1. HeardAll'
    BY <1>1, <1>2, <1>6, HeardSame
  <2> QED BY <1>1, <1>6, <2>1, CloseFields, StuckTrue
<1> QED BY <1>4, <1>5, <1>6 DEF Adopt

-----------------------------------------------------------------------------
(* A journal of an older version is none of the version worked on.           *)
LEMMA OlderMisfit ==
  ASSUME PlaceInv, NEW p \in Editors, NEW m, m = ed[p].meta,
         Headed(dir.j) => Older(H(dir.j), m)
  PROVE  ~Fit(Log.hdr, m)
<1> SUFFICES ASSUME Fit(Log.hdr, m) PROVE FALSE
  OBVIOUS
<1>1. TypeInv /\ dir.j # 0 /\ Log = journals[dir.j]
  BY LogFit DEF PlaceInv
<1>2. dir.j \in 1 .. Len(journals) /\ Headed(dir.j)
  BY <1>1, DirLog DEF Fit, Headed, H
<1>3. Version(H(dir.j)) /\ Version(m)
  BY <1>1, <1>2, HeaderVersion, MetaVersion
<1> QED BY <1>1, <1>2, <1>3, OlderFit DEF H

(* What a step between taking a journal and dropping it begins with.         *)
LEMMA WorkAt ==
  ASSUME PlaceInv, TruthInv, NEW p \in Editors, NEW e, e = ed[p],
         e.pc \in Inside
  PROVE  /\ TypeInv /\ DOMAIN e = Fields /\ p \in DOMAIN ed /\ Locked(e)
         /\ GoodEd(e) /\ Sited(e) /\ HeardAll /\ Sure(e, disk, Log, Sound(dir.j), Known)
         /\ e.fd # 0
         /\ e.pc \in Fresh => Written(disk, e.meta) \subseteq {e.text}
<1>1. /\ TypeInv /\ DOMAIN e = Fields /\ p \in DOMAIN ed /\ Locked(e)
      /\ GoodEd(e) /\ Sited(e) /\ HeardAll /\ Sure(e, disk, Log, Sound(dir.j), Known)
  BY SureAt DEF PlaceInv, TypeInv, LockInv, Shape, EdsOK, Placed
<1>2. e.fd # 0
  BY <1>1 DEF GoodEd
<1>3. e.pc \in Fresh => Written(disk, e.meta) \subseteq {e.text}
  BY <1>1 DEF Sure
<1> QED BY <1>1, <1>2, <1>3

(* Preserving what an older version of the file left.                        *)
LEMMA NotPreservedTrue ==
  ASSUME Alone, PlaceInv, TruthInv, NEW p \in Editors, NotPreserved(p),
         UNCHANGED <<disk, journals, unread>>, ed[p].pc \in {"oldBase", "oldLog"},
         ed[p].goal = "create" \/ ~Fit(Log.hdr, ed[p].meta)
  PROVE  TruthInv'
<1> DEFINE e == ed[p]
           u == ed'[p]
<1>1. TypeInv /\ HeardAll' /\ Written(disk, e.meta) \subseteq {e.text}
  BY WorkAt, HeardSame DEF Inside, Fresh
<1>2. CASE Close(p, "stuck")
  BY <1>1, <1>2, CloseFields, StuckTrue
<1>3. CASE e.goal # "create" /\ Close(p, "edit") /\ UNCHANGED <<dir, cut>>
  <2>1. u.pc = "edit" /\ u.fd = 0 /\ u.meta = e.meta /\ u.text = e.text
    BY <1>1, <1>3, CloseFields
  <2>2. Log' = Log /\ ~Fit(Log.hdr, u.meta)
    BY <1>3, <2>1, LogSame
  <2>3. disk' = disk
    OBVIOUS
  <2> QED BY <1>1, <2>1, <2>2, <2>3, FreeTrue
<1> QED BY <1>2, <1>3 DEF NotPreserved, GiveUp

LEMMA PreserveBaseTrue ==
  ASSUME Alone, PlaceInv, TruthInv, NEW p \in Editors,
         PreserveBase(p) \/ PreserveBase2(p)
  PROVE  TruthInv'
<1> DEFINE e == ed[p]
           u == ed'[p]
<1>0. e.pc \in {"oldBase", "oldBase2"} /\ UNCHANGED <<disk, dst, journals, unread>>
  BY DEF PreserveBase, PreserveBase2, files, history
<1>a. e.pc \in Inside /\ e.pc \in Fresh
  BY <1>0 DEF Inside, Fresh
<1>1. /\ TypeInv /\ DOMAIN e = Fields /\ p \in DOMAIN ed /\ Sited(e)
      /\ e.fd # 0 /\ HeardAll /\ Written(disk, e.meta) \subseteq {e.text}
  BY <1>a, WorkAt
<1>2. HeardAll' /\ dir.j = e.fd
  BY <1>0, <1>1, HeardSame, LogOpen
<1>3. e.goal # "create" => ~Fit(Log.hdr, e.meta)
  <2>1. e.goal # "create" => (Headed(dir.j) => Older(H(dir.j), e.meta))
    BY <1>0, <1>1, <1>2 DEF Sited
  <2> QED BY <2>1, OlderMisfit
<1>4. CASE Close(p, "stuck")
  BY <1>1, <1>2, <1>4, CloseFields, StuckTrue
<1>5. ASSUME NEW label, label \in {"base", "oldLog", "oldBase2"}, Goto(p, label),
             label = "oldLog" => e.goal # "create" /\ dir'.j = dir.j
      PROVE  TruthInv'
  <2>1. /\ u.pc = label /\ u.meta = e.meta /\ u.text = e.text
        /\ u.goal = e.goal
    BY <1>1, <1>5, GotoFields
  <2>2. ~Bare(u) /\ u.pc \in Fresh \ {"header"}
    BY <1>5, <2>1 DEF Bare, Fresh
  <2>3. ASSUME NEW y, y = Log', Misfit(u) PROVE ~Fit(y.hdr, u.meta)
    <3>1. label = "oldLog"
      BY <1>5, <2>1, <2>3 DEF Misfit
    <3>2. Log' = Log
      BY <1>0, <1>5, <3>1, LogSame
    <3> QED BY <1>3, <1>5, <2>1, <2>3, <3>1, <3>2
  <2>4. disk' = disk
    BY <1>0
  <2> QED BY <1>1, <1>2, <2>1, <2>2, <2>3, <2>4, FreshTrue
<1>6. CASE PreserveBase(p)
  <2>1. CASE NotPreserved(p)
    <3>1. e.pc = "oldBase"
      BY <1>6 DEF PreserveBase
    <3> QED BY <1>0, <1>3, <2>1, <3>1, NotPreservedTrue
  <2>2. CASE UNCHANGED dir /\ Goto(p, IF e.goal = "create" THEN "base" ELSE "oldLog")
    BY <1>5, <2>2
  <2>3. CASE Goto(p, "oldBase2")
    BY <1>5, <2>3
  <2> QED BY <1>6, <2>1, <2>2, <2>3 DEF PreserveBase
<1>7. CASE PreserveBase2(p)
  <2>1. CASE /\ Commit([dir EXCEPT !.b = NoBase])
             /\ Goto(p, IF e.goal = "create" THEN "base" ELSE "oldLog")
    <3>1. dir'.j = dir.j
      BY <1>1, <2>1, DirFields DEF Commit
    <3> QED BY <1>5, <2>1, <3>1
  <2>2. CASE /\ Close(p, IF e.goal = "replay" THEN "edit" ELSE "stuck")
             /\ dir' = [dir EXCEPT !.b = NoBase,
                          !.j = IF e.goal = "create" THEN 0 ELSE @]
    <3>1. CASE e.goal = "replay"
      <4>1. dir' = [dir EXCEPT !.b = NoBase, !.j = dir.j]
        BY <2>2, <3>1
      <4>2. dir'.j = dir.j
        BY <1>1, <4>1, DirFields
      <4>3. u.pc = "edit" /\ u.fd = 0 /\ u.meta = e.meta /\ u.text = e.text
        BY <1>1, <2>2, <3>1, CloseFields
      <4>4. Log' = Log /\ ~Fit(Log.hdr, u.meta) /\ disk' = disk
        BY <1>0, <1>3, <3>1, <4>2, <4>3, LogSame
      <4> QED BY <1>1, <1>2, <4>3, <4>4, FreeTrue
    <3>2. CASE e.goal # "replay"
      BY <1>4, <2>2, <3>2
    <3> QED BY <3>1, <3>2
  <2> QED BY <1>7, <2>1, <2>2 DEF PreserveBase2
<1> QED BY <1>6, <1>7

LEMMA PreserveLogTrue ==
  ASSUME Alone, PlaceInv, TruthInv, NEW p \in Editors,
         PreserveLog(p) \/ PreserveLog2(p)
  PROVE  TruthInv'
<1> DEFINE e == ed[p]
           u == ed'[p]
<1>0. e.pc \in {"oldLog", "oldLog2"} /\ UNCHANGED <<disk, dst, journals, unread>>
  BY DEF PreserveLog, PreserveLog2, files, history
<1>a. e.pc \in Inside /\ e.pc \in Fresh
  BY <1>0 DEF Inside, Fresh
<1>1. /\ TypeInv /\ DOMAIN e = Fields /\ p \in DOMAIN ed
      /\ e.fd # 0 /\ HeardAll /\ Written(disk, e.meta) \subseteq {e.text}
      /\ Sure(e, disk, Log, Sound(dir.j), Known)
  BY <1>a, WorkAt
<1>2. HeardAll' /\ dir.j = e.fd /\ disk' = disk
  BY <1>0, <1>1, HeardSame, LogOpen
<1>3. ~Fit(Log.hdr, e.meta)
  BY <1>0, <1>1 DEF Sure, Misfit
<1>4. CASE PreserveLog(p)
  <2>1. CASE Change([dir EXCEPT !.oldj = @ \cup {dir.j}]) /\ Goto(p, "oldLog2")
    <3>1. u.pc = "oldLog2" /\ u.meta = e.meta /\ u.text = e.text
      BY <1>1, <2>1, GotoFields
    <3>2. dir'.j = dir.j
      BY <1>1, <2>1, DirFields DEF Change
    <3>3. Log' = Log /\ ~Fit(Log.hdr, u.meta)
      BY <1>0, <1>3, <3>1, <3>2, LogSame
    <3>4. ~Bare(u) /\ u.pc \in Fresh \ {"header"}
      BY <3>1 DEF Bare, Fresh
    <3> QED BY <1>1, <1>2, <3>1, <3>3, <3>4, FreshTrue
  <2>2. CASE NotPreserved(p)
    <3>1. e.pc = "oldLog"
      BY <1>4 DEF PreserveLog
    <3> QED BY <1>0, <1>3, <2>2, <3>1, NotPreservedTrue
  <2> QED BY <1>4, <2>1, <2>2 DEF PreserveLog
<1>5. CASE PreserveLog2(p)
  <2>1. dir'.j = 0
    <3>1. Commit([dir EXCEPT !.j = 0]) \/ Change([dir EXCEPT !.j = 0])
      BY <1>2, <1>5 DEF PreserveLog2
    <3> QED BY <1>1, <3>1, DirFields DEF Commit, Change
  <2>2. Log' = NoLog /\ ~Fit(NoLog.hdr, u.meta)
    BY <2>1, NoFit
  <2>3. CASE ed' = [ed EXCEPT ![p].fd = 0, ![p].held = FALSE,
                ![p].pc = IF ed[p].goal = "again" THEN "open" ELSE "edit"]
    <3>1. u.pc \in {"open", "edit"} /\ u.fd = 0 /\ u.meta = e.meta
          /\ u.text = e.text
      BY <1>1, <2>3 DEF Fields
    <3> QED BY <1>1, <1>2, <2>2, <3>1, FreeTrue
  <2>4. CASE Close(p, "stuck")
    BY <1>1, <1>2, <2>4, CloseFields, StuckTrue
  <2>5. CASE Close(p, "edit")
    <3>1. u.pc = "edit" /\ u.fd = 0 /\ u.meta = e.meta /\ u.text = e.text
      BY <1>1, <2>5, CloseFields
    <3> QED BY <1>1, <1>2, <2>2, <3>1, FreeTrue
  <2> QED BY <1>5, <2>3, <2>4, <2>5 DEF PreserveLog2
<1> QED BY <1>4, <1>5

(* A copy kept as the base is of the text that was loaded.                   *)
LEMMA NewBaseText ==
  ASSUME PlaceInv, TruthInv, NEW p \in Editors, ed[p].pc = "base",
         ed[p].meta \in {Now, MetaOf(0)}, NewBase(p).kind = "copy"
  PROVE  NewBase(p).text = ed[p].text
<1> DEFINE e == ed[p]
<1>1. /\ TypeInv /\ GoodEd(e) /\ Written(disk, e.meta) \subseteq {e.text}
  BY WorkAt DEF Inside, Fresh
<1>2. CASE e.meta.ino = 0
  <2>1. Written(disk, e.meta) = {<<>>}
    BY <1>1, <1>2 DEF Written, GoodEd
  <2> QED BY <1>1, <1>2, <2>1 DEF NewBase, NoBase
<1>3. CASE e.meta.ino # 0
  <2>1. e.meta = Now
    BY <1>3 DEF MetaOf
  <2>2. Written(disk, e.meta) = {At(dst).text}
    BY <1>1, <2>1, WrittenNow DEF TypeInv
  <2>3. ~dir.near
    BY <1>3 DEF NewBase, NoBase
  <2> QED BY <1>1, <1>3, <2>2, <2>3 DEF NewBase, NoBase
<1> QED BY <1>2, <1>3

LEMMA CreateBaseTrue ==
  ASSUME Alone, PlaceInv, TruthInv, NEW p \in Editors, CreateBase(p)
  PROVE  TruthInv'
<1> DEFINE e == ed[p]
           u == ed'[p]
           b == NewBase(p)
<1>0. e.pc = "base" /\ UNCHANGED <<disk, dst, journals, unread>>
  BY DEF CreateBase, files, history
<1>a. e.pc \in Inside /\ e.pc \in Fresh
  BY <1>0 DEF Inside, Fresh
<1>1. /\ TypeInv /\ DOMAIN e = Fields /\ p \in DOMAIN ed
      /\ e.fd # 0 /\ HeardAll /\ Written(disk, e.meta) \subseteq {e.text}
  BY <1>a, WorkAt
<1>2. HeardAll' /\ disk' = disk
  BY <1>0, <1>1, HeardSame
<1>3. CASE \E y : GiveUp(p, y)
  BY <1>1, <1>2, <1>3, CloseFields, StuckTrue DEF GiveUp
<1>4. CASE Based(p) /\ (e.meta \in {MetaOf(dst), MetaOf(0)} \/ b.kind # "copy")
  <2>1. b.kind = "copy" => b.text = e.text
    BY <1>0, <1>4, NewBaseText DEF Now
  <2> HIDE DEF b
  <2>2. /\ u.pc = "header" /\ u.meta = e.meta /\ u.text = e.text /\ u.base = b
    BY <1>1, <1>4 DEF Based, Fields, b
  <2>3. ASSUME NEW x, x = Log', NEW s, s = Sound(dir.j)',
             NEW k, k = Known'
      PROVE  TruthInv'
    <3>1. Sure(u, disk, x, s, k)
      BY <1>1, <2>1, <2>2 DEF Sure, Loose, Bare, Fresh, Misfit
    <3>2. u.pc \notin {"inplace", "inplace log"}
      BY <2>2
    <3> QED BY <1>2, <2>3, <3>1, <3>2, TruthOf
  <2> QED BY <2>3
<1>5. CASE dir.b.kind = "link" /\ dir.b = b /\ Based(p)
  BY <1>4, <1>5
<1> QED BY <1>3, <1>4, <1>5 DEF CreateBase

LEMMA HeaderTrue ==
  ASSUME Alone, PlaceInv, TruthInv, NEW p \in Editors, WriteHeader(p)
  PROVE  TruthInv'
<1> DEFINE e == ed[p]
           u == ed'[p]
           f == e.fd
           x == journals[f]
           h == [ino |-> e.meta.ino, mtime |-> e.meta.mtime, base |-> e.base]
           y == [x EXCEPT !.hdr = h]
<1>0. e.pc = "header" /\ UNCHANGED <<disk, dst, unread>>
  BY DEF WriteHeader, files, history
<1>a. e.pc \in Inside /\ e.pc \in Fresh
  BY <1>0 DEF Inside, Fresh
<1>1. /\ TypeInv /\ DOMAIN e = Fields /\ p \in DOMAIN ed /\ Sited(e)
      /\ e.fd # 0 /\ HeardAll /\ Written(disk, e.meta) \subseteq {e.text}
      /\ Sure(e, disk, Log, Sound(dir.j), Known) /\ GoodEd(e)
  BY <1>a, WorkAt
<1>2. CASE GiveUp(p, TRUE) /\ UNCHANGED journals
  BY <1>0, <1>1, <1>2, HeardSame, CloseFields, StuckTrue DEF GiveUp
<1>3. CASE /\ SetJournal(f, y) /\ UNCHANGED <<dir, cut>>
           /\ ed' = [ed EXCEPT ![p].pc = "barrier", ![p].base = NoBase]
  <2>1. dir.j = f /\ Log = x /\ GoodLog(x)
    BY <1>0, <1>1, LogOpen, LogOf
  <2>2. x.hdr = NoHeader
    BY <1>0, <1>1 DEF Sited, Headed, H
  <2>3. x.recs = <<>>
    BY <1>1, <2>1, <2>2, LogHeard DEF Trusted, Heard
  <2>4. y.hdr = h /\ y.recs = <<>>
    BY <2>1, <2>3 DEF GoodLog
  <2> HIDE DEF y
  <2>5. u.pc = "barrier" /\ u.meta = e.meta /\ u.text = e.text
    BY <1>1, <1>3 DEF Fields
  <2>6. Grounds(disk, h) \subseteq {e.text}
    <3>1. Written(disk, h) = Written(disk, e.meta)
      BY DEF Written
    <3>2. h.base.kind = "copy" => h.base.text = e.text
      BY <1>0, <1>1 DEF Sure
    <3> HIDE DEF h
    <3> QED BY <1>1, <3>1, <3>2 DEF Grounds
  <2>7. Basis(disk, y, e.text)
    BY <1>1, <2>4, <2>6, EmptyLog DEF Basis, GoodEd
  <2>8. Heard(disk, y)
    BY <2>4, <2>6, <2>7 DEF Heard
  <2>9. HeardAll' /\ Log' = y
    BY <1>0, <1>1, <1>3, <2>1, <2>8, ToldHeard, HeardSet
  <2>10. ASSUME NEW s, s = Sound(dir.j)',
             NEW k, k = Known'
      PROVE  TruthInv'
    <3>1. Sure(u, disk, y, s, k)
      BY <2>4, <2>5, <2>7 DEF Sure, Loose, Bare, Fresh, Misfit
    <3>2. u.pc \notin {"inplace", "inplace log"} /\ disk' = disk
      BY <1>0, <2>5
    <3> QED BY <2>9, <2>10, <3>1, <3>2, TruthOf
  <2> QED BY <2>10
<1> QED BY <1>2, <1>3 DEF WriteHeader

LEMMA BarrierTrue ==
  ASSUME Alone, PlaceInv, TruthInv, NEW p \in Editors, Barrier(p)
  PROVE  TruthInv'
<1> DEFINE e == ed[p]
           u == ed'[p]
           f == e.fd
           x == journals[f]
           y == [x EXCEPT !.safe = 1]
<1>0. e.pc = "barrier" /\ UNCHANGED <<disk, dst, unread>>
  BY DEF Barrier, files, history
<1>a. e.pc \in Inside
  BY <1>0 DEF Inside
<1>1. /\ TypeInv /\ DOMAIN e = Fields /\ p \in DOMAIN ed
      /\ e.fd # 0 /\ HeardAll /\ Sure(e, disk, Log, Sound(dir.j), Known) /\ GoodEd(e)
  BY <1>a, WorkAt
<1>2. CASE GiveUp(p, TRUE) /\ UNCHANGED journals
  BY <1>0, <1>1, <1>2, HeardSame, CloseFields, StuckTrue DEF GiveUp
<1>3. CASE SetJournal(f, y) /\ Commit(dir) /\ Goto(p, "edit")
  <2>1. dir.j = f /\ Log = x /\ GoodLog(x)
    BY <1>0, <1>1, LogOpen, LogOf
  <2>2. x.recs = <<>> /\ Basis(disk, x, e.text)
    BY <1>0, <1>1, <2>1 DEF Sure
  <2>3. y.hdr = x.hdr /\ y.recs = x.recs
    BY <2>1 DEF GoodLog
  <2> HIDE DEF y
  <2>4. Alike(x, y)
    BY <2>3 DEF Alike
  <2>5. Basis(disk, y, e.text)
    BY <2>2, <2>4, BasisStays, FirmSelf
  <2>11. Heard(disk, y)
    BY <2>2, <2>3, <2>5 DEF Heard, Basis
  <2>6. HeardAll' /\ Log' = y
    BY <1>0, <1>1, <1>3, <2>1, <2>11, ToldHeard, HeardSet DEF Commit
  <2>7. e.text \in Texts
    BY <1>1 DEF GoodEd
  <2>8. Made(disk, y, e.text) /\ ValidPrefix(y.recs) = y.recs
    <3>1. e.text = Leads(ValidPrefix(y.recs), e.text)
      BY <2>2, <2>3, <2>7, EmptyLog
    <3> QED BY <2>2, <2>3, <2>5, <2>7, <3>1, EmptyLog DEF Made
  <2>9. u.pc = "edit" /\ u.fd = f /\ u.meta = e.meta /\ u.text = e.text
    BY <1>1, <1>3, GotoFields
  <2>10. ASSUME NEW s, s = Sound(dir.j)',
             NEW k, k = Known'
      PROVE  TruthInv'
    <3>1. Sure(u, disk, y, s, k)
      BY <1>1, <2>8, <2>9 DEF Sure, Loose, Bare, Fresh, Misfit
    <3>2. u.pc \notin {"inplace", "inplace log"} /\ disk' = disk
      BY <1>0, <2>9
    <3> QED BY <2>6, <2>10, <3>1, <3>2, TruthOf
  <2> QED BY <2>10
<1> QED BY <1>2, <1>3 DEF Barrier

(* A record more of an edit that is being made, or one cut short.            *)
LEMMA RecordedMore ==
  ASSUME NEW D, NEW x, x.recs \in Seq(Recs), ValidPrefix(x.recs) = x.recs,
         NEW t, Made(D, x, t), NEW r \in Recs, r # Bad, r.on = t,
         NEW y, y.hdr = x.hdr, y.recs = Append(x.recs, r)
  PROVE  /\ ValidPrefix(y.recs) = y.recs /\ Made(D, y, Append(t, r.op))
         /\ x.hdr # NoHeader => Heard(D, y)
<1>1. PICK b \in Texts : Basis(D, x, b) /\ t = Leads(x.recs, b)
  BY DEF Made
<1>2. ValidPrefix(y.recs) = y.recs
  BY ValidMore
<1>3. /\ Follows(y.recs, b) /\ Leads(y.recs, b) = Append(t, r.op)
      /\ Grounds(D, y.hdr) \subseteq {b}
  BY <1>1, FollowsMore DEF Basis
<1>4. Basis(D, y, b)
  BY <1>2, <1>3 DEF Basis
<1>5. x.hdr # NoHeader => Heard(D, y)
  BY <1>3, <1>4 DEF Heard
<1> QED BY <1>2, <1>3, <1>4, <1>5 DEF Made

(* What they begin with, and what they leave.                                *)
LEMMA EditAt ==
  ASSUME PlaceInv, TruthInv, NEW p \in Editors, Ready(p), ~ed[p].bad,
         NEW e, e = ed[p], NEW f, f = e.fd, NEW x, x = journals[f]
  PROVE  /\ TypeInv /\ DOMAIN e = Fields /\ p \in DOMAIN ed /\ e.pc = "edit"
         /\ f # 0 /\ dir.j = f /\ Log = x /\ f \in 1 .. Len(journals)
         /\ GoodLog(x) /\ x.recs \in Seq(Recs) /\ x.hdr # NoHeader
         /\ HeardAll /\ e.text \in Texts
         /\ ValidPrefix(x.recs) = x.recs /\ (Known => Made(disk, x, e.text))
<1>1. /\ TypeInv /\ DOMAIN e = Fields /\ p \in DOMAIN ed /\ e.pc = "edit"
      /\ f # 0 /\ Sited(e) /\ HeardAll /\ Sure(e, disk, Log, Sound(dir.j), Known)
      /\ GoodEd(e)
  BY SureAt DEF PlaceInv, TypeInv, LockInv, Shape, EdsOK, Placed, Ready
<1>2. dir.j = f /\ Log = x /\ f \in 1 .. Len(journals)
  BY <1>1, LogOpen
<1>3. x.hdr # NoHeader
  BY <1>1 DEF Sited, Headed, H
<1>4. GoodLog(x) /\ x.recs \in Seq(Recs)
  BY <1>1, <1>2, LogOf
<1>5. ValidPrefix(x.recs) = x.recs /\ (Known => Made(disk, x, e.text))
  BY <1>1, <1>2 DEF Sure
<1> QED BY <1>1, <1>2, <1>3, <1>4, <1>5 DEF GoodEd

(* The journal of an editor at work grows, or its records are no more relied *)
(* on.                                                                       *)
LEMMA EditedTrue ==
  ASSUME Alone, NEW p \in Editors, HeardAll', UNCHANGED disk,
         NEW e, e = ed'[p], e.pc = "edit", e.fd # 0, NEW y, y = Log',
         e.bad \/ (ValidPrefix(y.recs) = y.recs /\ (Known' => Made(disk, y, e.text)))
  PROVE  TruthInv'
<1>1. ASSUME NEW s, s = Sound(dir.j)',
             NEW k, k = Known'
      PROVE  TruthInv'
  <2>1. Sure(e, disk, y, s, k)
    BY <1>1 DEF Sure, Loose, Bare, Fresh, Misfit
  <2> QED BY <1>1, <2>1, TruthOf
<1> QED BY <1>1

LEMMA RecordTrue ==
  ASSUME Alone, PlaceInv, TruthInv, NEW p \in Editors, Record(p)
  PROVE  TruthInv'
<1> DEFINE e == ed[p]
           u == ed'[p]
           f == e.fd
           x == journals[f]
           t == Append(e.text, clock + 1)
<1>0. Ready(p) /\ ~e.bad /\ clock < MaxClock /\ UNCHANGED <<disk, dst, dir, unread>>
  BY DEF Record, files, history
<1>1. /\ TypeInv /\ DOMAIN e = Fields /\ p \in DOMAIN ed /\ e.pc = "edit"
      /\ f # 0 /\ dir.j = f /\ Log = x /\ f \in 1 .. Len(journals)
      /\ GoodLog(x) /\ x.recs \in Seq(Recs) /\ x.hdr # NoHeader
      /\ HeardAll /\ e.text \in Texts /\ Known' = Known
      /\ ValidPrefix(x.recs) = x.recs /\ (Known => Made(disk, x, e.text))
  BY <1>0, EditAt, KnownSame
<1>2. DOMAIN x = {"hdr", "recs", "safe"}
  BY <1>1 DEF GoodLog
<1>3. Trusted(disk, x, Known)
  BY <1>1, LogHeard
<1> HIDE DEF x
<1>4. CASE /\ \E pr : ed' = [ed EXCEPT ![p].text = t, ![p].synced = FALSE,
                                       ![p].prot = pr]
           /\ SetJournal(f, [x EXCEPT
                !.recs = Append(@, [op |-> clock + 1, on |-> e.text])])
  <2> DEFINE r == [op |-> clock + 1, on |-> e.text]
             y == [x EXCEPT !.recs = Append(@, r)]
  <2>1. r \in Recs /\ r # Bad /\ r.on = e.text /\ r.op = clock + 1
    <3>1. clock + 1 \in Nat /\ clock \in Nat
      BY <1>0, <1>1, ClockNext
    <3>2. r.op # Bad.op
      BY <3>1 DEF Bad
    <3> QED BY <1>1, <3>1, <3>2 DEF Recs
  <2> HIDE DEF r
  <2>2. y.hdr = x.hdr /\ y.recs = Append(x.recs, r)
    BY <1>2
  <2>3. SetJournal(f, y)
    BY <1>4 DEF r
  <2> HIDE DEF y
  <2>4. /\ ValidPrefix(y.recs) = y.recs /\ (Known => Made(disk, y, t))
        /\ Trusted(disk, y, Known)
    <3>1. ValidPrefix(y.recs) = y.recs
      BY <1>1, <2>1, <2>2, ValidMore
    <3>2. Known => Made(disk, y, t) /\ Heard(disk, y)
      BY <1>1, <2>1, <2>2, RecordedMore
    <3> QED BY <1>1, <2>2, <3>1, <3>2 DEF Trusted
  <2>5. HeardAll' /\ Log' = y
    BY <1>0, <1>1, <2>3, <2>4, HeardSet
  <2> HIDE DEF t
  <2>6. u.pc = "edit" /\ u.fd = f /\ u.text = t
    BY <1>1, <1>4 DEF Fields
  <2> QED BY <1>0, <1>1, <2>4, <2>5, <2>6, EditedTrue
<1>5. CASE /\ ed' = [ed EXCEPT ![p].text = t, ![p].bad = TRUE]
           /\ \/ SetJournal(f, [x EXCEPT !.recs = Append(@, Bad)])
              \/ UNCHANGED journals
  <2>1. HeardAll' /\ dir'.j = f
    <3>1. CASE UNCHANGED journals
      BY <1>0, <1>1, <3>1, HeardSame
    <3>2. CASE SetJournal(f, [x EXCEPT !.recs = Append(@, Bad)])
      <4> DEFINE y == [x EXCEPT !.recs = Append(@, Bad)]
      <4>1. y.hdr = x.hdr /\ y.recs = Append(x.recs, Bad) /\ SetJournal(f, y)
        BY <1>2, <3>2
      <4> HIDE DEF y
      <4>2. Bad \in Recs
        BY DEF Bad, Recs, Texts
      <4>3. ValidPrefix(y.recs) = x.recs
        BY <1>1, <4>1, <4>2, ValidMore
      <4>4. Alike(x, y)
        BY <1>1, <4>1, <4>3 DEF Alike
      <4>5. Trusted(disk, y, Known)
        BY <1>3, <4>4, TrustedStays, FirmSelf
      <4> QED BY <1>0, <1>1, <4>1, <4>5, HeardSet
    <3> QED BY <1>5, <3>1, <3>2
  <2> HIDE DEF t
  <2>2. u.pc = "edit" /\ u.fd = f /\ u.bad
    BY <1>1, <1>5 DEF Fields
  <2> QED BY <1>0, <1>1, <2>1, <2>2, EditedTrue
<1>6. \/ /\ \E pr : ed' = [ed EXCEPT ![p].text = t, ![p].synced = FALSE,
                                     ![p].prot = pr]
         /\ SetJournal(f, [x EXCEPT
                !.recs = Append(@, [op |-> clock + 1, on |-> e.text])])
      \/ /\ ed' = [ed EXCEPT ![p].text = t, ![p].bad = TRUE]
         /\ \/ SetJournal(f, [x EXCEPT !.recs = Append(@, Bad)])
            \/ UNCHANGED journals
  BY Zenon DEF Record, x
<1> QED BY <1>4, <1>5, <1>6

LEMMA SyncTrue ==
  ASSUME Alone, PlaceInv, TruthInv, NEW p \in Editors, Sync(p)
  PROVE  TruthInv'
<1> DEFINE e == ed[p]
           u == ed'[p]
           f == e.fd
           x == journals[f]
           y == [x EXCEPT !.safe = Size(x)]
<1>0. Ready(p) /\ ~e.bad /\ UNCHANGED <<disk, dst, dir, unread>>
  BY DEF Sync, files, history
<1>1. /\ TypeInv /\ DOMAIN e = Fields /\ p \in DOMAIN ed /\ e.pc = "edit"
      /\ f # 0 /\ dir.j = f /\ Log = x /\ f \in 1 .. Len(journals)
      /\ GoodLog(x) /\ x.recs \in Seq(Recs) /\ x.hdr # NoHeader
      /\ HeardAll /\ e.text \in Texts /\ Known' = Known
      /\ ValidPrefix(x.recs) = x.recs /\ (Known => Made(disk, x, e.text))
  BY <1>0, EditAt, KnownSame
<1>2. CASE SetJournal(f, y) /\ \E pr :
             ed' = [ed EXCEPT ![p].synced = TRUE, ![p].prot = pr]
  <2>1. y.hdr = x.hdr /\ y.recs = x.recs
    BY <1>1 DEF GoodLog
  <2> HIDE DEF y
  <2>2. Alike(x, y) /\ Trusted(disk, x, Known)
    BY <1>1, <2>1, LogHeard DEF Alike
  <2>3. Trusted(disk, y, Known) /\ (Known => Made(disk, y, e.text))
    BY <1>1, <2>2, TrustedStays, MadeStays, FirmSelf
  <2>4. HeardAll' /\ Log' = y
    BY <1>0, <1>1, <1>2, <2>3, HeardSet
  <2>5. u.pc = "edit" /\ u.fd = f /\ u.text = e.text
    BY <1>1, <1>2 DEF Fields
  <2> QED BY <1>0, <1>1, <2>1, <2>3, <2>4, <2>5, EditedTrue
<1>3. CASE ed' = [ed EXCEPT ![p].bad = TRUE] /\ UNCHANGED journals
  <2>1. HeardAll'
    BY <1>0, <1>1, <1>3, HeardSame
  <2>2. u.pc = "edit" /\ u.fd = f /\ u.bad
    BY <1>1, <1>3 DEF Fields
  <2> QED BY <1>0, <1>1, <2>1, <2>2, EditedTrue
<1>4. \/ SetJournal(f, y) /\ \E pr :
             ed' = [ed EXCEPT ![p].synced = TRUE, ![p].prot = pr]
      \/ ed' = [ed EXCEPT ![p].bad = TRUE] /\ UNCHANGED journals
  BY Zenon DEF Sync
<1> QED BY <1>2, <1>3, <1>4

-----------------------------------------------------------------------------
(* What a save, and another program, does to the inodes: the times it sets   *)
(* are later than c.                                                         *)
Renewed(D, E, c) ==
  /\ Len(D) \in Nat /\ c \in Nat /\ Len(D) <= Len(E)
  /\ \A i \in 1 .. Len(D) : E[i] = D[i] \/ E[i].mtime = c + 1

LEMMA RenewedFirm ==
  ASSUME NEW D, NEW E, NEW c, Renewed(D, E, c), NEW m,
         m.ino \in Nat, m.ino <= Len(D), m.mtime \in Nat, m.mtime <= c
  PROVE  Written(E, m) \subseteq Written(D, m)
<1>1. CASE m.ino = 0
  BY <1>1 DEF Written
<1>2. CASE m.ino # 0
  <2>1. m.ino \in 1 .. Len(D)
    BY <1>2 DEF Renewed
  <2>2. E[m.ino] = D[m.ino] \/ E[m.ino].mtime # m.mtime
    <3>1. E[m.ino] = D[m.ino] \/ E[m.ino].mtime = c + 1
      BY <2>1 DEF Renewed
    <3>2. m.mtime # c + 1
      BY DEF Renewed
    <3> QED BY <3>1, <3>2
  <2> QED BY <1>2, <2>2 DEF Written
<1> QED BY <1>1, <1>2

(* Changes to the inodes teach nothing of what the journals vouch for.       *)
LEMMA HeardFirm ==
  ASSUME HeardAll, UNCHANGED <<journals, unread>>, NEW E, E = disk',
         \A f \in 1 .. Len(journals) : Firm(disk, E, journals[f].hdr)
  PROVE  HeardAll'
<1>1. ASSUME NEW f \in 1 .. Len(journals) 
      PROVE  Trusted(E, journals[f], f \notin unread)
  BY TrustedStays, AlikeSelf DEF HeardAll
<1> QED BY <1>1 DEF HeardAll

LEMMA RenewedHeard ==
  ASSUME TypeInv, HeardAll, UNCHANGED <<journals, unread>>, NEW E, E = disk',
         Renewed(disk, E, clock)
  PROVE  HeardAll' /\ \A f \in 1 .. Len(journals) :
                        Firm(disk, E, journals[f].hdr)
<1>1. ASSUME NEW f \in 1 .. Len(journals), NEW h, h = journals[f].hdr
      PROVE  Firm(disk, E, h)
  <2>1. GoodLog(journals[f])
    BY LogOf
  <2>2. h.ino \in Nat /\ h.ino <= Len(disk) /\ h.mtime \in Nat /\ h.mtime <= clock
    BY <1>1, <2>1 DEF GoodLog
  <2>3. Written(E, h) \subseteq Written(disk, h)
    BY <2>2, RenewedFirm
  <2> QED BY <2>3 DEF Firm, Grounds
<1>2. \A f \in 1 .. Len(journals) : Firm(disk, E, journals[f].hdr)
  BY <1>1
<1> QED BY <1>2, HeardFirm

(* What a version says that an inode has now.                                *)
LEMMA WrittenHere ==
  ASSUME NEW D, NEW m, m.ino # 0, m.mtime = D[m.ino].mtime
  PROVE  Written(D, m) = {D[m.ino].text}
BY DEF Written

LEMMA NowHere ==
  ASSUME NEW E, E = disk', dst' # 0
  PROVE  Written(E, Now') = {E[dst'].text}
<1> DEFINE m == [ino |-> dst', mtime |-> E[dst'].mtime]
<1>1. Now' = m
  BY DEF Now, MetaOf, At
<1>2. m.ino = dst' /\ m.mtime = E[dst'].mtime
  OBVIOUS
<1> HIDE DEF m
<1>3. Written(E, m) = {E[dst'].text}
  BY <1>2, WrittenHere
<1> QED BY <1>1, <1>3

(* A save.                                                                   *)
LEMMA SavedTrue ==
  ASSUME Alone, PlaceInv, TypeInv', NEW p \in Editors, HeardAll', Saved(p),
         UNCHANGED <<journals, dir>>, NEW E, E = disk',
         Written(E, Now') \subseteq {ed[p].text},
         \A f \in 1 .. Len(journals) : Headed(f) => Older(H(f), Now')
  PROVE  TruthInv'
<1> DEFINE e == ed[p]
<1>1. TypeInv /\ DOMAIN e = Fields /\ p \in DOMAIN ed
  BY DEF PlaceInv, TypeInv, LockInv, Shape
<1>2. /\ ed'[p].pc = IF e.fd = 0 THEN "edit" ELSE "dropBase"
      /\ ed'[p].meta = Now' /\ ed'[p].fd = e.fd /\ ed'[p].goal = "none"
      /\ ed'[p].text = e.text
  BY <1>1 DEF Saved, Fields, Now
<1>3. ASSUME NEW m, m = Now' PROVE ~Fit(Log.hdr, m)
  <2> SUFFICES ASSUME Fit(Log.hdr, m) PROVE FALSE
    OBVIOUS
  <2>1. dir.j # 0 /\ Log = journals[dir.j]
    BY LogFit
  <2>2. dir.j \in 1 .. Len(journals) /\ Headed(dir.j)
    BY <1>1, <2>1, DirLog DEF Fit, Headed, H
  <2>3. Version(m)
    <3>1. Version(Now)'
      BY NowVersion, PTL
    <3> QED BY <1>3, <3>1 DEF Version
  <2>4. Version(H(dir.j)) /\ Older(H(dir.j), m)
    BY <1>1, <1>3, <2>2, HeaderVersion
  <2> QED BY <2>1, <2>3, <2>4, OlderFit DEF H
<1>4. ASSUME NEW u, u = ed'[p], NEW s, s = Sound(dir.j)',
             NEW k, k = Known', NEW x, x = Log'
      PROVE  TruthInv'
  <2>1. x = Log
    BY <1>4, LogSame
  <2>2. ~Fit(x.hdr, u.meta) /\ Written(E, u.meta) \subseteq {u.text}
    BY <1>2, <1>3, <1>4, <2>1
  <2>3. CASE u.pc = "edit" /\ u.fd = 0
    <3>1. Sure(u, E, x, s, k)
      BY <2>2, <2>3, SureFree
    <3> QED BY <1>4, <2>3, <3>1, TruthOf
  <2>4. CASE u.pc = "dropBase"
    <3>1. u.pc \in Fresh \ {"header"} /\ ~Misfit(u)
      BY <2>4 DEF Fresh, Misfit
    <3>2. Sure(u, E, x, s, k)
      BY <2>2, <3>1, SureFresh
    <3> QED BY <1>4, <2>4, <3>2, TruthOf
  <2> QED BY <1>2, <1>4, <2>3, <2>4
<1> QED BY <1>4

(* One that replaces the file.                                               *)
LEMMA SaveAtomicTrue ==
  ASSUME Alone, PlaceInv, TruthInv, NEW p \in Editors, SaveAtomic(p)
  PROVE  TruthInv'
<1> DEFINE e == ed[p]
<1>1. /\ TypeInv /\ TypeInv' /\ FilesOK /\ GoodEd(e) /\ e.text \in Texts
      /\ HeardAll
  BY SaveTyped, SureAt DEF PlaceInv, TypeInv, EdsOK, GoodEd
<1>b. Len(disk) \in Nat /\ clock \in Nat
  BY <1>1, LenProperties, ClockBound DEF FilesOK
<1>2. /\ UNCHANGED <<journals, dir, cut, baseless, unread>>
      /\ baseless \subseteq baseless' /\ Saved(p)
      /\ clock < MaxClock /\ clock' = clock + 1
      /\ disk' = Append(disk, [text |-> e.text, mtime |-> clock'])
      /\ dst' = Len(disk')
  BY DEF SaveAtomic, log, history
<1>3. /\ Len(disk') = Len(disk) + 1
      /\ \A i \in 1 .. Len(disk) : disk'[i] = disk[i]
      /\ disk'[dst'] = [text |-> e.text, mtime |-> clock']
  BY <1>1, <1>2, FileReplaced, ClockNext
<1>4. Older(Now, Now')
  BY <1>1, <1>2, NowReplaced
<1>5. \A f \in 1 .. Len(journals) : Headed(f) => Older(H(f), Now')
  BY <1>1, <1>2, <1>4, NewerNow
<1>6. ASSUME NEW E, E = disk' PROVE TruthInv'
  <2>1. Renewed(disk, E, clock)
    BY <1>b, <1>3, <1>6 DEF Renewed
  <2>2. HeardAll'
    BY <1>1, <1>2, <1>6, <2>1, RenewedHeard
  <2>3. Written(E, Now') = {e.text}
    <3>1. dst' # 0
      BY <1>b, <1>2, <1>3
    <3>2. Written(E, Now') = {E[dst'].text}
      BY <1>6, <3>1, NowHere
    <3> QED BY <1>3, <1>6, <3>2
  <2> QED BY <1>1, <1>2, <1>5, <1>6, <2>2, <2>3, SavedTrue
<1> QED BY <1>6

(* One in place: first the inode is half written, ...                        *)
LEMMA SaveInplaceTrue ==
  ASSUME Alone, PlaceInv, TruthInv, NEW p \in Editors, SaveInplace(p)
  PROVE  TruthInv'
<1> DEFINE y == [text |-> Torn, mtime |-> clock']
<1>1. TypeInv /\ FilesOK /\ HeardAll
  BY SureAt DEF PlaceInv, TypeInv
<1>b. Len(disk) \in Nat /\ clock \in Nat /\ MaxClock \in Nat
  BY <1>1, LenProperties, ClockBound DEF FilesOK
<1>2. /\ UNCHANGED <<journals, unread>> /\ dst' = dst /\ dst # 0
      /\ clock < MaxClock
      /\ clock' = clock + 1 /\ disk' = [disk EXCEPT ![dst] = y]
      /\ Goto(p, "inplace") \/ Goto(p, "inplace log")
  BY DEF SaveInplace, log, history
<1>3. /\ y \in [text : Texts, mtime : Nat] /\ y.mtime = clock + 1
      /\ y.mtime \in 1 .. clock' /\ clock' \in clock .. MaxClock
  <2>0. clock < MaxClock /\ clock' = clock + 1
    BY <1>2
  <2>1. clock' \in Nat /\ clock' \in clock .. MaxClock /\ clock' \in 1 .. clock'
    BY <1>b, <2>0
  <2> QED BY <1>2, <2>1, TornText
<1> HIDE DEF y
<1>4. /\ Len(disk') = Len(disk) /\ disk'[dst] = y
      /\ \A i \in 1 .. Len(disk) : i # dst => disk'[i] = disk[i]
  BY <1>1, <1>b, <1>2, <1>3, FileWritten
<1>5. ASSUME NEW E, E = disk' PROVE HeardAll'
  <2>1. Renewed(disk, E, clock)
    BY <1>b, <1>3, <1>4, <1>5 DEF Renewed
  <2> QED BY <1>1, <1>2, <1>5, <2>1, RenewedHeard
<1>6. ASSUME NEW u, u = ed'[p], NEW D, D = disk', NEW x, x = Log', NEW s,
             s = Sound(dir.j)', NEW k, k = Known'
      PROVE  TruthInv'
  <2>1. u.pc \in {"inplace", "inplace log"}
    BY <1>1, <1>2, <1>6, GotoFields
  <2>2. Sure(u, D, x, s, k)
    BY <2>1 DEF Sure, Loose, Bare, Fresh, Misfit
  <2>3. dst' # 0
    BY <1>2
  <2> QED BY <1>5, <1>6, <2>2, <2>3, TruthOf
<1> QED BY <1>6

(* ... then whole, while every journal is of an older version of it.         *)
LEMMA SaveInplace2True ==
  ASSUME Alone, PlaceInv, TruthInv, NEW p \in Editors, SaveInplace2(p)
  PROVE  TruthInv'
<1> DEFINE e == ed[p]
<1>0. /\ e.pc \in {"inplace", "inplace log"}
      /\ disk' = [disk EXCEPT ![dst].text = e.text] /\ dst' = dst
      /\ UNCHANGED <<journals, dir, unread>> /\ Saved(p)
  BY DEF SaveInplace2, log, history
<1>1. /\ TypeInv /\ TypeInv' /\ FilesOK /\ Sited(e) /\ HeardAll /\ dst # 0
      /\ Len(disk) \in Nat
  BY <1>0, SaveTyped, SureAt, LenProperties
  DEF PlaceInv, TypeInv, Placed, FilesOK
<1>2. dst \in 1 .. Len(disk) /\ DOMAIN disk = 1 .. Len(disk)
      /\ disk[dst] \in [text : Texts, mtime : Nat]
  <2>1. dst \in 1 .. Len(disk) /\ DOMAIN disk = 1 .. Len(disk)
    BY <1>1, LenProperties DEF FilesOK
  <2> QED BY <1>1, <2>1, ElementOfSeq DEF FilesOK
<1>3. /\ \A i \in 1 .. Len(disk) : i # dst => disk'[i] = disk[i]
      /\ disk'[dst].text = e.text /\ disk'[dst].mtime = disk[dst].mtime
  <2>1. disk'[dst] = [disk[dst] EXCEPT !.text = e.text]
    BY <1>0, <1>2
  <2>2. disk'[dst].text = e.text /\ disk'[dst].mtime = disk[dst].mtime
    BY <1>2, <2>1
  <2>3. \A i \in 1 .. Len(disk) : i # dst => disk'[i] = disk[i]
    BY <1>0, <1>2
  <2> QED BY <2>2, <2>3
<1>4. \A f \in 1 .. Len(journals) : Headed(f) => Older(H(f), Now)
  BY <1>0, <1>1 DEF Sited
<1>5. Now' = Now
  BY <1>0, <1>1, <1>3 DEF Now, MetaOf, At
<1>6. ASSUME NEW E, E = disk' PROVE TruthInv'
  <2>1. ASSUME NEW f \in 1 .. Len(journals), NEW h, h = journals[f].hdr
        PROVE  Firm(disk, E, h)
    <3>1. CASE h.ino = 0
      BY <3>1 DEF Firm, Grounds, Written
    <3>2. CASE h.ino # 0
      <4>1. GoodLog(journals[f]) /\ f # 0
        BY <1>1, LogOf
      <4>2. h.ino \in 1 .. Len(disk) /\ h.mtime \in Nat
        BY <1>1, <2>1, <3>2, <4>1 DEF GoodLog
      <4>3. CASE h.ino = dst
        <5>1. Headed(f)
          BY <2>1, <3>2, <4>1 DEF Headed, H, NoHeader
        <5>2. Older(h, Now)
          BY <1>4, <2>1, <5>1 DEF H
        <5>3. Now.ino = dst /\ Now.mtime = disk[dst].mtime
          BY <1>1 DEF Now, MetaOf, At
        <5>4. h.mtime < disk[dst].mtime
          BY <1>2, <4>2, <4>3, <5>2, <5>3 DEF Older
        <5>5. h.mtime # E[h.ino].mtime
          BY <1>2, <1>3, <1>6, <4>2, <4>3, <5>4
        <5>6. Written(E, h) = {}
          BY <3>2, <5>5 DEF Written
        <5> QED BY <5>6 DEF Firm, Grounds
      <4>4. CASE h.ino # dst
        <5>1. E[h.ino] = disk[h.ino]
          BY <1>3, <1>6, <4>2, <4>4
        <5> QED BY <5>1 DEF Firm, Grounds, Written
      <4> QED BY <4>3, <4>4
    <3> QED BY <3>1, <3>2
  <2>2. HeardAll'
    <3>1. \A f \in 1 .. Len(journals) : Firm(disk, E, journals[f].hdr)
      BY <2>1
    <3> QED BY <1>0, <1>1, <1>6, <3>1, HeardFirm
  <2>3. Written(E, Now') = {e.text}
    BY <1>0, <1>1, <1>3, <1>6, NowHere
  <2>4. \A f \in 1 .. Len(journals) : Headed(f) => Older(H(f), Now')
    BY <1>4, <1>5
  <2> QED BY <1>0, <1>1, <1>6, <2>2, <2>3, <2>4, SavedTrue
<1> QED BY <1>6

-----------------------------------------------------------------------------
(* Discarding a journal; one that could not be, after the user declined it,  *)
(* is there beside a text without its records.                               *)
LEMMA DropTrue ==
  ASSUME Alone, PlaceInv, TruthInv, NEW p \in Editors,
         DropBase(p) \/ DropLog(p) \/ DropSync(p)
  PROVE  TruthInv'
<1> DEFINE e == ed[p]
           u == ed'[p]
<1>0. /\ e.pc \in {"dropBase", "dropLog", "dropSync"}
      /\ UNCHANGED <<disk, dst, journals, unread>>
  BY DEF DropBase, DropLog, DropSync, files, history
<1>a. e.pc \in Inside /\ e.pc \in Fresh
  BY <1>0 DEF Inside, Fresh
<1>1. /\ TypeInv /\ DOMAIN e = Fields /\ p \in DOMAIN ed /\ Sited(e)
      /\ e.fd # 0 /\ HeardAll /\ Sure(e, disk, Log, Sound(dir.j), Known)
      /\ Written(disk, e.meta) \subseteq {e.text}
  BY <1>a, WorkAt
<1>2. HeardAll' /\ disk' = disk
  BY <1>0, <1>1, HeardSame
<1>3. e.goal # "decline" \/ e.pc = "dropSync" => ~Fit(Log.hdr, e.meta)
  <2>1. CASE e.pc = "dropBase" /\ e.goal # "decline"
    <3>1. dir.j = e.fd
      BY <1>1, <2>1, LogOpen
    <3>2. Headed(dir.j) => Older(H(dir.j), e.meta)
      BY <1>1, <2>1, <3>1 DEF Sited
    <3> QED BY <3>2, OlderMisfit
  <2>2. CASE e.pc = "dropSync" \/ (e.pc = "dropLog" /\ e.goal # "decline")
    BY <1>1, <2>2 DEF Sure, Misfit
  <2> QED BY <1>0, <2>1, <2>2
<1>8. e.goal = "decline" /\ Known /\ Fit(Log.hdr, e.meta) => Basis(disk, Log, e.text)
  BY <1>0, <1>1, <1>3 DEF Sure, Bare
<1>4. CASE NotDropped(p) /\ UNCHANGED dir
  <2>1. Close(p, "edit")
    BY <1>4 DEF NotDropped
  <2>2. u.pc = "edit" /\ u.fd = 0 /\ u.meta = e.meta /\ u.text = e.text
        /\ u.goal = e.goal
    BY <1>1, <2>1, CloseFields
  <2>3. Log' = Log /\ Known' = Known
    BY <1>0, <1>4, LogSame, KnownSame
  <2>4. e.goal = "decline" => Aside(u)
    BY <2>2 DEF Aside
  <2>5. ASSUME NEW s, s = Sound(dir.j)', NEW k, k = Known' PROVE TruthInv'
    <3>1. CASE s /\ Fit(Log.hdr, u.meta)
      <4>1. Sure(u, disk, Log, s, k)
        BY <1>3, <1>8, <2>2, <2>3, <2>4, <2>5, <3>1, SureMade
      <4> QED BY <1>2, <2>2, <2>3, <2>5, <4>1, TruthOf
    <3>2. CASE ~(s /\ Fit(Log.hdr, u.meta))
      <4>1. Sure(u, disk, Log, s, k)
        BY <1>1, <2>2, <3>2, SureFree
      <4> QED BY <1>2, <2>2, <2>3, <2>5, <4>1, TruthOf
    <3> QED BY <3>1, <3>2
  <2> QED BY <2>5
<1>5. CASE DropBase(p) /\ ~NotDropped(p)
  <2>1. Goto(p, "dropLog") /\ Change([dir EXCEPT !.b = NoBase])
    BY <1>5 DEF DropBase
  <2>2. u.pc = "dropLog" /\ u.meta = e.meta /\ u.text = e.text /\ u.goal = e.goal
    BY <1>1, <2>1, GotoFields
  <2>3. Log' = Log /\ Known' = Known
    <3>1. dir'.j = dir.j
      BY <1>1, <2>1, DirFields DEF Change
    <3> QED BY <1>0, <3>1, LogSame, KnownSame
  <2>4. u.pc \in Fresh \ {"header"} /\ (Bare(u) => e.goal = "decline")
    BY <2>2 DEF Bare, Fresh
  <2>5. Misfit(u) => ~Fit(Log.hdr, u.meta)
    BY <1>3, <2>2 DEF Misfit
  <2> QED BY <1>1, <1>2, <1>8, <2>2, <2>3, <2>4, <2>5, FreshTrue
<1>6. CASE DropLog(p) /\ ~NotDropped(p)
  <2>1. Goto(p, "dropSync") /\ Change([dir EXCEPT !.j = 0])
    BY <1>6 DEF DropLog
  <2>2. u.pc = "dropSync" /\ u.meta = e.meta /\ u.text = e.text
    BY <1>1, <2>1, GotoFields
  <2>3. dir'.j = 0
    BY <1>1, <2>1, DirFields DEF Change
  <2>4. Log' = NoLog /\ ~Fit(NoLog.hdr, u.meta)
    BY <2>3, NoFit
  <2>5. u.pc \in Fresh \ {"header"} /\ ~Bare(u)
    BY <2>2 DEF Bare, Fresh
  <2> QED BY <1>1, <1>2, <2>2, <2>4, <2>5, FreshTrue
<1>7. CASE DropSync(p)
  <2>1. e.pc = "dropSync" /\ Close(p, "edit") /\ dir' = dir
    BY <1>7 DEF DropSync, Commit
  <2>2. u.pc = "edit" /\ u.fd = 0 /\ u.meta = e.meta /\ u.text = e.text
    BY <1>1, <2>1, CloseFields
  <2>3. Log' = Log /\ ~Fit(Log.hdr, u.meta)
    BY <1>0, <1>3, <2>1, <2>2, LogSame
  <2> QED BY <1>1, <1>2, <2>2, <2>3, FreeTrue
<1>9. UNCHANGED dir \/ ~NotDropped(p)
  BY DEF NotDropped
<1> QED BY <1>4, <1>5, <1>6, <1>7, <1>9

(* A session that ends.                                                      *)
LEMMA LeaveTrue ==
  ASSUME Alone, PlaceInv, TruthInv, NEW p \in Editors, Leave(p)
  PROVE  TruthInv'
<1>1. TypeInv /\ HeardAll
  BY SureAt DEF PlaceInv
<1>2. HeardAll' /\ ed'[p].pc = "out"
  <2>1. UNCHANGED <<disk, journals, unread>>
    BY DEF Leave, files, log
  <2>2. ed'[p].pc = "out"
    BY <1>1 DEF Leave, Blank, TypeInv, LockInv, Shape
  <2> QED BY <1>1, <2>1, <2>2, HeardSame
<1> QED BY <1>2, StuckTrue

(* What a power cut leaves of a journal is heard too: fewer records, on the  *)
(* same text.                                                                *)
LEMMA SurvivorHeard ==
  ASSUME NEW x, GoodLog(x), NEW D, Heard(D, x), NEW n \in x.safe .. Size(x)
  PROVE  Heard(D, Survivor(x, n))
<1> DEFINE y == Survivor(x, n)
           r == x.recs
           k == n - 1
<1>1. CASE n = 0
  BY <1>1 DEF Survivor, Heard
<1>2. CASE n # 0
  <2>1. r \in Seq(Recs) /\ DOMAIN x = {"hdr", "recs", "safe"} /\ Len(r) \in Nat
        /\ x.safe \in Nat
    <3>1. r \in Seq(Recs) /\ x.safe \in 0 .. Size(x)
      BY DEF GoodLog, Recs
    <3> QED BY <3>1, LenProperties DEF GoodLog
  <2>2. x.hdr # NoHeader /\ Size(x) = Len(r) + 1
    BY <1>2, <2>1 DEF Size
  <2>3. k \in 0 .. Len(r)
    BY <1>2, <2>1, <2>2
  <2>4. y.hdr = x.hdr /\ y.recs = SubSeq(r, 1, k)
    BY <1>2, <2>1 DEF Survivor
  <2> HIDE DEF y, k
  <2> SUFFICES ASSUME NEW t \in Grounds(D, x.hdr) PROVE Basis(D, y, t)
    BY <2>2, <2>4 DEF Heard, y
  <2>5. Follows(ValidPrefix(r), t) /\ Grounds(D, x.hdr) \subseteq {t}
    BY <2>2 DEF Heard, Basis
  <2>6. SubSeq(r, 1, k) \in Seq(Recs)
    BY <2>1, <2>3, SubSeqRecs
  <2>7. /\ Len(ValidPrefix(SubSeq(r, 1, k))) <= Len(ValidPrefix(r))
        /\ \A i \in 1 .. Len(ValidPrefix(SubSeq(r, 1, k))) :
             ValidPrefix(SubSeq(r, 1, k))[i] = ValidPrefix(r)[i]
    BY <2>1, <2>3, ValidCut
  <2>8. ValidPrefix(SubSeq(r, 1, k)) \in Seq(Recs) /\ ValidPrefix(r) \in Seq(Recs)
    BY <2>1, <2>6, PrefixRecs
  <2>9. Follows(ValidPrefix(SubSeq(r, 1, k)), t)
    BY <2>5, <2>7, <2>8, FollowsPrefix
  <2> QED BY <2>4, <2>5, <2>9 DEF Basis
<1> QED BY <1>1, <1>2

LEMMA SurvivorTold ==
  ASSUME NEW x, GoodLog(x), NEW D, NEW k, Trusted(D, x, k), NEW n \in x.safe .. Size(x)
  PROVE  Trusted(D, Survivor(x, n), k)
<1>1. CASE k
  BY <1>1, SurvivorHeard DEF Trusted
<1>2. CASE ~k
  <2>1. CASE n = 0
    BY <1>2, <2>1 DEF Survivor, Trusted
  <2>2. CASE n # 0
    <3>1. x.hdr # NoHeader
      BY <2>2 DEF GoodLog, Size
    <3>2. Survivor(x, n).hdr = x.hdr
      BY <2>2 DEF Survivor, GoodLog
    <3> QED BY <1>2, <3>1, <3>2 DEF Trusted
  <2> QED BY <2>1, <2>2
<1> QED BY <1>1, <1>2

(* A power cut: every session is over.                                       *)
LEMMA PowerCutTrue ==
  ASSUME PlaceInv, TruthInv, PowerCut PROVE TruthInv'
<1>1. TypeInv /\ HeardAll /\ disk' = disk /\ unread' = unread
  BY DEF PlaceInv, TruthInv, PowerCut, files
<1>2. HeardAll'
  <2>1. /\ Len(journals') = Len(journals)
        /\ \A f \in 1 .. Len(journals) :
             \E n \in journals[f].safe .. Size(journals[f]) :
               journals'[f] = Survivor(journals[f], n)
    BY <1>1, PowerCutLogs
  <2>2. ASSUME NEW f \in 1 .. Len(journals), NEW y, y = journals'[f]
        PROVE  Trusted(disk, y, f \notin unread)
    <3>1. PICK n \in journals[f].safe .. Size(journals[f]) :
            journals'[f] = Survivor(journals[f], n)
      BY <2>1
    <3>2. GoodLog(journals[f]) /\ Trusted(disk, journals[f], f \notin unread)
      BY <1>1, LogOf DEF HeardAll
    <3> QED BY <2>2, <3>1, <3>2, SurvivorTold
  <2> QED BY <1>1, <2>1, <2>2 DEF HeardAll
<1>3. ASSUME NEW p \in Editors PROVE Surely(p)'
  <2>1. ASSUME NEW e, e = ed'[p], NEW D, NEW x, NEW s, NEW k
        PROVE  Sure(e, D, x, s, k)
    <3>1. e.pc = "out"
      BY <2>1 DEF PowerCut, Blank
    <3> QED BY <3>1 DEF Sure, Loose, Bare, Fresh, Misfit
  <2>2. Sure(ed'[p], disk', Log', Sound(dir.j)', Known')
    BY <2>1
  <2>3. ed'[p].pc = "out"
    BY DEF PowerCut, Blank
  <2> QED BY <2>2, <2>3 DEF Surely
<1> QED BY <1>2, <1>3 DEF TruthInv

(* Another program changes the file: what was learnt of a version stays so.  *)
LEMMA SureStays ==
  ASSUME NEW e, NEW D, NEW E, NEW x, NEW s, NEW k, Sure(e, D, x, s, k),
         Firm(D, E, x.hdr), Written(E, e.meta) \subseteq Written(D, e.meta)
  PROVE  Sure(e, E, x, s, k)
<1>1. \A t : Basis(D, x, t) => Basis(E, x, t)
  BY AlikeSelf, BasisStays
<1>2. \A t : Made(D, x, t) => Made(E, x, t)
  BY AlikeSelf, MadeStays
<1> QED BY <1>1, <1>2 DEF Sure

LEMMA MeddleTrue ==
  ASSUME PlaceInv, TruthInv, Meddle PROVE TruthInv'
<1>1. TypeInv /\ FilesOK /\ HeardAll
  BY DEF PlaceInv, TypeInv, TruthInv
<1>2. /\ UNCHANGED <<journals, dir, ed, unread>> /\ clock < MaxClock
      /\ clock' = clock + 1
      /\ \A p \in Editors : ed[p].pc \notin {"inplace", "inplace log"}
  BY DEF Meddle, log
<1>3. Len(disk) \in Nat /\ clock \in Nat /\ clock' \in Nat
      /\ DOMAIN disk = 1 .. Len(disk)
  <2>1. Len(disk) \in Nat /\ DOMAIN disk = 1 .. Len(disk)
    BY <1>1, LenProperties DEF FilesOK
  <2>2. clock \in Nat
    BY <1>1, ClockBound DEF FilesOK
  <2>3. clock' = clock + 1
    BY <1>2
  <2>4. clock' \in Nat
    BY <2>2, <2>3
  <2> QED BY <2>1, <2>2, <2>4
<1>4. ASSUME NEW E, E = disk' PROVE Renewed(disk, E, clock)
  <2>1. CASE disk' = Append(disk, [text |-> <<clock'>>, mtime |-> clock'])
    <3> DEFINE y == [text |-> <<clock'>>, mtime |-> clock']
    <3>1. y \in [text : Texts, mtime : Nat]
      BY <1>3 DEF Texts
    <3> HIDE DEF y
    <3>2. disk' = Append(disk, y)
      BY <2>1 DEF y
    <3>3. Len(E) = Len(disk) + 1 /\ \A i \in 1 .. Len(disk) : E[i] = disk[i]
      BY <1>1, <1>4, <3>1, <3>2, AppendProperties DEF FilesOK
    <3> QED BY <1>3, <3>3 DEF Renewed
  <2>2. ASSUME NEW y, y.mtime = clock', dst # 0, disk' = [disk EXCEPT ![dst] = y]
        PROVE  Renewed(disk, E, clock)
    <3>1. /\ \A i \in 1 .. Len(disk) : i # dst => E[i] = disk[i]
          /\ dst \in 1 .. Len(disk) => E[dst] = y
          /\ DOMAIN E = 1 .. Len(disk)
      BY <1>3, <1>4, <2>2
    <3>2. Len(E) = Len(disk)
      <4>1. /\ TypeInv'
        BY <1>1, MeddleTyped
      <4>2. E \in Seq([text : Texts, mtime : Nat])
        BY <1>4, <4>1 DEF TypeInv, FilesOK
      <4>3. Len(E) \in Nat /\ DOMAIN E = 1 .. Len(E)
        BY <4>2, LenProperties
      <4> QED BY <1>3, <3>1, <4>3
    <3>3. \A i \in 1 .. Len(disk) : E[i] = disk[i] \/ E[i].mtime = clock + 1
      BY <1>2, <2>2, <3>1
    <3> QED BY <1>3, <3>2, <3>3 DEF Renewed
  <2>3. CASE dst # 0 /\ disk' = [disk EXCEPT ![dst] = [text |-> <<clock'>>,
                                                       mtime |-> clock']]
    <3> DEFINE y == [text |-> <<clock'>>, mtime |-> clock']
    <3>1. y.mtime = clock' /\ disk' = [disk EXCEPT ![dst] = y]
      BY <2>3
    <3> HIDE DEF y
    <3> QED BY <2>2, <2>3, <3>1
  <2>4. CASE dst # 0 /\ disk' = [disk EXCEPT ![dst].mtime = clock']
    <3>1. disk[dst] \in [text : Texts, mtime : Nat]
      <4>1. dst \in 1 .. Len(disk)
        BY <1>1, <2>4 DEF FilesOK
      <4> QED BY <1>1, <4>1, ElementOfSeq DEF FilesOK
    <3> DEFINE y == [disk[dst] EXCEPT !.mtime = clock']
    <3>2. y.mtime = clock' /\ disk' = [disk EXCEPT ![dst] = y]
      BY <2>4, <3>1
    <3> HIDE DEF y
    <3> QED BY <2>2, <2>4, <3>2
  <2> QED BY <2>1, <2>3, <2>4 DEF Meddle
<1>5. ASSUME NEW E, E = disk'
      PROVE  HeardAll' /\ \A p \in Editors : Surely(p)'
  <2>1. /\ HeardAll'
        /\ \A f \in 1 .. Len(journals) : Firm(disk, E, journals[f].hdr)
    BY <1>1, <1>2, <1>4, <1>5, RenewedHeard
  <2>2. ASSUME NEW h, h = Log.hdr PROVE Firm(disk, E, h)
    <3>1. CASE dir.j = 0
      BY <2>2, <3>1 DEF Log, NoLog, NoHeader, NoBase, Firm, Grounds, Written
    <3>2. CASE dir.j # 0
      BY <1>1, <2>1, <2>2, <3>2, DirLog DEF Log
    <3> QED BY <3>1, <3>2
  <2>3. ASSUME NEW p \in Editors, NEW e, e = ed[p], NEW x, x = Log, NEW s,
               s = Sound(dir.j), NEW k, k = Known
        PROVE  Sure(e, E, x, s, k)
    <3>1. Sure(e, disk, x, s, k) /\ GoodEd(e)
      BY <1>1, <2>3, SureAt DEF TypeInv, EdsOK
    <3>2. e.meta.ino \in Nat /\ e.meta.ino <= Len(disk)
          /\ e.meta.mtime \in Nat /\ e.meta.mtime <= clock
      BY <3>1 DEF GoodEd, Metas
    <3>3. Written(E, e.meta) \subseteq Written(disk, e.meta)
      BY <1>4, <1>5, <3>2, RenewedFirm
    <3>4. Firm(disk, E, x.hdr)
      BY <2>2, <2>3
    <3> QED BY <3>1, <3>3, <3>4, SureStays
  <2>4. Log' = Log /\ Sound(dir.j)' = Sound(dir.j) /\ Known' = Known
    BY <1>2, LogSame, KnownSame DEF Sound
  <2>5. ASSUME NEW p \in Editors PROVE Surely(p)'
    <3>1. Sure(ed[p], E, Log, Sound(dir.j), Known)
      BY <2>3
    <3>2. Sure(ed'[p], disk', Log', Sound(dir.j)', Known')
      BY <1>2, <1>5, <2>4, <3>1
    <3>3. ed'[p].pc \notin {"inplace", "inplace log"}
      BY <1>2
    <3> QED BY <3>2, <3>3 DEF Surely
  <2> QED BY <2>1, <2>5
<1> QED BY <1>5 DEF TruthInv

-----------------------------------------------------------------------------
(* The theorem.                                                              *)

LEMMA TruthStart == Init => TruthInv
<1> SUFFICES ASSUME Init PROVE TruthInv
  OBVIOUS
<1>1. HeardAll
  <2>1. Len(journals) = 0
    BY DEF Init
  <2> QED BY <2>1 DEF HeardAll
<1>2. ASSUME NEW p \in Editors PROVE Surely(p)
  <2>1. ed[p].pc = "out"
    BY DEF Init, Blank
  <2>2. ASSUME NEW e, e = ed[p], NEW D, NEW x, NEW s, NEW k
        PROVE  Sure(e, D, x, s, k)
    BY <2>1, <2>2 DEF Sure, Loose, Bare, Fresh, Misfit
  <2> QED BY <2>1, <2>2 DEF Surely
<1> QED BY <1>1, <1>2 DEF TruthInv

LEMMA TruthStep ==
  ASSUME Alone, PlaceInv, TruthInv, [Next]_vars
  PROVE  TruthInv'
<1>1. ASSUME NEW p \in Editors, Step(p) PROVE TruthInv'
  BY <1>1, OpeningTrue, AnswerTrue, OpenLogTrue, LockTrue, AdoptTrue,
     PreserveBaseTrue, PreserveLogTrue, CreateBaseTrue, HeaderTrue,
     BarrierTrue, RecordTrue, SyncTrue, SaveAtomicTrue, SaveInplaceTrue,
     SaveInplace2True, DropTrue, LeaveTrue
  DEF Step
<1>2. CASE UNCHANGED vars
  <2>1. UNCHANGED <<disk, dst, journals, dir, ed, unread>>
    BY <1>2 DEF vars, files, log, history
  <2> QED BY <2>1 DEF TruthInv, HeardAll, Surely, Log, Sound, Known
<1> QED BY <1>1, <1>2, PowerCutTrue, MeddleTrue DEF Next

(* What a recovery replays, every record of it, was made on the text that    *)
(* the ones before it give.                                                  *)
LEMMA ReplayHonest ==
  ASSUME PlaceInv, TruthInv, Known, NEW p \in Editors, Recover(p),
         ed'[p].pc = "open",
         NEW t, t = From(p, dir.j), NEW r, r = journals[dir.j].recs,
         NEW i \in 1 .. Len(ed'[p].text) - Len(t)
  PROVE  r[i].on = After(t, r, i - 1)
<1> DEFINE e == ed[p]
           v == ValidPrefix(r)
<1>1. /\ TypeInv /\ DOMAIN e = Fields /\ p \in DOMAIN ed /\ e.pc = "asked"
  BY DEF PlaceInv, TypeInv, LockInv, Shape, Recover
<1>2. /\ dir.j # 0 /\ Matches(dir.j, e.meta)
      /\ \E n \in Stops(t, v) : Replay(p, dir.j, n)
  <2>1. CASE GoOn(p)
    BY <1>1, <2>1, GoOnFields
  <2>2. CASE ed' = [ed EXCEPT ![p].pc = "oldBase", ![p].goal = "replay",
                              ![p].fd = dir.j, ![p].held = TRUE]
    BY <1>1, <2>2 DEF Fields
  <2> QED BY <2>1, <2>2 DEF Recover
<1>3. PICK n \in Stops(t, v) : Replay(p, dir.j, n)
  BY <1>2
<1>4. /\ n = Len(v) /\ Follows(v, t) /\ After(t, r, n) = Leads(v, t)
      /\ t \in Texts /\ r \in Seq(Recs) /\ v \in Seq(Recs)
      /\ \A k \in 1 .. Len(v) : v[k] = r[k]
  <2>1. ASSUME NEW x, x = journals[dir.j], NEW w, w = ValidPrefix(x.recs)
        PROVE  /\ n = Len(w) /\ Follows(w, t) /\ After(t, x.recs, n) = Leads(w, t)
               /\ t \in Texts /\ x.recs \in Seq(Recs) /\ w \in Seq(Recs)
               /\ \A k \in 1 .. Len(w) : w[k] = x.recs[k]
    BY <1>1, <1>2, <1>3, <2>1, ReplayText
  <2> QED BY <2>1
<1> HIDE DEF v
<1>5. ed'[p].text = Leads(v, t)
  <2>1. ed'[p].text = After(t, r, n)
    <3>1. PICK m, pr : ed' = [ed EXCEPT
            ![p].pc = "open", ![p].goal = "none",
            ![p].text = After(From(p, dir.j), journals[dir.j].recs, n),
            ![p].meta = m, ![p].prot = pr]
      BY <1>3, Zenon DEF Replay
    <3> QED BY <1>1, <3>1 DEF Fields
  <2> QED BY <1>4, <2>1
<1>6. Len(v) \in Nat /\ Len(t) \in Nat
  BY <1>4, LenProperties DEF Texts
<1>7. Len(Leads(v, t)) = Len(t) + Len(v)
  <2>1. v \in Seq([op : Nat, on : Texts]) /\ Len(v) \in 0 .. Len(v)
    BY <1>4, <1>6 DEF Recs
  <2> QED BY <1>4, <2>1, AfterText DEF Leads
<1>8. i \in 1 .. Len(v) /\ i - 1 \in Nat
  BY <1>5, <1>6, <1>7
<1>9. v[i].on = After(t, v, i - 1) /\ v[i] = r[i]
  BY <1>4, <1>8 DEF Follows
<1>10. After(t, v, i - 1) = After(t, r, i - 1)
  <2>1. \A k \in 1 .. i - 1 : v[k] = r[k]
    BY <1>4, <1>6, <1>8
  <2> QED BY <1>8, <2>1, AfterSame
<1> QED BY <1>9, <1>10

(* Whatever happened to the file, whatever calls failed and however often    *)
(* the session was killed or the power went, for one editor at a time and    *)
(* whatever is answered: replaying a journal (yew_journal_replay_edit)       *)
(* applies each record to the text it was made on.  Not meant is a journal   *)
(* that a session went on with while its buffer did not hold the records     *)
(* (unread): after Esc, a probe, a replay or a discard that failed, the next *)
(* edit adopts it (journal_as_is.cfg).                                       *)
THEOREM NothingMadeUp ==
  ASSUME Alone PROVE Spec => NeverMadeUp
<1> DEFINE True == \A p \in Editors : dir.j \notin unread => Honest(p)
<1>1. ASSUME PlaceInv, TruthInv PROVE True
  <2> SUFFICES ASSUME NEW p \in Editors, Known, Recover(p), ed'[p].pc = "open",
                      NEW from, from = From(p, dir.j),
                      NEW r, r = journals[dir.j].recs,
                      NEW i \in 1 .. Len(ed'[p].text) - Len(from)
               PROVE  r[i].on = After(from, r, i - 1)
    BY DEF Honest, Known
  <2> QED BY <1>1, ReplayHonest
<1>2. Init => PlaceInv /\ TruthInv
  BY PlaceStart, TruthStart
<1>3. PlaceInv /\ TruthInv /\ [Next]_vars => PlaceInv' /\ TruthInv'
  BY PlaceStep, TruthStep
<1>4. PlaceInv /\ TruthInv /\ [Next]_vars => [True]_vars
  BY <1>1
<1> QED BY <1>2, <1>3, <1>4, PTL DEF Spec, NeverMadeUp
=============================================================================
