--------------------------- MODULE BackupRotation ---------------------------
(* commit_backup_rotation (src/text/file.c): how the pending backup of an    *)
(* in-place save becomes the newest of save.backup_keep generations.  Every  *)
(* link, rename, unlink and directory fsync is a step, may fail, and may be  *)
(* the last one before a kill or a power cut.                                *)
(*                                                                           *)
(* Backups are named by age: gen[0] is <base>, gen[n] is <base>.n.  A backup *)
(* is a version, a natural number: a greater one was taken later.  Recovery  *)
(* and pending names are unique, so each is only the version it holds, the   *)
(* recovery names together with the rotation that made them.                 *)
(* A power cut keeps any of the directory operations since the last fsync of *)
(* the directory and loses the others: cut holds every outcome.              *)
EXTENDS Naturals

CONSTANTS
  MaxGen,        \* bound: the highest generation name in use (64 in the code)
  Keeps,         \* the values save.backup_keep takes, one per rotation
  MaxRotation,   \* bound: number of rotations
  MaxCrash       \* bound: number of kills and power cuts

ASSUME RotationAssumption ==
  /\ MaxGen \in Nat /\ MaxRotation \in Nat /\ MaxCrash \in Nat
  /\ Keeps \subseteq 0 .. MaxGen + 1

Gen  == 0 .. MaxGen
None == 0                       \* no such file; versions are the others

VARIABLES
  dir,      \* the backup directory as a running process sees it
  cut,      \* the directories a power cut may leave
  pc,       \* the call the rotation is at
  keep,     \* opts->backup_keep of this rotation
  n,        \* its loop counter
  ok,       \* its result (so far): idle and FALSE is YEW_SAVE_BACKUP_FAILED
  pending,  \* the version the pending name holds
  crashes,  \* history: crashes so far
  owed,     \* history: versions within the retention asked for
  aged      \* history: the version this rotation retires once committed

vars == <<dir, cut, pc, keep, n, ok, pending, crashes, owed, aged>>

(* gen: generation -> version; pend, rec: pending and recovery names. *)
Versions(d) == {d.gen[g] : g \in Gen} \cup d.pend \cup {r[2] : r \in d.rec}

Init ==
  /\ \E full \in SUBSET Gen :      \* any earlier history, newest first
       dir = [pend |-> {}, rec |-> {}, gen |->
                [g \in Gen |-> IF g \in full THEN MaxGen + 1 - g ELSE None]]
  /\ cut = {dir}
  /\ pc = "idle" /\ keep = 0 /\ n = 0 /\ ok = TRUE /\ pending = MaxGen + 1
  /\ crashes = 0 /\ owed = Versions(dir) \ {None} /\ aged = {}

-----------------------------------------------------------------------------
Goto(label, i) == pc' = label /\ n' = i

(* A directory operation makes d of dir, and may or may not survive a power  *)
(* cut: outcomes are the directories of cut with the operation applied.      *)
Change(d, outcomes) == dir' = d /\ cut' = cut \cup outcomes
Sync == cut' = {dir} /\ UNCHANGED dir

Discarded(d)  == [d EXCEPT !.pend = @ \ {pending}]
Linked(d, v)  == [d EXCEPT !.rec = @ \cup {<<pending, v>>}]
Without(d, r) == [d EXCEPT !.rec = @ \ r]
Rid(gone)     == {Without(d, r) : d \in cut, r \in SUBSET gone}
Shifted(d, i) == [d EXCEPT !.gen[i] = dir.gen[i - 1], !.gen[i - 1] = None]
Promoted(d)   == [d EXCEPT !.gen[0] = pending, !.pend = @ \ {pending}]
Cleared(d, i) == [d EXCEPT !.gen[i] = None]

Mine == {r \in dir.rec : r[1] = pending}   \* this rotation's recovery links

ours == <<keep, pending, crashes>>
past == <<owed, aged>>

(* copy_path_to_backup has made the pending copy durable (FileSave!BakSync). *)
Start(k) ==
  /\ pc = "idle" /\ pending < MaxGen + 1 + MaxRotation
  /\ pending' = pending + 1 /\ keep' = k /\ ok' = TRUE
  /\ dir' = [dir EXCEPT !.pend = @ \cup {pending'}] /\ cut' = {dir'}
  /\ owed' = (owed \cup (IF k = 0 THEN {} ELSE {pending'}))
               \ {dir.gen[g] : g \in {h \in Gen : h >= k}}
  /\ aged' = {dir.gen[g] : g \in {h \in Gen : h + 1 = k}}
  /\ Goto(IF k = 0 THEN "drop" ELSE "preserve", 0)
  /\ UNCHANGED crashes

(* keep = 0: the pending copy is simply removed.  (First, for the same       *)
(* purpose as below, with pruning started one generation too early.)         *)
EarlyDrop ==
  /\ pc = "drop" /\ Goto("prune", keep - 1) /\ UNCHANGED ok
  /\ Change(Discarded(dir), {Discarded(d) : d \in cut})
  /\ UNCHANGED <<ours, past>>

Drop ==
  /\ pc = "drop"
  /\ \/ Goto("idle", 0) /\ ok' = FALSE /\ UNCHANGED <<dir, cut>>
     \/ Goto("prune", 0) /\ UNCHANGED ok
        /\ Change(Discarded(dir), {Discarded(d) : d \in cut})
  /\ UNCHANGED <<ours, past>>

(* Plausible bugs, to show that the properties below can fail: rotating      *)
(* before the recovery links are durable ...                                 *)
HastyPreserve ==
  /\ pc = "preserve"
  /\ \/ /\ n < keep /\ n \in Gen /\ Goto("preserve", n + 1) /\ UNCHANGED ok
        /\ IF dir.gen[n] = None THEN UNCHANGED <<dir, cut>>
           ELSE LET v == dir.gen[n]
                IN Change(Linked(dir, v), {Linked(d, v) : d \in cut})
     \/ n = keep /\ Goto("shift", keep - 1) /\ UNCHANGED <<dir, cut, ok>>
  /\ UNCHANGED <<ours, past>>

(* preserve_rotation_history: a recovery hard link for every generation kept *)
PreserveLink ==
  /\ pc = "preserve" /\ n < keep /\ n \in Gen
  /\ IF dir.gen[n] = None THEN UNCHANGED <<dir, cut>>
     ELSE LET v == dir.gen[n]
          IN Change(Linked(dir, v), {Linked(d, v) : d \in cut})
  /\ Goto("preserve", n + 1) /\ UNCHANGED <<ok, ours, past>>

(* An lstat or link that fails ends the rotation; the links made are removed *)
(* again, any of which may fail, as may the fsync after them.                *)
PreserveFails ==
  /\ pc = "preserve" /\ n < keep /\ n \in Gen
  /\ \E gone \in SUBSET Mine :
       \/ Change(Without(dir, gone), Rid(gone))
       \/ dir' = Without(dir, gone) /\ cut' = {dir'}
  /\ Goto("idle", 0) /\ ok' = FALSE /\ UNCHANGED <<ours, past>>

PreserveSync ==
  /\ pc = "preserve" /\ n = keep /\ UNCHANGED <<ours, past>>
  /\ \/ Goto("shift", keep - 1) /\ Sync /\ UNCHANGED ok
     \/ Goto("idle", 0) /\ ok' = FALSE /\ UNCHANGED <<dir, cut>>

Preserve == PreserveLink \/ PreserveFails \/ PreserveSync

(* ... and linking a generation to its new name without removing the old one *)
LinkingShift ==
  /\ pc = "shift" /\ n > 0 /\ Goto("shift", n - 1) /\ UNCHANGED ok
  /\ IF dir.gen[n - 1] = None THEN UNCHANGED <<dir, cut>>
     ELSE dir' = [dir EXCEPT !.gen[n] = dir.gen[n - 1]]
          /\ cut' = cut \cup {dir'}
  /\ UNCHANGED <<ours, past>>

(* rotate_backups: oldest first, each generation is renamed to the next. *)
Shift ==
  /\ pc = "shift" /\ n > 0
  /\ \/ /\ Goto("shift", n - 1) /\ UNCHANGED ok
        /\ IF dir.gen[n - 1] = None THEN UNCHANGED <<dir, cut>>
           ELSE Change(Shifted(dir, n), {Shifted(d, n) : d \in cut})
     \/ /\ dir.gen[n - 1] # None /\ Goto("idle", 0) /\ ok' = FALSE
        /\ UNCHANGED <<dir, cut>>
  /\ UNCHANGED <<ours, past>>

(* rename(pending, base) *)
Promote ==
  /\ pc = "shift" /\ n = 0
  /\ \/ /\ Goto("prune", keep) /\ UNCHANGED ok
        /\ Change(Promoted(dir), {Promoted(d) : d \in cut})
     \/ Goto("idle", 0) /\ ok' = FALSE /\ UNCHANGED <<dir, cut>>
  /\ UNCHANGED <<ours, past>>

(* prune_backups: unlink every generation from keep on, whatever fails. *)
Prune ==
  /\ pc = "prune" /\ n \in Gen /\ Goto("prune", n + 1)
  /\ \/ /\ UNCHANGED ok
        /\ IF dir.gen[n] = None THEN UNCHANGED <<dir, cut>>
           ELSE Change(Cleared(dir, n), {Cleared(d, n) : d \in cut})
     \/ dir.gen[n] # None /\ ok' = FALSE /\ UNCHANGED <<dir, cut>>
  /\ UNCHANGED <<ours, past>>

(* ... then the directory fsync that commits the rotation; the recovery      *)
(* links are given up only when all of it worked.                            *)
SyncRotation ==
  /\ pc = "prune" /\ n > MaxGen
  /\ \/ Sync /\ UNCHANGED ok
     \/ ok' = FALSE /\ UNCHANGED <<dir, cut>>
  /\ Goto(IF ok' /\ Mine # {} THEN "dispose" ELSE "idle", 0)
  /\ owed' = IF ok' THEN owed \ aged ELSE owed
  /\ UNCHANGED <<ours, aged>>

(* recovery_paths_dispose: one unlink per recovery link, then the last       *)
(* directory fsync.  A link whose unlink fails stays, and is reported.       *)
DisposeLink ==
  /\ pc = "dispose" /\ UNCHANGED <<pc, n, ok, ours, past>>
  /\ \E r \in Mine : Change(Without(dir, {r}), {Without(d, {r}) : d \in cut})

DisposeEnd ==
  /\ pc = "dispose" /\ Goto("idle", 0) /\ UNCHANGED <<dir, ours, past>>
  /\ \/ Mine = {} /\ cut' = {dir} /\ UNCHANGED ok
     \/ ok' = FALSE /\ cut' \in {cut, {dir}}

Dispose == DisposeLink \/ DisposeEnd

Crash ==
  /\ pc # "idle" /\ crashes < MaxCrash /\ crashes' = crashes + 1
  /\ Goto("idle", 0) /\ ok' = FALSE
  /\ \/ UNCHANGED <<dir, cut>>
     \/ dir' \in cut /\ cut' = {dir'}
  /\ UNCHANGED <<keep, pending, past>>

Next == \/ \E k \in Keeps : Start(k)
        \/ Drop \/ Preserve \/ Shift \/ Promote \/ Prune \/ SyncRotation
        \/ Dispose \/ Crash

Spec == Init /\ [][Next]_vars

-----------------------------------------------------------------------------
Version == Nat

TypeOK ==
  /\ \A d \in cut \cup {dir} :
       /\ d.gen \in [Gen -> Version] /\ d.pend \subseteq Version
       /\ d.rec \subseteq Version \X Version
  /\ pc \in {"idle", "drop", "preserve", "shift", "prune", "dispose"}
  /\ keep \in Keeps \cup {0} /\ n \in Nat /\ ok \in BOOLEAN /\ pending \in Nat
  /\ owed \subseteq Version /\ aged \subseteq Version

(* "recovery evidence was preserved where possible" (inplace_save): whatever *)
(* step fails and whenever the machine stops, each backup that no successful *)
(* rotation has aged out is under some name.                                 *)
NothingDropped == \A d \in cut \cup {dir} : owed \subseteq Versions(d)

(* However many rotations failed half-way, a generation with a smaller       *)
(* number holds a later backup.                                              *)
NewestFirst ==
  \A d \in cut \cup {dir} : \A i, j \in Gen :
     i < j /\ d.gen[i] # None => d.gen[i] > d.gen[j]
=============================================================================
