----------------------- MODULE BackupRotation_proofs -----------------------
(* Proofs about BackupRotation, for every number of generations, rotations   *)
(* and crashes and every choice of save.backup_keep: its types, and that no  *)
(* backup within the retention asked for is ever without a name.             *)
EXTENDS BackupRotation, TLAPS

Dirs == [gen : [Gen -> Version], pend : SUBSET Version,
         rec : SUBSET (Version \X Version)]

(* TypeOK, and what it needs of the control: a rotation that links or shifts *)
(* generations keeps at least one, and shifts only those it keeps.           *)
TypeInv ==
  /\ dir \in Dirs /\ cut \subseteq Dirs
  /\ pc \in {"idle", "drop", "preserve", "shift", "prune", "dispose"}
  /\ keep \in Keeps \cup {0} /\ n \in Nat /\ ok \in BOOLEAN /\ pending \in Nat
  /\ owed \subseteq Version /\ aged \subseteq Version
  /\ pc \in {"preserve", "shift"} => keep > 0
  /\ pc = "shift" => n < keep

LEMMA KeepsAreNumbers == Keeps \cup {0} \subseteq Nat /\ MaxGen \in Nat
BY RotationAssumption DEF RotationAssumption

LEMMA TypesImplied == TypeInv => TypeOK
BY DEF TypeInv, TypeOK, Dirs

LEMMA TypesInitially == Init => TypeInv
<1> SUFFICES ASSUME Init PROVE TypeInv
  OBVIOUS
<1> USE KeepsAreNumbers DEF Gen, Version, None
<1>1. PICK full \in SUBSET Gen :
        dir = [pend |-> {}, rec |-> {}, gen |->
                 [g \in Gen |-> IF g \in full THEN MaxGen + 1 - g ELSE None]]
  BY DEF Init
<1>2. [g \in Gen |-> IF g \in full THEN MaxGen + 1 - g ELSE None]
        \in [Gen -> Version]
  OBVIOUS
<1>3. dir \in Dirs
  BY <1>1, <1>2 DEF Dirs
<1>4. owed \subseteq Version
  BY <1>3 DEF Init, Versions, Dirs
<1>5. cut \subseteq Dirs
  BY <1>3 DEF Init
<1>6. pc = "idle" /\ keep = 0 /\ n = 0 /\ ok = TRUE /\ aged = {}
      /\ pending = MaxGen + 1
  BY DEF Init
<1>7. pending \in Nat
  BY <1>6
<1> QED BY <1>3, <1>4, <1>5, <1>6, <1>7 DEF TypeInv

(* What each directory operation makes of a directory. *)
LEMMA DiscardedDir ==
  ASSUME NEW d \in Dirs
  PROVE  /\ Discarded(d) \in Dirs
         /\ Discarded(d).gen = d.gen
         /\ Discarded(d).pend = d.pend \ {pending}
         /\ Discarded(d).rec = d.rec
BY DEF Dirs, Discarded

LEMMA LinkedDir ==
  ASSUME NEW d \in Dirs, NEW v \in Version, pending \in Version
  PROVE  /\ Linked(d, v) \in Dirs
         /\ Linked(d, v).gen = d.gen
         /\ Linked(d, v).pend = d.pend
         /\ Linked(d, v).rec = d.rec \cup {<<pending, v>>}
BY DEF Dirs, Linked

LEMMA WithoutDir ==
  ASSUME NEW d \in Dirs, NEW S
  PROVE  /\ Without(d, S) \in Dirs
         /\ Without(d, S).gen = d.gen
         /\ Without(d, S).pend = d.pend
         /\ Without(d, S).rec = d.rec \ S
BY DEF Dirs, Without

LEMMA ShiftedDir ==
  ASSUME NEW d \in Dirs, NEW i \in Gen, i - 1 \in Gen,
         dir.gen[i - 1] \in Version
  PROVE  /\ Shifted(d, i) \in Dirs
         /\ Shifted(d, i).gen
              = [[d.gen EXCEPT ![i] = dir.gen[i - 1]] EXCEPT ![i - 1] = None]
         /\ Shifted(d, i).pend = d.pend
         /\ Shifted(d, i).rec = d.rec
BY DEF Dirs, Shifted, Version, None

LEMMA PromotedDir ==
  ASSUME NEW d \in Dirs, pending \in Version
  PROVE  /\ Promoted(d) \in Dirs
         /\ Promoted(d).gen = [d.gen EXCEPT ![0] = pending]
         /\ Promoted(d).pend = d.pend \ {pending}
         /\ Promoted(d).rec = d.rec
BY DEF Dirs, Promoted

LEMMA ClearedDir ==
  ASSUME NEW d \in Dirs, NEW i \in Gen
  PROVE  /\ Cleared(d, i) \in Dirs
         /\ Cleared(d, i).gen = [d.gen EXCEPT ![i] = None]
         /\ Cleared(d, i).pend = d.pend
         /\ Cleared(d, i).rec = d.rec
BY DEF Dirs, Cleared, Version, None

LEMMA TypesKept == TypeInv /\ [Next]_vars => TypeInv'
<1> SUFFICES ASSUME TypeInv, [Next]_vars PROVE TypeInv'
  OBVIOUS
<1> USE KeepsAreNumbers DEF TypeInv, Goto, ours, past
<1> DEFINE Vs == Version
<1>0. 0 \in Gen /\ Gen \subseteq Nat /\ Vs = Nat /\ pending \in Vs
  BY DEF Gen, Version
<1>a. \A g \in Gen : dir.gen[g] \in Vs
  BY DEF Dirs
<1>1. ASSUME NEW k \in Keeps, Start(k) PROVE TypeInv'
  <2>1. dir' \in Dirs /\ cut' \subseteq Dirs
    BY <1>0, <1>1 DEF Start, Dirs
  <2>2. owed' \subseteq Version /\ aged' \subseteq Version
    BY <1>0, <1>1 DEF Start, Dirs
  <2> QED BY <1>0, <1>1, <2>1, <2>2 DEF Start
<1>2. CASE Drop
  <2>1. \A d \in Dirs : Discarded(d) \in Dirs
    BY DiscardedDir
  <2>2. dir' \in Dirs /\ cut' \subseteq Dirs
    BY <1>2, <2>1 DEF Drop, Change
  <2> QED BY <1>2, <2>2 DEF Drop
<1>3. CASE PreserveLink
  <2>1. \A d \in Dirs, v \in Vs : Linked(d, v) \in Dirs
    BY <1>0, LinkedDir
  <2>2. dir' \in Dirs /\ cut' \subseteq Dirs
    BY <1>3, <1>a, <2>1 DEF PreserveLink, Change
  <2> QED BY <1>3, <2>2 DEF PreserveLink
<1>4. CASE PreserveFails
  <2>1. \A d \in Dirs, S \in SUBSET Mine : Without(d, S) \in Dirs
    BY WithoutDir
  <2>2. dir' \in Dirs /\ cut' \subseteq Dirs
    BY <1>4, <2>1 DEF PreserveFails, Change, Rid
  <2> QED BY <1>4, <2>2 DEF PreserveFails
<1>5. CASE PreserveSync
  <2>1. keep - 1 \in Nat /\ keep - 1 < keep
    BY <1>5 DEF PreserveSync
  <2> QED BY <1>5, <2>1 DEF PreserveSync, Sync
<1>6. CASE Shift
  <2>1. n \in Gen /\ n - 1 \in Gen /\ n - 1 \in Nat /\ n - 1 < keep
    BY <1>6, RotationAssumption DEF Shift, Gen, RotationAssumption
  <2>2. \A d \in Dirs : Shifted(d, n) \in Dirs
    BY <1>a, <2>1, ShiftedDir
  <2>3. dir' \in Dirs /\ cut' \subseteq Dirs
    BY <1>6, <2>2 DEF Shift, Change
  <2>4. pc' \in {"shift", "idle"} /\ n' \in Nat /\ ok' \in BOOLEAN
        /\ (pc' = "shift" => n' < keep)
    BY <1>6, <2>1 DEF Shift
  <2>5. UNCHANGED <<keep, pending, owed, aged>> /\ keep > 0
    BY <1>6 DEF Shift
  <2> QED BY <2>3, <2>4, <2>5
<1>7. CASE Promote
  <2>1. \A d \in Dirs : Promoted(d) \in Dirs
    BY <1>0, PromotedDir
  <2> QED BY <1>7, <2>1 DEF Promote, Change
<1>8. CASE Prune
  <2>1. n \in Gen /\ \A d \in Dirs : Cleared(d, n) \in Dirs
    BY <1>8, ClearedDir DEF Prune
  <2>2. dir' \in Dirs /\ cut' \subseteq Dirs
    BY <1>8, <2>1 DEF Prune, Change
  <2>3. n + 1 \in Nat
    OBVIOUS
  <2>4. pc' = "prune" /\ n' \in Nat /\ ok' \in BOOLEAN
    BY <1>8, <2>3, Zenon DEF Prune
  <2>5. UNCHANGED <<keep, pending, owed, aged>>
    BY <1>8 DEF Prune
  <2> QED BY <2>2, <2>4, <2>5
<1>9. CASE SyncRotation
  BY <1>0, <1>9 DEF SyncRotation, Sync, Dirs
<1>10. CASE DisposeLink
  <2>1. \A d \in Dirs, S \in SUBSET Mine : Without(d, S) \in Dirs
    BY WithoutDir
  <2>2. dir' \in Dirs /\ cut' \subseteq Dirs
    BY <1>10, <2>1 DEF DisposeLink, Change
  <2> QED BY <1>10, <2>2 DEF DisposeLink
<1>11. CASE DisposeEnd
  BY <1>11 DEF DisposeEnd
<1>12. CASE Crash
  BY <1>0, <1>12 DEF Crash, Dirs
<1>13. CASE UNCHANGED vars
  BY <1>13 DEF vars
<1> QED
  BY <1>1, <1>2, <1>3, <1>4, <1>5, <1>6, <1>7, <1>8, <1>9, <1>10, <1>11,
     <1>12, <1>13 DEF Next, Preserve, Dispose

(* However a rotation goes, the state has the types that TypeOK states.      *)
THEOREM TypeCorrect == Spec => []TypeOK
<1>1. Init => TypeInv
  BY TypesInitially
<1>2. TypeInv /\ [Next]_vars => TypeInv'
  BY TypesKept
<1>3. TypeInv => TypeOK
  BY TypesImplied
<1> QED BY <1>1, <1>2, <1>3, PTL DEF Spec

-----------------------------------------------------------------------------
(* Where a directory still has the version v: under any name, by a recovery  *)
(* link, or without the links of the rotation under way.                     *)
All            == cut \cup {dir}
Named(d, v)    == \/ \E g \in Gen : d.gen[g] = v
                  \/ v \in d.pend
                  \/ \E r \in d.rec : r[2] = v
RecHolds(d, v) == \E r \in d.rec : r[2] = v
Kept(d, v)     == \/ \E g \in Gen : d.gen[g] = v
                  \/ v \in d.pend
                  \/ \E r \in d.rec : r[2] = v /\ r[1] # pending

(* Why no power cut costs a backup: a version that is still owed and that a  *)
(* shift moves or overwrites has a recovery link in every outcome; what is   *)
(* pruned is owed no more; and the recovery links go only when the names     *)
(* that stay are enough without them.                                        *)
AllNamed    == \A d \in All, v \in owed : Named(d, v)
Stamped     == \A d \in All : \A r \in d.rec : r[1] <= pending
OwedTaken   == \A v \in owed : v # None /\ v <= pending
DropsNone   == pc = "drop" => pending \notin owed /\ keep = 0
RetiredFree == pc \in {"drop", "preserve", "shift", "prune"} =>
                 \A d \in All, g \in Gen : g >= keep => d.gen[g] \notin owed
PrunesOld   == pc = "prune" => n >= keep
LinksSpare  == pc \in {"preserve", "dispose"} =>
                 \A d \in All, v \in owed : Kept(d, v)
LinksSpared == pc \in {"drop", "shift", "prune"} =>
                 \A v \in owed \ aged : Kept(dir, v)
LinkedSoFar == pc = "preserve" =>
                 \A g \in Gen : /\ g < n /\ dir.gen[g] \in owed
                                    => RecHolds(dir, dir.gen[g])
                                /\ g + 1 = keep => dir.gen[g] \in aged
ShiftHeld   == pc = "shift" =>
                 /\ \A d \in All, g \in Gen : g < keep /\ d.gen[g] \in owed
                                                => RecHolds(d, d.gen[g])
                 /\ \A d \in All : d.rec = dir.rec
                 /\ \A g \in Gen : g = n => dir.gen[g] \in aged \cup {None}

DropInv == /\ AllNamed /\ Stamped /\ OwedTaken
           /\ DropsNone /\ RetiredFree /\ PrunesOld
           /\ LinksSpare /\ LinksSpared /\ LinkedSoFar /\ ShiftHeld

LEMMA DropImplied == TypeInv /\ DropInv => NothingDropped
<1> SUFFICES ASSUME TypeInv, DropInv, NEW d \in All, NEW v \in owed
             PROVE  v \in Versions(d)
  BY DEF NothingDropped, All
<1>1. Named(d, v)
  BY DEF DropInv, AllNamed
<1> QED BY <1>1 DEF Named, Versions

LEMMA DropInitially == Init => DropInv
<1> SUFFICES ASSUME Init PROVE DropInv
  OBVIOUS
<1> USE KeepsAreNumbers
<1>1. TypeInv
  BY TypesInitially
<1>2. PICK full \in SUBSET Gen :
        dir = [pend |-> {}, rec |-> {}, gen |->
                 [g \in Gen |-> IF g \in full THEN MaxGen + 1 - g ELSE None]]
  BY DEF Init
<1>3. All = {dir} /\ pending = MaxGen + 1 /\ pc = "idle"
      /\ owed = Versions(dir) \ {None}
  BY DEF Init, All
<1>4. AllNamed
  BY <1>3 DEF AllNamed, Named, Versions
<1>5. Stamped
  <2>1. dir.rec = {}
    BY <1>2
  <2> QED BY <1>3, <2>1 DEF Stamped
<1>6. OwedTaken
  <2> SUFFICES ASSUME NEW v \in owed PROVE v # None /\ v <= pending
    BY DEF OwedTaken
  <2>1. PICK g \in Gen : v = dir.gen[g]
    BY <1>2, <1>3 DEF Versions
  <2>2. dir.gen[g] = IF g \in full THEN MaxGen + 1 - g ELSE None
    BY <1>2
  <2> QED BY <1>3, <2>1, <2>2 DEF Gen, None
<1> QED
  BY <1>3, <1>4, <1>5, <1>6
  DEF DropInv, DropsNone, RetiredFree, PrunesOld, LinksSpare, LinksSpared,
      LinkedSoFar, ShiftHeld

(* The parts that are left when a rotation ends, however it does.            *)
LEMMA Ending ==
  ASSUME pc' = "idle", AllNamed', Stamped', OwedTaken' PROVE DropInv'
BY DEF DropInv, DropsNone, RetiredFree, PrunesOld, LinksSpare, LinksSpared,
       LinkedSoFar, ShiftHeld

LEMMA DropKeptByStart ==
  ASSUME TypeInv, DropInv, NEW k \in Keeps, Start(k) PROVE DropInv'
<1> USE KeepsAreNumbers
<1>0. /\ dir \in Dirs /\ dir \in All /\ pending \in Nat /\ k \in Nat
      /\ Gen \subseteq Nat /\ AllNamed /\ Stamped /\ OwedTaken
  BY DEF TypeInv, All, DropInv, Gen
<1>1. pending' = pending + 1 /\ keep' = k /\ dir' = [dir EXCEPT
        !.pend = @ \cup {pending'}] /\ cut' = {dir'} /\ All' = {dir'}
  BY DEF Start, All
<1>2. /\ dir'.gen = dir.gen /\ dir'.rec = dir.rec
      /\ dir'.pend = dir.pend \cup {pending'}
  BY <1>0, <1>1 DEF Dirs
<1>3. /\ owed' = (owed \cup (IF k = 0 THEN {} ELSE {pending'}))
                    \ {dir.gen[g] : g \in {h \in Gen : h >= k}}
      /\ aged' = {dir.gen[g] : g \in {h \in Gen : h + 1 = k}}
  BY DEF Start
<1>4. pc' = (IF k = 0 THEN "drop" ELSE "preserve") /\ n' = 0
  BY DEF Start, Goto
<1>5. \A r \in dir.rec : r[1] # pending'
  <2>1. \A r \in dir.rec : r[1] \in Nat
    BY <1>0 DEF Dirs, Version
  <2> QED BY <1>0, <1>1, <2>1 DEF Stamped
<1>6. \A v \in owed' : Kept(dir, v)' /\ Named(dir, v)'
  <2> SUFFICES ASSUME NEW v \in owed' PROVE Kept(dir, v)' /\ Named(dir, v)'
    OBVIOUS
  <2>1. CASE v = pending'
    BY <1>2, <2>1 DEF Kept, Named
  <2>2. CASE v \in owed
    <3>1. Named(dir, v)
      BY <1>0, <2>2 DEF AllNamed
    <3> QED BY <1>2, <1>5, <3>1 DEF Kept, Named
  <2> QED BY <1>3, <2>1, <2>2
<1>7. AllNamed' /\ LinksSpare' /\ LinksSpared'
  BY <1>1, <1>6 DEF AllNamed, LinksSpare, LinksSpared
<1>8. Stamped'
  <2>1. \A r \in dir.rec : r[1] \in Nat
    BY <1>0 DEF Dirs, Version
  <2>2. \A r \in dir.rec : r[1] <= pending
    BY <1>0 DEF Stamped
  <2>3. \A r \in dir.rec : r[1] <= pending'
    BY <1>0, <1>1, <2>1, <2>2
  <2> QED BY <1>1, <1>2, <2>3 DEF Stamped
<1>9. owed \subseteq Nat
  BY DEF TypeInv, Version
<1>10. OwedTaken'
  BY <1>0, <1>1, <1>3, <1>9 DEF OwedTaken, None
<1>11. DropsNone'
  BY <1>0, <1>1, <1>3, <1>4, <1>9 DEF DropsNone, OwedTaken
<1>12. RetiredFree'
  BY <1>1, <1>2, <1>3 DEF RetiredFree
<1>13. LinkedSoFar'
  BY <1>0, <1>1, <1>2, <1>3, <1>4 DEF LinkedSoFar
<1> QED
  BY <1>4, <1>7, <1>8, <1>10, <1>11, <1>12, <1>13
  DEF DropInv, PrunesOld, ShiftHeld

LEMMA DropKeptByDrop ==
  ASSUME TypeInv, DropInv, Drop PROVE DropInv'
<1>0. All \subseteq Dirs /\ dir \in All /\ UNCHANGED <<owed, aged, pending, keep>>
  BY DEF TypeInv, All, Drop, ours, past
<1> USE DEF DropInv
<1>1. CASE UNCHANGED <<dir, cut>> /\ pc' = "idle"
  <2>1. AllNamed' /\ Stamped' /\ OwedTaken'
    BY <1>0, <1>1 DEF All, AllNamed, Named, Stamped, OwedTaken
  <2> QED BY <1>1, <2>1, Ending
<1>2. CASE /\ pc' = "prune" /\ n' = 0
           /\ Change(Discarded(dir), {Discarded(d) : d \in cut})
  <2>1. \A c \in All' : \/ c \in All
                        \/ \E d \in All : c = Discarded(d)
    BY <1>2 DEF Change, All
  <2>2. pc = "drop" /\ pending \notin owed /\ keep = 0
    BY DEF Drop, DropsNone
  <2>3. \A d \in All : /\ Discarded(d).gen = d.gen
                       /\ Discarded(d).pend = d.pend \ {pending}
                       /\ Discarded(d).rec = d.rec
    BY <1>0, DiscardedDir
  <2>4. AllNamed' /\ Stamped' /\ OwedTaken' /\ RetiredFree'
    BY <1>0, <2>1, <2>2, <2>3
    DEF AllNamed, Named, Stamped, OwedTaken, RetiredFree
  <2>5. dir' = Discarded(dir)
    BY <1>2 DEF Change
  <2>6. LinksSpared'
    BY <1>0, <2>2, <2>3, <2>5 DEF LinksSpared, Kept
  <2> QED
    BY <1>0, <1>2, <2>2, <2>4, <2>6
    DEF DropsNone, PrunesOld, LinksSpare, LinkedSoFar, ShiftHeld
<1> QED BY <1>1, <1>2 DEF Drop, Goto

LEMMA DropKeptByLink ==
  ASSUME TypeInv, DropInv, PreserveLink PROVE DropInv'
<1> USE KeepsAreNumbers DEF DropInv
<1>0. /\ All \subseteq Dirs /\ dir \in All /\ pending \in Version
      /\ UNCHANGED <<owed, aged, pending, keep>> /\ n \in Gen /\ Gen \subseteq Nat
      /\ pc = "preserve" /\ pc' = "preserve" /\ n' = n + 1
  BY DEF TypeInv, All, PreserveLink, ours, past, Version, Gen, Goto
<1>1. dir.gen[n] \in Version
  BY <1>0 DEF Dirs
<1> DEFINE v == dir.gen[n]
<1>2. \A d \in All : /\ Linked(d, v).gen = d.gen /\ Linked(d, v).pend = d.pend
                     /\ Linked(d, v).rec = d.rec \cup {<<pending, v>>}
  BY <1>0, <1>1, LinkedDir
<1> HIDE DEF v
<1>3. CASE v # None
  <2>1. dir' = Linked(dir, v) /\ cut' = cut \cup {Linked(d, v) : d \in cut}
    BY <1>3 DEF v, PreserveLink, Change
  <2>2. \A c \in All' : c \in All \/ \E d \in All : c = Linked(d, v)
    BY <2>1 DEF All
  <2>3. AllNamed' /\ LinksSpare' /\ RetiredFree' /\ OwedTaken'
    BY <1>0, <1>2, <2>2
    DEF AllNamed, Named, LinksSpare, Kept, RetiredFree, OwedTaken
  <2>4. Stamped'
    <3>1. pending <= pending
      BY <1>0 DEF Version
    <3> QED BY <1>0, <1>2, <2>2, <3>1 DEF Stamped
  <2>5. LinkedSoFar'
    <3> SUFFICES ASSUME NEW g \in Gen
                 PROVE  /\ g < n' /\ dir'.gen[g] \in owed
                             => RecHolds(dir', dir'.gen[g])
                        /\ g + 1 = keep => dir'.gen[g] \in aged
      BY <1>0 DEF LinkedSoFar, RecHolds
    <3>1. g + 1 = keep => dir'.gen[g] \in aged
      BY <1>0, <1>2, <2>1 DEF LinkedSoFar
    <3>2. CASE g < n
      BY <1>0, <1>2, <2>1, <3>1, <3>2 DEF LinkedSoFar, RecHolds
    <3>3. CASE g = n
      <4>1. <<pending, v>> \in dir'.rec /\ <<pending, v>>[2] = dir'.gen[g]
        BY <1>0, <1>2, <2>1, <3>3 DEF v
      <4> QED BY <3>1, <4>1 DEF RecHolds
    <3> QED BY <1>0, <3>1, <3>2, <3>3
  <2> QED
    BY <1>0, <2>3, <2>4, <2>5 DEF DropsNone, PrunesOld, LinksSpared, ShiftHeld
<1>4. CASE v = None
  <2>1. UNCHANGED <<dir, cut>>
    BY <1>4 DEF PreserveLink, v
  <2>2. AllNamed' /\ LinksSpare' /\ RetiredFree' /\ OwedTaken' /\ Stamped'
    BY <1>0, <2>1 DEF All, AllNamed, Named, LinksSpare, Kept, RetiredFree,
                      OwedTaken, Stamped
  <2>3. LinkedSoFar'
    BY <1>0, <1>4, <2>1 DEF LinkedSoFar, RecHolds, OwedTaken, v
  <2> QED
    BY <1>0, <2>2, <2>3 DEF DropsNone, PrunesOld, LinksSpared, ShiftHeld
<1> QED BY <1>3, <1>4

LEMMA DropKeptByFailure ==
  ASSUME TypeInv, DropInv, PreserveFails PROVE DropInv'
<1>0. /\ All \subseteq Dirs /\ dir \in All /\ pc = "preserve" /\ pc' = "idle"
      /\ UNCHANGED <<owed, pending>> /\ LinksSpare /\ Stamped /\ OwedTaken
  BY DEF TypeInv, All, PreserveFails, ours, past, Goto, DropInv
<1>1. PICK gone \in SUBSET Mine :
        \/ Change(Without(dir, gone), Rid(gone))
        \/ dir' = Without(dir, gone) /\ cut' = {dir'}
  BY Zenon DEF PreserveFails
<1>2. \A c \in All' :
        c \in All \/ \E d \in All, S \in SUBSET Mine : c = Without(d, S)
  BY <1>0, <1>1 DEF Change, All, Rid
<1>3. \A d \in All, S \in SUBSET Mine :
        /\ Without(d, S).gen = d.gen /\ Without(d, S).pend = d.pend
        /\ Without(d, S).rec = d.rec \ S
  BY <1>0, WithoutDir
<1>4. \A S \in SUBSET Mine : \A r \in S : r[1] = pending
  BY DEF Mine
<1>5. AllNamed' /\ Stamped' /\ OwedTaken'
  BY <1>0, <1>2, <1>3, <1>4
  DEF AllNamed, Named, LinksSpare, Kept, Stamped, OwedTaken
<1> QED BY <1>0, <1>5, Ending

LEMMA DropKeptBySync ==
  ASSUME TypeInv, DropInv, PreserveSync PROVE DropInv'
<1> USE DEF DropInv
<1>0. /\ dir \in All /\ pc = "preserve" /\ n = keep /\ dir' = dir
      /\ UNCHANGED <<owed, aged, pending, keep>> /\ All' \subseteq All
  BY DEF All, PreserveSync, Sync, ours, past
<1>1. AllNamed' /\ Stamped' /\ OwedTaken'
  BY <1>0 DEF AllNamed, Named, Stamped, OwedTaken
<1>2. CASE pc' = "idle"
  BY <1>1, <1>2, Ending
<1>3. CASE pc' = "shift" /\ n' = keep - 1 /\ cut' = {dir}
  <2>1. All' = {dir}
    BY <1>0, <1>3 DEF All
  <2>2. RetiredFree' /\ LinksSpared'
    BY <1>0, <1>3 DEF RetiredFree, LinksSpare, LinksSpared, Kept
  <2>3. keep \in Nat /\ Gen \subseteq Nat
    BY KeepsAreNumbers DEF TypeInv, Gen
  <2>4. \A g \in Gen : g = keep - 1 => dir.gen[g] \in aged
    BY <1>0, <2>3 DEF LinkedSoFar
  <2>5. ShiftHeld'
    BY <1>0, <1>3, <2>1, <2>4 DEF ShiftHeld, LinkedSoFar, RecHolds
  <2> QED
    BY <1>1, <1>3, <2>2, <2>5 DEF DropsNone, PrunesOld, LinksSpare, LinkedSoFar
<1> QED BY <1>2, <1>3 DEF PreserveSync, Goto, Sync

LEMMA DropKeptByShift ==
  ASSUME TypeInv, DropInv, Shift PROVE DropInv'
<1> USE KeepsAreNumbers DEF DropInv
<1>0. /\ All \subseteq Dirs /\ dir \in All /\ pc = "shift" /\ n \in Nat /\ n > 0
      /\ UNCHANGED <<owed, aged, pending, keep>> /\ n < keep /\ keep \in Nat
      /\ Gen \subseteq Nat
  BY DEF TypeInv, All, Shift, ours, past, Gen
<1>1. n \in Gen /\ n - 1 \in Gen /\ n - 1 < keep
  BY <1>0, RotationAssumption DEF RotationAssumption, Gen, TypeInv
<1>2. dir.gen[n - 1] \in Version
  BY <1>0, <1>1 DEF Dirs
<1>3. CASE /\ UNCHANGED <<dir, cut>>
           /\ \/ pc' = "idle"
              \/ pc' = "shift" /\ n' = n - 1 /\ dir.gen[n - 1] = None
  <2>1. AllNamed' /\ Stamped' /\ OwedTaken' /\ RetiredFree'
    BY <1>0, <1>3 DEF All, AllNamed, Named, Stamped, OwedTaken, RetiredFree
  <2>2. CASE pc' = "idle"
    BY <2>1, <2>2, Ending
  <2>3. CASE pc' = "shift" /\ n' = n - 1 /\ dir.gen[n - 1] = None
    <3>1. LinksSpared'
      BY <1>0, <1>3 DEF LinksSpared, Kept
    <3>2. ShiftHeld'
      BY <1>0, <1>3, <2>3 DEF All, ShiftHeld, RecHolds
    <3> QED
      BY <2>1, <2>3, <3>1, <3>2
      DEF DropsNone, PrunesOld, LinksSpare, LinkedSoFar
  <2> QED BY <1>3, <2>2, <2>3
<1>4. CASE /\ dir' = Shifted(dir, n)
           /\ cut' = cut \cup {Shifted(d, n) : d \in cut}
           /\ pc' = "shift" /\ n' = n - 1 
  <2>1. \A c \in All' : c \in All \/ \E d \in All : c = Shifted(d, n)
    BY <1>4 DEF All
  <2>2. \A d \in All :
          /\ Shifted(d, n).gen = [[d.gen EXCEPT ![n] = dir.gen[n - 1]]
                                    EXCEPT ![n - 1] = None]
          /\ Shifted(d, n).pend = d.pend /\ Shifted(d, n).rec = d.rec
    BY <1>0, <1>1, <1>2, ShiftedDir
  <2>3. \A d \in All, g \in Gen :
          Shifted(d, n).gen[g] = IF g = n THEN dir.gen[n - 1]
                                 ELSE IF g = n - 1 THEN None ELSE d.gen[g]
    <3>1. \A d \in All : d.gen \in [Gen -> Version]
      BY <1>0 DEF Dirs
    <3>2. n # n - 1
      BY <1>0
    <3> QED BY <1>1, <2>2, <3>1, <3>2
  <2>4. AllNamed'
    <3> SUFFICES ASSUME NEW d \in All, NEW v \in owed
                 PROVE  Named(Shifted(d, n), v)
      BY <1>0, <2>1 DEF AllNamed, Named
    <3>1. Named(d, v)
      BY DEF AllNamed
    <3>2. ASSUME NEW g \in Gen, d.gen[g] = v, g \notin {n, n - 1}
          PROVE  Named(Shifted(d, n), v)
      BY <2>3, <3>2 DEF Named
    <3>3. ASSUME NEW g \in {n, n - 1}, d.gen[g] = v
          PROVE  Named(Shifted(d, n), v)
      <4>1. RecHolds(d, v)
        BY <1>0, <1>1, <3>3 DEF ShiftHeld
      <4> QED BY <2>2, <4>1 DEF Named, RecHolds
    <3> QED BY <2>2, <3>1, <3>2, <3>3 DEF Named
  <2>5. Stamped' /\ OwedTaken'
    BY <1>0, <2>1, <2>2 DEF Stamped, OwedTaken
  <2>6. RetiredFree'
    <3>1. \A g \in Gen : g >= keep => g # n /\ g # n - 1
      BY <1>0, <1>1
    <3> QED BY <1>0, <1>4, <2>1, <2>3, <3>1 DEF RetiredFree
  <2>7. LinksSpared'
    <3> SUFFICES ASSUME NEW v \in owed \ aged PROVE Kept(Shifted(dir, n), v)
      BY <1>0, <1>4 DEF LinksSpared, Kept
    <3>1. Kept(dir, v)
      BY <1>0 DEF LinksSpared
    <3>2. dir.gen[n] # v
      BY <1>0, <1>1 DEF ShiftHeld, OwedTaken
    <3>3. ASSUME NEW g \in Gen, dir.gen[g] = v PROVE Kept(Shifted(dir, n), v)
      <4>1. CASE g = n - 1
        BY <1>0, <1>1, <2>3, <3>3, <4>1 DEF Kept
      <4>2. CASE g # n - 1
        BY <1>0, <2>3, <3>2, <3>3, <4>2 DEF Kept
      <4> QED BY <4>1, <4>2
    <3> QED BY <1>0, <2>2, <3>1, <3>3 DEF Kept
  <2>8. ShiftHeld'
    <3>1. \A c \in All' : c.rec = dir.rec /\ dir'.rec = dir.rec
      BY <1>0, <1>4, <2>1, <2>2 DEF ShiftHeld
    <3>2. \A g \in Gen : g = n - 1 => dir'.gen[g] = None
      BY <1>0, <1>1, <1>4, <2>3
    <3>3. ASSUME NEW d \in All, NEW g \in Gen, g < keep,
                 Shifted(d, n).gen[g] \in owed
          PROVE  RecHolds(Shifted(d, n), Shifted(d, n).gen[g])
      <4>1. \/ Shifted(d, n).gen[g] = d.gen[g]
            \/ Shifted(d, n).gen[g] = dir.gen[n - 1]
        BY <2>3, <3>3 DEF OwedTaken
      <4>2. d.rec = dir.rec /\ Shifted(d, n).rec = dir.rec
        BY <1>0, <2>2 DEF ShiftHeld
      <4> QED BY <1>0, <1>1, <3>3, <4>1, <4>2 DEF ShiftHeld, RecHolds
    <3> QED BY <1>0, <1>4, <2>1, <3>1, <3>2, <3>3 DEF ShiftHeld, RecHolds
  <2> QED
    BY <1>4, <2>4, <2>5, <2>6, <2>7, <2>8
    DEF DropsNone, PrunesOld, LinksSpare, LinkedSoFar
<1> QED BY <1>3, <1>4 DEF Shift, Goto, Change

LEMMA DropKeptByPromote ==
  ASSUME TypeInv, DropInv, Promote PROVE DropInv'
<1> USE KeepsAreNumbers DEF DropInv
<1>0. /\ All \subseteq Dirs /\ dir \in All /\ pc = "shift" /\ n = 0
      /\ UNCHANGED <<owed, aged, pending, keep>> /\ keep \in Nat /\ keep > 0
      /\ Gen \subseteq Nat /\ 0 \in Gen /\ pending \in Version
  BY DEF TypeInv, All, Promote, ours, past, Gen, Version
<1>1. CASE pc' = "idle" /\ UNCHANGED <<dir, cut>>
  <2>1. AllNamed' /\ Stamped' /\ OwedTaken'
    BY <1>0, <1>1 DEF All, AllNamed, Named, Stamped, OwedTaken
  <2> QED BY <1>1, <2>1, Ending
<1>2. CASE /\ pc' = "prune" /\ n' = keep /\ dir' = Promoted(dir)
           /\ cut' = cut \cup {Promoted(d) : d \in cut}
  <2>1. \A c \in All' : c \in All \/ \E d \in All : c = Promoted(d)
    BY <1>2 DEF All
  <2>2. \A d \in All : /\ Promoted(d).gen = [d.gen EXCEPT ![0] = pending]
                       /\ Promoted(d).pend = d.pend \ {pending}
                       /\ Promoted(d).rec = d.rec
    BY <1>0, PromotedDir
  <2>3. \A d \in All, g \in Gen :
          Promoted(d).gen[g] = IF g = 0 THEN pending ELSE d.gen[g]
    <3>1. \A d \in All : d.gen \in [Gen -> Version]
      BY <1>0 DEF Dirs
    <3> QED BY <1>0, <2>2, <3>1
  <2>4. AllNamed'
    <3> SUFFICES ASSUME NEW d \in All, NEW v \in owed
                 PROVE  Named(Promoted(d), v)
      BY <1>0, <2>1 DEF AllNamed, Named
    <3>1. Named(d, v)
      BY DEF AllNamed
    <3>2. d.gen[0] = v => RecHolds(d, v)
      BY <1>0 DEF ShiftHeld
    <3>3. Promoted(d).gen[0] = pending
      BY <1>0, <2>3
    <3> QED BY <1>0, <2>2, <2>3, <3>1, <3>2, <3>3 DEF Named, RecHolds
  <2>5. Stamped' /\ OwedTaken'
    BY <1>0, <2>1, <2>2 DEF Stamped, OwedTaken
  <2>6. RetiredFree'
    BY <1>0, <1>2, <2>1, <2>3 DEF RetiredFree
  <2>7. LinksSpared'
    <3> SUFFICES ASSUME NEW v \in owed \ aged PROVE Kept(Promoted(dir), v)
      BY <1>0, <1>2 DEF LinksSpared, Kept
    <3>1. Kept(dir, v)
      BY <1>0 DEF LinksSpared
    <3>2. dir.gen[0] # v
      BY <1>0 DEF ShiftHeld, OwedTaken
    <3>3. Promoted(dir).gen[0] = pending
      BY <1>0, <2>3
    <3> QED BY <1>0, <2>2, <2>3, <3>1, <3>2, <3>3 DEF Kept
  <2>8. PrunesOld'
    BY <1>0, <1>2 DEF PrunesOld
  <2> QED
    BY <1>2, <2>4, <2>5, <2>6, <2>7, <2>8
    DEF DropsNone, LinksSpare, LinkedSoFar, ShiftHeld
<1> QED BY <1>1, <1>2 DEF Promote, Goto, Change

LEMMA DropKeptByPrune ==
  ASSUME TypeInv, DropInv, Prune PROVE DropInv'
<1> USE KeepsAreNumbers DEF DropInv
<1>0. /\ All \subseteq Dirs /\ dir \in All /\ pc = "prune" /\ pc' = "prune"
      /\ UNCHANGED <<owed, aged, pending, keep>> /\ n \in Gen /\ n' = n + 1
      /\ n \in Nat /\ keep \in Nat /\ n >= keep
  BY DEF TypeInv, All, Prune, ours, past, Goto, PrunesOld
<1>1. PrunesOld'
  BY <1>0 DEF PrunesOld
<1>2. CASE UNCHANGED <<dir, cut>>
  <2>1. AllNamed' /\ Stamped' /\ OwedTaken' /\ RetiredFree' /\ LinksSpared'
    BY <1>0, <1>2 DEF All, AllNamed, Named, Stamped, OwedTaken, RetiredFree,
                      LinksSpared, Kept
  <2> QED
    BY <1>0, <1>1, <2>1 DEF DropsNone, LinksSpare, LinkedSoFar, ShiftHeld
<1>3. CASE /\ dir' = Cleared(dir, n)
           /\ cut' = cut \cup {Cleared(d, n) : d \in cut}
  <2>1. \A c \in All' : c \in All \/ \E d \in All : c = Cleared(d, n)
    BY <1>3 DEF All
  <2>2. \A d \in All : /\ Cleared(d, n).gen = [d.gen EXCEPT ![n] = None]
                       /\ Cleared(d, n).pend = d.pend
                       /\ Cleared(d, n).rec = d.rec
    BY <1>0, ClearedDir
  <2>3. \A d \in All, g \in Gen :
          Cleared(d, n).gen[g] = IF g = n THEN None ELSE d.gen[g]
    <3>1. \A d \in All : d.gen \in [Gen -> Version]
      BY <1>0 DEF Dirs
    <3> QED BY <1>0, <2>2, <3>1
  <2>4. \A d \in All, v \in owed : d.gen[n] # v
    BY <1>0 DEF RetiredFree
  <2>5. AllNamed'
    <3> SUFFICES ASSUME NEW d \in All, NEW v \in owed
                 PROVE  Named(Cleared(d, n), v)
      BY <1>0, <2>1 DEF AllNamed, Named
    <3>1. Named(d, v)
      BY DEF AllNamed
    <3>2. ASSUME NEW g \in Gen, d.gen[g] = v PROVE Named(Cleared(d, n), v)
      <4>1. g # n
        BY <2>4, <3>2
      <4>2. Cleared(d, n).gen[g] = v
        BY <2>3, <3>2, <4>1
      <4> QED BY <4>2 DEF Named
    <3> QED BY <2>2, <3>1, <3>2 DEF Named
  <2>6. Stamped' /\ OwedTaken'
    BY <1>0, <2>1, <2>2 DEF Stamped, OwedTaken
  <2>7. RetiredFree'
    BY <1>0, <2>1, <2>3 DEF RetiredFree, OwedTaken
  <2>8. LinksSpared'
    <3> SUFFICES ASSUME NEW v \in owed \ aged PROVE Kept(Cleared(dir, n), v)
      BY <1>0, <1>3 DEF LinksSpared, Kept
    <3>1. Kept(dir, v)
      BY <1>0 DEF LinksSpared
    <3> QED BY <1>0, <2>2, <2>3, <2>4, <3>1 DEF Kept
  <2> QED
    BY <1>0, <1>1, <2>5, <2>6, <2>7, <2>8
    DEF DropsNone, LinksSpare, LinkedSoFar, ShiftHeld
<1> QED BY <1>2, <1>3 DEF Prune, Change

LEMMA DropKeptBySyncRotation ==
  ASSUME TypeInv, DropInv, SyncRotation PROVE DropInv'
<1> USE DEF DropInv
<1>0. /\ dir \in All /\ pc = "prune" /\ dir' = dir /\ owed' \subseteq owed
      /\ UNCHANGED <<aged, pending, keep>> /\ All' \subseteq All
  BY DEF All, SyncRotation, Sync, ours
<1>1. AllNamed' /\ Stamped' /\ OwedTaken'
  BY <1>0 DEF AllNamed, Named, Stamped, OwedTaken
<1>2. CASE pc' = "idle"
  BY <1>1, <1>2, Ending
<1>3. CASE pc' = "dispose" /\ ok' = TRUE
  <2>1. All' = {dir} /\ owed' = owed \ aged
    BY <1>3 DEF SyncRotation, Sync, All
  <2>2. LinksSpare'
    BY <1>0, <2>1 DEF LinksSpared, LinksSpare, Kept
  <2> QED
    BY <1>1, <1>3, <2>2 DEF DropsNone, RetiredFree, PrunesOld, LinksSpared,
                            LinkedSoFar, ShiftHeld
<1> QED BY <1>2, <1>3 DEF SyncRotation, Goto, TypeInv

LEMMA DropKeptByDispose ==
  ASSUME TypeInv, DropInv, Dispose PROVE DropInv'
<1>0. All \subseteq Dirs /\ dir \in All /\ pc = "dispose" /\ LinksSpare
      /\ UNCHANGED <<owed, aged, pending, keep>> /\ Stamped /\ OwedTaken
      /\ AllNamed
  BY DEF TypeInv, All, Dispose, DisposeLink, DisposeEnd, ours, past, DropInv
<1>1. CASE DisposeLink
  <2>1. PICK r \in Mine :
          Change(Without(dir, {r}), {Without(d, {r}) : d \in cut})
    BY <1>1 DEF DisposeLink
  <2>2. \A c \in All' : c \in All \/ \E d \in All : c = Without(d, {r})
    BY <2>1 DEF Change, All
  <2>3. \A d \in All :
          /\ Without(d, {r}).gen = d.gen /\ Without(d, {r}).pend = d.pend
          /\ Without(d, {r}).rec = d.rec \ {r}
    BY <1>0, WithoutDir
  <2>4. r[1] = pending
    BY DEF Mine
  <2>5. ASSUME NEW d \in All, NEW v \in owed
        PROVE  Kept(Without(d, {r}), v) /\ Named(Without(d, {r}), v)
    <3>1. Kept(d, v)
      BY <1>0 DEF LinksSpare
    <3> QED BY <2>3, <2>4, <3>1 DEF Kept, Named
  <2>6. AllNamed'
    <3>1. \A c \in All', v \in owed : Named(c, v)
      BY <1>0, <2>2, <2>5 DEF AllNamed
    <3> QED BY <1>0, <3>1 DEF AllNamed, Named
  <2>8. Stamped' /\ OwedTaken'
    BY <1>0, <2>2, <2>3 DEF Stamped, OwedTaken
  <2>9. LinksSpare'
    <3>1. \A c \in All', v \in owed : Kept(c, v)
      BY <1>0, <2>2, <2>5 DEF LinksSpare
    <3> QED BY <1>0, <3>1 DEF LinksSpare, Kept
  <2>7. pc' = "dispose"
    BY <1>0, <1>1 DEF DisposeLink
  <2> QED
    BY <2>6, <2>7, <2>8, <2>9 DEF DropInv, DropsNone, RetiredFree, PrunesOld,
                            LinksSpared, LinkedSoFar, ShiftHeld
<1>2. CASE DisposeEnd
  <2>1. All' \subseteq All /\ pc' = "idle"
    BY <1>2 DEF DisposeEnd, All, Goto
  <2>2. AllNamed' /\ Stamped' /\ OwedTaken'
    BY <1>0, <2>1 DEF AllNamed, Named, Stamped, OwedTaken
  <2> QED BY <2>1, <2>2, Ending
<1> QED BY <1>1, <1>2 DEF Dispose

LEMMA DropKeptByCrash ==
  ASSUME TypeInv, DropInv, Crash PROVE DropInv'
<1>1. All' \subseteq All /\ pc' = "idle" /\ UNCHANGED <<owed, pending>>
  BY DEF Crash, All, Goto, past
<1>2. AllNamed' /\ Stamped' /\ OwedTaken'
  BY <1>1 DEF DropInv, AllNamed, Named, Stamped, OwedTaken
<1> QED BY <1>1, <1>2, Ending

LEMMA DropKeptByStutter ==
  ASSUME DropInv, UNCHANGED vars PROVE DropInv'
BY DEF vars, DropInv, All, AllNamed, Named, Stamped, OwedTaken, DropsNone,
       RetiredFree, PrunesOld, LinksSpare, LinksSpared, LinkedSoFar,
       ShiftHeld, Kept, RecHolds

(* However many rotations are cut short, by whichever failing call, kill or  *)
(* power cut, a backup no successful rotation has aged out has a name.       *)
THEOREM NeverDropped == Spec => []NothingDropped
<1>1. Init => TypeInv /\ DropInv
  BY TypesInitially, DropInitially
<1>2. TypeInv /\ DropInv /\ [Next]_vars => (TypeInv /\ DropInv)'
  BY TypesKept, DropKeptByStart, DropKeptByDrop, DropKeptByLink,
     DropKeptByFailure, DropKeptBySync, DropKeptByShift, DropKeptByPromote,
     DropKeptByPrune, DropKeptBySyncRotation, DropKeptByDispose,
     DropKeptByCrash, DropKeptByStutter
  DEF Next, Preserve
<1>3. TypeInv /\ DropInv => NothingDropped
  BY DropImplied
<1> QED BY <1>1, <1>2, <1>3, PTL DEF Spec

-----------------------------------------------------------------------------
(* Why numbers keep ordering backups by age: what is promoted is younger     *)
(* than every generation, and the names a shift has not reached yet hold the *)
(* same version in every outcome.                                            *)
Sorted(d) == \A i, j \in Gen :
               i < j /\ d.gen[i] # None => d.gen[i] > d.gen[j]
Older(d)  == \A g \in Gen : /\ d.gen[g] <= pending
                            /\ pc \in {"preserve", "shift"}
                                 => d.gen[g] < pending
OrderInv  == /\ \A d \in All : Sorted(d) /\ Older(d)
             /\ pc = "shift" => \A d \in All, g \in Gen :
                                 g < n => d.gen[g] = dir.gen[g]

LEMMA GenIsVersion == TypeInv => \A d \in All : d.gen \in [Gen -> Nat]
BY DEF TypeInv, All, Dirs, Version

LEMMA OrderInitially == Init => OrderInv
<1> SUFFICES ASSUME Init PROVE OrderInv
  OBVIOUS
<1> USE KeepsAreNumbers
<1>1. PICK full \in SUBSET Gen :
        dir = [pend |-> {}, rec |-> {}, gen |->
                 [g \in Gen |-> IF g \in full THEN MaxGen + 1 - g ELSE None]]
  BY DEF Init
<1>2. \A g \in Gen :
        dir.gen[g] = IF g \in full THEN MaxGen + 1 - g ELSE None
  BY <1>1
<1>3. All = {dir} /\ pending = MaxGen + 1 /\ pc = "idle"
  BY DEF Init, All
<1>4. Gen \subseteq Nat /\ \A g \in Gen : g <= MaxGen
  BY DEF Gen
<1>5. Sorted(dir)
  BY <1>2, <1>4 DEF Sorted, None
<1>6. Older(dir)
  BY <1>2, <1>3, <1>4 DEF Older, None
<1> QED BY <1>3, <1>5, <1>6 DEF OrderInv

(* Directories whose generations are those of a directory there was.         *)
LEMMA SameGenerations ==
  ASSUME TypeInv, OrderInv, pending' \in Nat, pending' >= pending,
         \A c \in All' : \E d \in All : c.gen = d.gen,
         \/ pc' \notin {"preserve", "shift"}
         \/ pending' > pending
         \/ pc \in {"preserve", "shift"}
  PROVE  \A d \in All' : Sorted(d) /\ Older(d)'
<1> SUFFICES ASSUME NEW c \in All' PROVE Sorted(c) /\ Older(c)'
  OBVIOUS
<1>1. PICK d \in All : c.gen = d.gen
  OBVIOUS
<1>2. Sorted(d) /\ Older(d)
  BY DEF OrderInv
<1>3. Sorted(c)
  BY <1>1, <1>2 DEF Sorted
<1>4. \A g \in Gen : d.gen[g] \in Nat
  BY GenIsVersion
<1>5. pending \in Nat
  BY DEF TypeInv
<1>6. Older(c)'
  BY <1>1, <1>2, <1>4, <1>5 DEF Older
<1> QED BY <1>3, <1>6

LEMMA OrderKeptByShift ==
  ASSUME TypeInv, OrderInv, Shift,
         dir' = Shifted(dir, n), cut' = cut \cup {Shifted(d, n) : d \in cut},
         pc' = "shift", n' = n - 1
  PROVE  OrderInv'
<1> USE KeepsAreNumbers
<1>0. /\ All \subseteq Dirs /\ dir \in All /\ pc = "shift" /\ n \in Nat /\ n > 0
      /\ pending' = pending /\ n < keep /\ Gen \subseteq Nat
  BY DEF TypeInv, All, Shift, ours, Gen
<1>1. n \in Gen /\ n - 1 \in Gen
  BY <1>0, RotationAssumption DEF RotationAssumption, Gen, TypeInv
<1>2. \A d \in All : d.gen \in [Gen -> Nat]
  BY GenIsVersion
<1>3. \A d \in All, g \in Gen : d.gen[g] \in Nat
  BY <1>2
<1>4. dir.gen[n - 1] \in Version
  BY <1>0, <1>1, <1>3 DEF Version
<1>5. \A d \in All, g \in Gen :
        Shifted(d, n).gen[g] = IF g = n THEN dir.gen[n - 1]
                               ELSE IF g = n - 1 THEN None ELSE d.gen[g]
  <2>1. \A d \in All :
          Shifted(d, n).gen = [[d.gen EXCEPT ![n] = dir.gen[n - 1]]
                                EXCEPT ![n - 1] = None]
    BY <1>0, <1>1, <1>4, ShiftedDir
  <2>2. n # n - 1
    BY <1>0
  <2> QED BY <1>1, <1>2, <2>1, <2>2
<1>6. \A d \in All : Sorted(d) /\ Older(d) /\ d.gen[n - 1] = dir.gen[n - 1]
  BY <1>0, <1>1 DEF OrderInv
<1>7. ASSUME NEW d \in All PROVE Sorted(Shifted(d, n))
  <2> SUFFICES ASSUME NEW i \in Gen, NEW j \in Gen, i < j,
                      Shifted(d, n).gen[i] # None
               PROVE  Shifted(d, n).gen[i] > Shifted(d, n).gen[j]
    BY DEF Sorted
  <2> DEFINE old == IF i = n THEN n - 1 ELSE i
  <2>1. /\ old \in Gen /\ Shifted(d, n).gen[i] = d.gen[old]
        /\ d.gen[old] # None
    BY <1>1, <1>5, <1>6
  <2>2. CASE j = n - 1
    BY <1>0, <1>1, <1>3, <1>5, <2>1, <2>2 DEF None
  <2>3. CASE j = n
    <3>1. i < n - 1
      BY <1>0, <1>1, <1>5, <2>3
    <3> QED BY <1>0, <1>1, <1>5, <1>6, <2>1, <2>3, <3>1 DEF Sorted
  <2>4. CASE j \notin {n, n - 1}
    <3>1. old < j
      BY <1>0, <2>4
    <3> QED BY <1>5, <1>6, <2>1, <2>4, <3>1 DEF Sorted
  <2> QED BY <2>2, <2>3, <2>4
<1>8. ASSUME NEW d \in All PROVE Older(Shifted(d, n))
  BY <1>0, <1>1, <1>3, <1>5, <1>6 DEF Older, None, TypeInv
<1>9. \A c \in All' : c \in All \/ \E d \in All : c = Shifted(d, n)
  BY DEF All
<1>10. \A c \in All' : Sorted(c) /\ Older(c)
  BY <1>6, <1>7, <1>8, <1>9
<1>11. \A c \in All', g \in Gen : g < n - 1 => c.gen[g] = dir.gen[g]
  <2> SUFFICES ASSUME NEW d \in All, NEW g \in Gen, g < n - 1
               PROVE  d.gen[g] = dir.gen[g] /\ Shifted(d, n).gen[g] = dir.gen[g]
    BY <1>9
  <2>1. d.gen[g] = dir.gen[g]
    BY <1>0 DEF OrderInv
  <2> QED BY <1>0, <1>5, <2>1
<1>12. \A c \in All', g \in Gen : g < n' => c.gen[g] = dir'.gen[g]
  BY <1>0, <1>11 DEF All
<1> QED BY <1>0, <1>10, <1>12 DEF OrderInv, Sorted, Older

LEMMA OrderKept ==
  ASSUME TypeInv, TypeInv', OrderInv, [Next]_vars PROVE OrderInv'
<1> USE KeepsAreNumbers
<1>0. /\ All \subseteq Dirs /\ dir \in All /\ pending \in Nat /\ pending' \in Nat
      /\ Gen \subseteq Nat /\ 0 \in Gen
  BY DEF TypeInv, All, Gen
<1>1. \A d \in All, g \in Gen : d.gen[g] \in Nat
  BY GenIsVersion
<1>2. ASSUME pc' # "shift", pending' >= pending,
             \A c \in All' : \E d \in All : c.gen = d.gen,
             \/ pc' # "preserve" \/ pending' > pending
             \/ pc \in {"preserve", "shift"}
      PROVE  OrderInv'
  <2>1. \A d \in All' : Sorted(d) /\ Older(d)'
    BY <1>0, <1>2, SameGenerations
  <2> QED BY <1>2, <2>1 DEF OrderInv, Sorted
<1>3. ASSUME NEW k \in Keeps, Start(k) PROVE OrderInv'
  <2>1. dir'.gen = dir.gen /\ All' = {dir'} /\ pending' = pending + 1
    BY <1>0, <1>3 DEF Start, Dirs, All
  <2>2. pc' # "shift"
    BY <1>3 DEF Start, Goto
  <2> QED BY <1>0, <1>2, <2>1, <2>2
<1>4. CASE Drop
  <2>1. \A d \in Dirs : Discarded(d).gen = d.gen
    BY DiscardedDir
  <2>2. \A c \in All' : \E d \in All : c.gen = d.gen
    BY <1>0, <1>4, <2>1 DEF Drop, Change, All
  <2>3. pc' \in {"idle", "prune"} /\ pending' = pending
    BY <1>4 DEF Drop, Goto, ours
  <2> QED BY <1>0, <1>2, <2>2, <2>3
<1>5. CASE PreserveLink
  <2>1. n \in Gen /\ pc' = "preserve" /\ pc = "preserve" /\ pending' = pending
    BY <1>5 DEF PreserveLink, Goto, ours
  <2>2. \A d \in Dirs : Linked(d, dir.gen[n]).gen = d.gen
    BY <1>0, <1>1, <2>1, LinkedDir DEF Version
  <2>3. \A c \in All' : \E d \in All : c.gen = d.gen
    BY <1>0, <1>5, <2>2 DEF PreserveLink, Change, All
  <2> QED BY <1>0, <1>2, <2>1, <2>3
<1>6. CASE PreserveFails \/ DisposeLink
  <2>1. \A d \in Dirs, S \in SUBSET Mine : Without(d, S).gen = d.gen
    BY WithoutDir
  <2>2. \A c \in All' : \E d \in All : c.gen = d.gen
    <3>1. CASE PreserveFails
      BY <1>0, <2>1, <3>1 DEF PreserveFails, Change, Rid, All
    <3>2. CASE DisposeLink
      <4>1. PICK r \in Mine :
              Change(Without(dir, {r}), {Without(d, {r}) : d \in cut})
        BY <3>2 DEF DisposeLink
      <4>2. \A d \in Dirs : Without(d, {r}).gen = d.gen
        BY WithoutDir
      <4>3. \A c \in All' : c \in All \/ \E d \in All : c = Without(d, {r})
        BY <4>1 DEF Change, All
      <4> QED BY <1>0, <4>2, <4>3
    <3> QED BY <1>6, <3>1, <3>2
  <2>3. pc' \in {"idle", "dispose"} /\ pending' = pending
    BY <1>6 DEF PreserveFails, DisposeLink, Goto, ours
  <2> QED BY <1>0, <1>2, <2>2, <2>3
<1>7. CASE PreserveSync
  <2>1. /\ pc = "preserve" /\ pending' = pending /\ dir' = dir
        /\ All' \subseteq All
    BY <1>7 DEF PreserveSync, Goto, ours, Sync, All
  <2>2. \A d \in All' : Sorted(d) /\ Older(d)'
    BY <1>0, <2>1, SameGenerations
  <2>3. pc' = "shift" => All' = {dir'}
    BY <1>7 DEF PreserveSync, Goto, Sync, All
  <2> QED BY <2>2, <2>3 DEF OrderInv, Sorted
<1>8. CASE Shift
  <2>1. /\ pc = "shift" /\ pending' = pending /\ n \in Nat
        /\ pc' = "shift" => n' = n - 1
    BY <1>8 DEF Shift, Goto, ours, TypeInv
  <2>2. CASE UNCHANGED <<dir, cut>>
    <3>1. \A d \in All' : Sorted(d) /\ Older(d)'
      BY <1>0, <2>1, <2>2, SameGenerations DEF All
    <3>2. \A d \in All, g \in Gen : g < n - 1 => d.gen[g] = dir.gen[g]
      BY <1>0, <2>1 DEF OrderInv
    <3> QED BY <2>1, <2>2, <3>1, <3>2 DEF OrderInv, Sorted, All
  <2>3. CASE /\ dir' = Shifted(dir, n)
             /\ cut' = cut \cup {Shifted(d, n) : d \in cut}
             /\ pc' = "shift" /\ n' = n - 1
    BY <1>8, <2>3, OrderKeptByShift
  <2> QED BY <1>8, <2>2, <2>3 DEF Shift, Goto, Change
<1>9. CASE Promote
  <2>1. /\ pc = "shift" /\ pending' = pending /\ pc' \in {"idle", "prune"}
    BY <1>9 DEF Promote, Goto, ours
  <2>2. CASE UNCHANGED <<dir, cut>>
    BY <1>0, <1>2, <2>1, <2>2 DEF All
  <2>3. CASE /\ dir' = Promoted(dir)
             /\ cut' = cut \cup {Promoted(d) : d \in cut}
    <3>1. \A d \in All, g \in Gen :
            Promoted(d).gen[g] = IF g = 0 THEN pending ELSE d.gen[g]
      <4>1. \A d \in All : Promoted(d).gen = [d.gen EXCEPT ![0] = pending]
        BY <1>0, PromotedDir DEF Version
      <4> QED BY <1>0, <4>1, GenIsVersion
    <3>2. ASSUME NEW c \in All', NEW d \in All, c = Promoted(d)
          PROVE  Sorted(c) /\ Older(c)'
      <4>1. Sorted(d) /\ Older(d)
        BY DEF OrderInv
      <4>2. \A g \in Gen : d.gen[g] < pending
        BY <2>1, <4>1 DEF Older
      <4>3. Sorted(c)
        BY <1>0, <1>1, <3>1, <3>2, <4>1, <4>2 DEF Sorted
      <4>4. Older(c)'
        <5>1. \A g \in Gen : c.gen[g] <= pending
          BY <1>0, <1>1, <3>1, <3>2, <4>2
        <5> QED BY <2>1, <5>1 DEF Older
      <4> QED BY <4>3, <4>4
    <3>3. ASSUME NEW d \in All PROVE Sorted(d) /\ Older(d)'
      BY <1>0, <1>1, <2>1 DEF OrderInv, Older
    <3>4. \A c \in All' : c \in All \/ \E d \in All : c = Promoted(d)
      BY <2>3 DEF All
    <3>5. \A c \in All' : Sorted(c) /\ Older(c)'
      BY <3>2, <3>3, <3>4
    <3> QED BY <2>1, <3>5 DEF OrderInv, Sorted
  <2> QED BY <1>9, <2>2, <2>3 DEF Promote, Change
<1>10. CASE Prune
  <2>1. /\ pc = "prune" /\ pending' = pending /\ pc' = "prune" /\ n \in Gen
    BY <1>10 DEF Prune, Goto, ours
  <2>2. CASE UNCHANGED <<dir, cut>>
    BY <1>0, <1>2, <2>1, <2>2 DEF All
  <2>3. CASE /\ dir' = Cleared(dir, n)
             /\ cut' = cut \cup {Cleared(d, n) : d \in cut}
    <3>1. \A d \in All, g \in Gen :
            Cleared(d, n).gen[g] = IF g = n THEN None ELSE d.gen[g]
      <4>1. \A d \in All : Cleared(d, n).gen = [d.gen EXCEPT ![n] = None]
        BY <1>0, <2>1, ClearedDir
      <4> QED BY <2>1, <4>1, GenIsVersion
    <3>2. ASSUME NEW c \in All', NEW d \in All, c = Cleared(d, n)
          PROVE  Sorted(c) /\ Older(c)'
      <4>1. Sorted(d) /\ Older(d)
        BY DEF OrderInv
      <4>2. Sorted(c)
        BY <1>0, <1>1, <3>1, <3>2, <4>1 DEF Sorted, None
      <4>3. Older(c)'
        BY <1>0, <1>1, <2>1, <3>1, <3>2, <4>1 DEF Older, None
      <4> QED BY <4>2, <4>3
    <3>3. ASSUME NEW d \in All PROVE Sorted(d) /\ Older(d)'
      BY <1>0, <1>1, <2>1 DEF OrderInv, Older
    <3>4. \A c \in All' : c \in All \/ \E d \in All : c = Cleared(d, n)
      BY <2>3 DEF All
    <3>5. \A c \in All' : Sorted(c) /\ Older(c)'
      BY <3>2, <3>3, <3>4
    <3> QED BY <2>1, <3>5 DEF OrderInv, Sorted
  <2> QED BY <1>10, <2>2, <2>3 DEF Prune, Change
<1>11. CASE SyncRotation \/ DisposeEnd \/ Crash
  <2>1. All' \subseteq All /\ pending' = pending
    BY <1>11 DEF SyncRotation, DisposeEnd, Crash, Sync, All, ours
  <2>2. pc' \in {"idle", "dispose"}
    BY <1>11 DEF SyncRotation, DisposeEnd, Crash, Goto
  <2> QED BY <1>0, <1>2, <2>1, <2>2
<1>12. CASE UNCHANGED vars
  BY <1>12 DEF vars, OrderInv, All, Sorted, Older
<1> QED
  BY <1>3, <1>4, <1>5, <1>6, <1>7, <1>8, <1>9, <1>10, <1>11, <1>12
  DEF Next, Preserve, Dispose

(* A smaller number always names a later backup, also in what a power cut in *)
(* the middle of a rotation leaves of the renames.                           *)
THEOREM AlwaysNewestFirst == Spec => []NewestFirst
<1>1. Init => TypeInv /\ OrderInv
  BY TypesInitially, OrderInitially
<1>2. TypeInv /\ OrderInv /\ [Next]_vars => (TypeInv /\ OrderInv)'
  BY TypesKept, OrderKept
<1>3. TypeInv /\ OrderInv => NewestFirst
  BY DEF OrderInv, NewestFirst, Sorted, All
<1> QED BY <1>1, <1>2, <1>3, PTL DEF Spec
=============================================================================
