------------------------ MODULE PkgTransaction_proofs ------------------------
(* Proofs about PkgTransaction, for any plugins, any number of commands, and *)
(* all bounds: no step of a command touches the directory, the lock or the   *)
(* trust unless its intent is on the disk; and, of commands that do not      *)
(* overlap, what interrupted and failed ones leave behind can always be put  *)
(* right, and is, before the next command does anything.                     *)
EXTENDS PkgTransaction, TLAPS

-----------------------------------------------------------------------------
(* The invariant.                                                            *)

Installing ==
  {"i_stage", "i_check", "i_publish", "i_sync", "i_lock", "i_on", "i_relock",
   "i_unpub", "i_unsync", "i_undo", "i_tidy"}
Removing ==
  {"m_load", "m_quar", "m_root", "m_data", "m_unquar", "m_lock", "m_drop",
   "m_rmtrash", "m_rmsync", "m_relock", "m_resync", "m_undo", "m_fail"}
Changing == {"b_copies", "b_intent", "load", "off"}

Commands(p) == [op : {"I", "R", "L"}, name : Names, flag : BOOLEAN, who : {p}]

Process(p) ==
  [pc : Steps, call : {"first", "main", "last"}, hurt : BOOLEAN,
   mine : Commands(p), todo : Txn \union {NoIntent}, lk : SUBSET Names,
   t0 : Trust]

(* A command r can be at label "to" while the intent on the disk is x: the   *)
(* steps belong to its kind, those of its transaction find its own intent,   *)
(* those of a recovery the one it read.                                      *)
Fits(r, to, x) ==
  /\ to \in Installing => r.mine.op = "I"
  /\ to \in Removing => r.mine.op = "R"
  /\ to \in Changing => r.mine.op # "L"
  /\ to \in Undoing => r.todo \in Txn /\ (Alone => x = r.todo)
  /\ to \in Open \union {"m_fail"} => (Alone => x = r.mine)

Good(p, r, x) == r \in Process(p) /\ Fits(r, r.pc, x)

(* With Alone, a command that runs is the only one.                          *)
OneRuns == Alone => \A p, q \in Procs : p # q => Idle(p) \/ Idle(q)

Counts == [faults : 0..MaxFaults, upsets : 0..MaxUpsets]

Ghosts == asked \subseteq Names /\ odd \in OddTypes /\ left \in Counts

IntentInv ==
  /\ disk \in Disks /\ safe \in Disks
  /\ DOMAIN proc = Procs
  /\ \A p \in Procs : Good(p, proc[p], disk.intent)
  /\ OneRuns /\ Ghosts

-----------------------------------------------------------------------------
(* Where control goes.                                                       *)

LEMMA FreshProcess ==
  ASSUME NEW p PROVE Fresh(p) \in Process(p) /\ Ended(Fresh(p)) \in Process(p)
<1>1. (CHOOSE n \in Names : TRUE) \in Names
  BY PkgBounds
<1>2. [n \in Names |-> "unset"] \in Trust
  BY DEF Trust
<1>3. [op |-> "L", name |-> CHOOSE n \in Names : TRUE, flag |-> FALSE, who |-> p]
        \in Commands(p)
  BY <1>1 DEF Commands
<1>4. Fresh(p) \in Process(p)
  BY <1>2, <1>3 DEF Fresh, Process, Steps
<1>5. Fresh(p).mine.who = p
  BY DEF Fresh
<1> QED BY <1>4, <1>5 DEF Ended, Process, Steps

LEMMA EndedGood ==
  ASSUME NEW p, NEW r \in Process(p), NEW x
  PROVE  Good(p, Ended(r), x) /\ Ended(r).pc = "over"
<1>1. r.mine.who = p
  BY DEF Process, Commands
<1>2. Fresh(p) \in Process(p)
  BY FreshProcess
<1>3. Ended(r) = [Fresh(p) EXCEPT !.pc = "over"]
  BY <1>1 DEF Ended
<1>4. Ended(r) \in Process(p) /\ Ended(r).pc = "over"
  BY <1>2, <1>3 DEF Process, Steps
<1> QED BY <1>4 DEF Good, Fits, Installing, Removing, Changing, Undoing, Open

LEMMA AtGood ==
  ASSUME NEW p, NEW r \in Process(p), NEW x, NEW to \in Steps, Fits(r, to, x),
         NEW call \in {"first", "main", "last"}
  PROVE  /\ Good(p, [r EXCEPT !.pc = to], x)
         /\ Good(p, [r EXCEPT !.pc = to, !.call = call], x)
BY DEF Good, Fits, Process

LEMMA RecoveredGood ==
  ASSUME NEW p, NEW r \in Process(p), NEW x, NEW ok \in BOOLEAN
  PROVE  Good(p, Recovered(r, ok), x)
<1> DEFINE q == [r EXCEPT !.call = "main", !.todo = NoIntent]
<1>1. q \in Process(p) /\ q.mine = r.mine
  BY DEF Process
<1>2. CASE r.call = "last" \/ ~ok
  BY <1>2, EndedGood DEF Recovered
<1>3. CASE ~(r.call = "last" \/ ~ok) /\ q.mine.op = "I"
  <2>1. Recovered(r, ok) = [q EXCEPT !.pc = "i_stage"]
    BY <1>3 DEF Recovered
  <2>2. Fits(q, "i_stage", x) /\ "i_stage" \in Steps
    BY <1>3 DEF Fits, Installing, Removing, Changing, Undoing, Open, Steps
  <2> HIDE DEF q
  <2>3. Good(p, [q EXCEPT !.pc = "i_stage"], x)
    BY <1>1, <2>2, AtGood
  <2> QED BY <2>1, <2>3
<1>4. CASE ~(r.call = "last" \/ ~ok) /\ q.mine.op = "R"
  <2>1. Recovered(r, ok) = [q EXCEPT !.pc = "m_load"]
    BY <1>4 DEF Recovered
  <2>2. Fits(q, "m_load", x) /\ "m_load" \in Steps
    BY <1>4 DEF Fits, Installing, Removing, Changing, Undoing, Open, Steps
  <2> HIDE DEF q
  <2>3. Good(p, [q EXCEPT !.pc = "m_load"], x)
    BY <1>1, <2>2, AtGood
  <2> QED BY <2>1, <2>3
<1>5. CASE ~(r.call = "last" \/ ~ok) /\ q.mine.op \notin {"I", "R"}
  BY <1>1, <1>5, EndedGood DEF Recovered
<1> QED BY <1>2, <1>3, <1>4, <1>5

LEMMA MovingGood ==
  ASSUME NEW p, NEW r \in Process(p), NEW x,
         NEW to \in Steps \union {"cleared", "pending", "m_fail"}, Fits(r, to, x)
  PROVE  Good(p, Moving(r, to), x)
<1>0. "recover" \in Steps /\ Fits(r, "recover", x)
  BY DEF Steps, Fits, Installing, Removing, Changing, Undoing, Open
<1>1. CASE to = "over"
  BY <1>1, EndedGood DEF Moving
<1>2. CASE to = "recover"
  BY <1>0, <1>2, AtGood DEF Moving
<1>3. CASE to = "cleared"
  BY <1>3, EndedGood, RecoveredGood DEF Moving
<1>4. CASE to = "pending"
  <2>1. CASE r.call # "main"
    <3>1. Fits(r, "r_fail", x) /\ "r_fail" \in Steps
      BY DEF Steps, Fits, Installing, Removing, Changing, Undoing, Open
    <3> QED BY <1>4, <2>1, <3>1, AtGood DEF Moving
  <2>2. CASE r.call = "main" /\ r.mine.op = "I"
    <3>1. Fits(r, "i_tidy", x) /\ "i_tidy" \in Steps
      BY <2>2 DEF Steps, Fits, Installing, Removing, Changing, Undoing, Open
    <3> QED BY <1>4, <2>2, <3>1, AtGood DEF Moving
  <2>3. CASE r.call = "main" /\ r.mine.op # "I"
    BY <1>0, <1>4, <2>3, AtGood DEF Moving
  <2> QED BY <2>1, <2>2, <2>3
<1>5. CASE to = "m_fail"
  <2>1. CASE r.mine.flag
    BY <1>0, <1>5, <2>1, AtGood DEF Moving
  <2>2. CASE ~r.mine.flag
    <3>1. Fits(r, "m_undo", x) /\ "m_undo" \in Steps
      BY <1>5 DEF Steps, Fits, Installing, Removing, Changing, Undoing, Open
    <3> QED BY <1>5, <2>2, <3>1, AtGood DEF Moving
  <2> QED BY <2>1, <2>2
<1>6. CASE to \notin {"over", "recover", "cleared", "pending", "m_fail"}
  BY <1>6, AtGood DEF Moving
<1> QED BY <1>1, <1>2, <1>3, <1>4, <1>5, <1>6

-----------------------------------------------------------------------------
(* One step of a command.                                                    *)

(* What it must do to keep the invariant.                                    *)
Keeps(p) ==
  /\ disk' \in Disks /\ safe' \in Disks
  /\ DOMAIN proc' = Procs /\ \A q \in Procs \ {p} : proc'[q] = proc[q]
  /\ Good(p, proc'[p], disk'.intent)
  /\ Ghosts'

LEMMA KeepsInv ==
  ASSUME IntentInv, NEW p \in Procs, Keeps(p),
         Alone => \A q \in Procs \ {p} : Idle(q)
  PROVE  IntentInv'
<1>1. ASSUME NEW q \in Procs PROVE Good(q, proc'[q], disk'.intent)
  <2>1. CASE q = p
    BY <2>1 DEF Keeps
  <2>2. CASE q # p
    <3>1. Good(q, proc[q], disk.intent) /\ proc'[q] = proc[q]
      BY <2>2 DEF IntentInv, Keeps
    <3>2. Alone => proc[q].pc \in {"fresh", "over"}
      BY <2>2 DEF Idle
    <3> QED BY <3>1, <3>2 DEF Good, Fits, Undoing, Open
  <2> QED BY <2>1, <2>2
<1>2. OneRuns'
  BY DEF OneRuns, Idle, Keeps
<1> QED BY <1>1, <1>2 DEF IntentInv, Keeps

(* A step of a running command.                                              *)
LEMMA Others ==
  ASSUME IntentInv, NEW p \in Procs, ~Idle(p)
  PROVE  Alone => \A q \in Procs \ {p} : Idle(q)
BY DEF IntentInv, OneRuns

LEMMA Moves ==
  ASSUME IntentInv, NEW p \in Procs, NEW x,
         NEW to \in Steps \union {"cleared", "pending", "m_fail"},
         Fits(proc[p], to, x), Goto(p, to) \/ Fault(p, to)
  PROVE  /\ DOMAIN proc' = Procs /\ \A q \in Procs \ {p} : proc'[q] = proc[q]
         /\ Good(p, proc'[p], x) /\ left' \in Counts
<1>0. proc[p] \in Process(p) /\ DOMAIN proc = Procs /\ left \in Counts
  BY DEF IntentInv, Good, Ghosts
<1>1. CASE Goto(p, to)
  <2>1. Good(p, Moving(proc[p], to), x)
    BY <1>0, MovingGood
  <2>2. proc' = [proc EXCEPT ![p] = Moving(proc[p], to)] /\ left' = left
    BY <1>1 DEF Goto
  <2> QED BY <1>0, <2>1, <2>2
<1>2. CASE Fault(p, to)
  <2> DEFINE r == [proc[p] EXCEPT !.hurt = TRUE]
  <2>1. r \in Process(p) /\ Fits(r, to, x)
    BY <1>0 DEF Process, Fits
  <2>2. Good(p, Moving(r, to), x)
    BY <2>1, MovingGood
  <2>3. proc' = [proc EXCEPT ![p] = Moving(r, to)]
    BY <1>2 DEF Fault
  <2>4. left' \in Counts
    BY <1>0, <1>2, PkgBounds DEF Fault, Counts
  <2> QED BY <1>0, <2>2, <2>3, <2>4
<1> QED BY <1>1, <1>2

-----------------------------------------------------------------------------
(* The system calls.                                                         *)

LEMMA FlushedTyped ==
  ASSUME safe \in Disks, NEW d \in Disks, NEW dir PROVE Flushed(d, dir) \in Disks
BY DEF Disks, Flushed

(* What a call did: it left disks that are disks, and control went one of    *)
(* three ways.                                                               *)
Did(p, good, bad, worse) ==
  /\ disk' \in Disks /\ safe' \in Disks
  /\ Goto(p, good) \/ Fault(p, bad) \/ Fault(p, worse)

LEMMA FlushDid ==
  ASSUME disk \in Disks, safe \in Disks, NEW p, NEW dir, NEW good, NEW bad,
         Flush(p, dir, good, bad)
  PROVE  Did(p, good, bad, bad) /\ disk'.intent = disk.intent
BY FlushedTyped DEF Flush, Did

LEMMA WriteDid ==
  ASSUME disk \in Disks, safe \in Disks, NEW p, NEW f, NEW v,
         NEW good, NEW lost, NEW unsure, Write(p, f, v, good, lost, unsure),
         [disk EXCEPT ![f] = v] \in Disks
  PROVE  /\ Did(p, good, lost, unsure)
         /\ disk' = disk \/ disk' = [disk EXCEPT ![f] = v]
BY FlushedTyped DEF Write, Did

LEMMA LockDid ==
  ASSUME disk \in Disks, safe \in Disks, NEW p, NEW v \in SUBSET Names,
         NEW good, NEW lost, NEW unsure, Write(p, "lock", v, good, lost, unsure)
  PROVE  Did(p, good, lost, unsure) /\ disk'.intent = disk.intent
<1>1. /\ [disk EXCEPT !["lock"] = v] \in Disks
      /\ [disk EXCEPT !["lock"] = v].intent = disk.intent
  BY DEF Disks
<1> QED BY <1>1, WriteDid

LEMMA TrustDid ==
  ASSUME disk \in Disks, safe \in Disks, NEW p, NEW v \in Trust,
         NEW good, NEW lost, NEW unsure, Write(p, "trust", v, good, lost, unsure)
  PROVE  Did(p, good, lost, unsure) /\ disk'.intent = disk.intent
<1>1. /\ [disk EXCEPT !["trust"] = v] \in Disks
      /\ [disk EXCEPT !["trust"] = v].intent = disk.intent
  BY DEF Disks
<1> QED BY <1>1, WriteDid

LEMMA SaveLockDid ==
  ASSUME disk \in Disks, safe \in Disks, odd \in OddTypes, NEW p,
         NEW v \in SUBSET Names, NEW good, NEW bad, SaveLock(p, v, good, bad)
  PROVE  /\ Did(p, good, bad, bad) /\ disk'.intent = disk.intent
         /\ odd' \in OddTypes
<1>1. CASE Write(p, "lock", v, good, bad, bad) /\ odd' =
             IF left' = left THEN odd
             ELSE [odd EXCEPT !.doubted = @ \union
                     ((disk.lock \ v) \union (v \ disk.lock))]
  <2>1. odd' \in OddTypes
    BY <1>1 DEF OddTypes, Disks
  <2> QED BY <1>1, <2>1, LockDid
<1>2. CASE UNCHANGED <<disk, safe, odd>> /\ Goto(p, good)
  BY <1>2 DEF Did
<1> QED BY <1>1, <1>2 DEF SaveLock

LEMMA RmTreeDid ==
  ASSUME disk \in Disks, safe \in Disks, NEW p, NEW good, NEW bad,
         NEW f, NEW k, \/ f = "home" /\ k \in Names
                       \/ f = "trash" /\ k \in Procs,
         RmTree(p, f, k, good, bad)
  PROVE  /\ disk' \in Disks /\ safe' \in Disks /\ disk'.intent = disk.intent
         /\ \/ Goto(p, proc[p].pc) \/ Goto(p, good) \/ Goto(p, bad)
            \/ Fault(p, bad)
<1>1. ASSUME NEW t \in Tree
      PROVE  /\ [disk EXCEPT ![f][k] = t] \in Disks
             /\ [disk EXCEPT ![f][k] = t].intent = disk.intent
  BY <1>1 DEF Disks
<1>2. {"part", "none"} \subseteq Tree
  BY DEF Tree
<1> QED BY <1>1, <1>2 DEF RmTree

LEMMA RmStageDid ==
  ASSUME disk \in Disks, safe \in Disks, NEW p, NEW who, NEW good, NEW bad,
         RmStage(p, who, good, bad)
  PROVE  Did(p, good, bad, bad) /\ disk'.intent = disk.intent
<1>1. /\ [disk EXCEPT !.stage = @ \ {who}] \in Disks
      /\ [disk EXCEPT !.stage = @ \ {who}].intent = disk.intent
  BY DEF Disks
<1> QED BY <1>1, FlushedTyped DEF RmStage, Did

LEMMA RenameTyped ==
  ASSUME NEW d \in Disks, NEW n \in Names, NEW q \in Procs, NEW there \in BOOLEAN
  PROVE  Rename(d, n, q, there) \in Disks /\ Rename(d, n, q, there).intent = d.intent
BY DEF Disks, Rename, Tree

(* A call inside a command that changes no ghost but maybe odd, and leaves   *)
(* the intent alone.                                                         *)
LEMMA DidKeeps ==
  ASSUME IntentInv, NEW p \in Procs, ~Idle(p),
         NEW good \in Steps \union {"cleared", "pending", "m_fail"},
         NEW bad \in Steps \union {"cleared", "pending", "m_fail"},
         NEW worse \in Steps \union {"cleared", "pending", "m_fail"},
         Fits(proc[p], good, disk'.intent), Fits(proc[p], bad, disk'.intent),
         Fits(proc[p], worse, disk'.intent),
         Did(p, good, bad, worse), asked' \subseteq Names, odd' \in OddTypes
  PROVE  IntentInv'
<1>1. /\ DOMAIN proc' = Procs /\ \A q \in Procs \ {p} : proc'[q] = proc[q]
      /\ Good(p, proc'[p], disk'.intent) /\ left' \in Counts
  BY Moves DEF Did
<1>2. Keeps(p)
  BY <1>1 DEF Keeps, Did, Ghosts
<1> QED BY <1>2, KeepsInv, Others

(* The calls, each as what it keeps.                                         *)
Leads(p, to) ==
  /\ to \in Steps \union {"cleared", "pending", "m_fail"}
  /\ Fits(proc[p], to, disk.intent)

LEMMA FlushKeeps ==
  ASSUME IntentInv, NEW p \in Procs, ~Idle(p), NEW dir, NEW good, NEW bad,
         Leads(p, good), Leads(p, bad), Flush(p, dir, good, bad),
         asked' = asked, odd' = odd
  PROVE  IntentInv'
BY FlushDid, DidKeeps DEF IntentInv, Ghosts, Leads

LEMMA TrustKeeps ==
  ASSUME IntentInv, NEW p \in Procs, ~Idle(p), NEW v \in Trust,
         NEW good, NEW bad, NEW worse,
         Leads(p, good), Leads(p, bad), Leads(p, worse),
         Write(p, "trust", v, good, bad, worse), asked' = asked, odd' = odd
  PROVE  IntentInv'
BY TrustDid, DidKeeps DEF IntentInv, Ghosts, Leads

LEMMA LockKeeps ==
  ASSUME IntentInv, NEW p \in Procs, ~Idle(p), NEW v \in SUBSET Names,
         NEW good, NEW bad, NEW worse,
         Leads(p, good), Leads(p, bad), Leads(p, worse),
         Write(p, "lock", v, good, bad, worse), asked' = asked, odd' = odd
  PROVE  IntentInv'
BY LockDid, DidKeeps DEF IntentInv, Ghosts, Leads

LEMMA SaveLockKeeps ==
  ASSUME IntentInv, NEW p \in Procs, ~Idle(p), NEW v \in SUBSET Names,
         NEW good, NEW bad, Leads(p, good), Leads(p, bad),
         SaveLock(p, v, good, bad), asked' = asked
  PROVE  IntentInv'
BY SaveLockDid, DidKeeps DEF IntentInv, Ghosts, Leads

LEMMA RmStageKeeps ==
  ASSUME IntentInv, NEW p \in Procs, ~Idle(p), NEW who, NEW good, NEW bad,
         Leads(p, good), Leads(p, bad), RmStage(p, who, good, bad),
         asked' = asked, odd' = odd
  PROVE  IntentInv'
BY RmStageDid, DidKeeps DEF IntentInv, Ghosts, Leads

LEMMA HereLeads ==
  ASSUME IntentInv, NEW p \in Procs PROVE Leads(p, proc[p].pc)
BY DEF IntentInv, Good, Process, Leads

LEMMA RmTreeKeeps ==
  ASSUME IntentInv, NEW p \in Procs, ~Idle(p), NEW good, NEW bad,
         NEW f, NEW k, \/ f = "home" /\ k \in Names
                       \/ f = "trash" /\ k \in Procs,
         Leads(p, good), Leads(p, bad), RmTree(p, f, k, good, bad),
         asked' = asked, odd' = odd
  PROVE  IntentInv'
<1>1. /\ disk' \in Disks /\ safe' \in Disks /\ disk'.intent = disk.intent
      /\ \/ Goto(p, proc[p].pc) \/ Goto(p, good) \/ Goto(p, bad)
         \/ Fault(p, bad)
  BY RmTreeDid DEF IntentInv
<1>2. \/ Did(p, proc[p].pc, bad, bad) \/ Did(p, good, bad, bad)
      \/ Did(p, bad, bad, bad)
  BY <1>1 DEF Did
<1>3. Leads(p, proc[p].pc)
  BY HereLeads
<1> QED BY <1>1, <1>2, <1>3, DidKeeps DEF IntentInv, Ghosts, Leads

(* A call that changes only directories, or nothing.                         *)
LEMMA PlainKeeps ==
  ASSUME IntentInv, NEW p \in Procs, ~Idle(p), NEW to, Leads(p, to),
         Goto(p, to) \/ Fault(p, to), disk' \in Disks, disk'.intent = disk.intent,
         safe' = safe, asked' = asked, odd' = odd
  PROVE  IntentInv'
<1>1. Did(p, to, to, to)
  BY DEF Did, IntentInv
<1> QED BY <1>1, DidKeeps DEF IntentInv, Ghosts, Leads

-----------------------------------------------------------------------------
(* Where each part of a command may lead.                                    *)

Outside == {"fresh", "over", "recover", "r_fail", "c_unlink", "c_sync",
            "c_copies", "i_drop", "cleared", "pending"}

LEMMA OutsideLeads ==
  ASSUME NEW p PROVE \A to \in Outside : Leads(p, to)
BY DEF Outside, Leads, Fits, Steps, Installing, Removing, Changing, Undoing, Open

LEMMA UndoingLeads ==
  ASSUME IntentInv, NEW p \in Procs, proc[p].pc \in Undoing
  PROVE  /\ ~Idle(p) /\ proc[p].todo \in Txn
         /\ \A to \in Undoing : Leads(p, to)
<1>1. proc[p].todo \in Txn /\ (Alone => disk.intent = proc[p].todo)
  BY DEF IntentInv, Good, Fits
<1>2. ~Idle(p)
  BY DEF Idle, Undoing
<1>3. \A to \in Undoing : Leads(p, to)
  BY <1>1 DEF Leads, Fits, Steps, Installing, Removing, Changing, Undoing, Open
<1> QED BY <1>1, <1>2, <1>3

(* the steps of an install from the time its transaction is open             *)
Adding == Installing \cap Open

LEMMA AddingLeads ==
  ASSUME IntentInv, NEW p \in Procs, proc[p].pc \in Adding
  PROVE  ~Idle(p) /\ \A to \in Adding \union {"i_tidy"} : Leads(p, to)
<1>1. proc[p].mine.op = "I" /\ (Alone => disk.intent = proc[p].mine)
  BY DEF IntentInv, Good, Fits, Adding
<1>2. ~Idle(p)
  BY DEF Idle, Adding, Installing
<1>3. \A to \in Adding \union {"i_tidy"} : Leads(p, to)
  BY <1>1 DEF Adding, Leads, Fits, Steps, Installing, Removing, Changing,
              Undoing, Open
<1> QED BY <1>2, <1>3

Taking == Removing \cap Open

LEMMA TakingLeads ==
  ASSUME IntentInv, NEW p \in Procs, proc[p].pc \in Taking
  PROVE  ~Idle(p) /\ \A to \in Taking \union {"m_fail"} : Leads(p, to)
<1>1. proc[p].mine.op = "R" /\ (Alone => disk.intent = proc[p].mine)
  BY DEF IntentInv, Good, Fits, Taking
<1>2. ~Idle(p)
  BY DEF Idle, Taking, Removing
<1>3. \A to \in Taking \union {"m_fail"} : Leads(p, to)
  BY <1>1 DEF Taking, Leads, Fits, Steps, Installing, Removing, Changing,
              Undoing, Open
<1> QED BY <1>2, <1>3

(* What the command remembers.                                               *)
LEMMA Remembered ==
  ASSUME IntentInv, NEW p \in Procs
  PROVE  /\ proc[p].lk \in SUBSET Names /\ proc[p].t0 \in Trust
         /\ proc[p].mine \in Commands(p) /\ proc[p].mine.name \in Names
         /\ disk \in Disks /\ disk.trust \in Trust /\ disk.lock \in SUBSET Names
BY DEF IntentInv, Good, Process, Commands, Disks

LEMMA TrustSet ==
  ASSUME NEW t \in Trust, NEW n, NEW v \in {"unset", "off", "on"}
  PROVE  [t EXCEPT ![n] = v] \in Trust
BY DEF Trust

-----------------------------------------------------------------------------
(* The recovery.                                                             *)

LEMMA RecoverKeeps ==
  ASSUME IntentInv, NEW p \in Procs, Recover(p) PROVE IntentInv'
<1>1. ~Idle(p)
  BY DEF Recover, At, Idle
<1>2. /\ proc[p] \in Process(p) /\ DOMAIN proc = Procs
      /\ disk.intent \in Txn \union {NoIntent}
  BY DEF IntentInv, Good, Disks
<1> DEFINE r == [proc[p] EXCEPT !.todo = disk.intent]
<1>3. CASE disk.intent = NoIntent
  <2>1. Good(p, Recovered(proc[p], TRUE), disk.intent)
    BY <1>2, RecoveredGood
  <2>2. proc' = [proc EXCEPT ![p] = Recovered(proc[p], TRUE)]
    BY <1>3 DEF Recover
  <2>3. Keeps(p)
    BY <1>2, <2>1, <2>2 DEF Keeps, IntentInv, Ghosts, Recover
  <2> QED BY <1>1, <2>3, KeepsInv, Others
<1>4. CASE disk.intent # NoIntent
  <2> DEFINE to == Decision(disk.intent)
  <2>1. r \in Process(p) /\ r.todo = disk.intent /\ r.todo \in Txn
    BY <1>2, <1>4 DEF Process
  <2>2. to \in {"r_flush", "r_rmdir", "r_back", "r_lock"}
    BY DEF Decision
  <2> HIDE DEF r, to
  <2>3. to \in Steps /\ Fits(r, to, disk.intent)
    BY <2>1, <2>2 DEF Steps, Fits, Installing, Removing, Changing, Undoing, Open
  <2>4. Good(p, [r EXCEPT !.pc = to], disk.intent)
    BY <2>1, <2>3, AtGood
  <2>5. proc' = [proc EXCEPT ![p] = [r EXCEPT !.pc = to]]
    BY <1>4 DEF Recover, r, to
  <2>6. Keeps(p)
    BY <1>2, <2>4, <2>5 DEF Keeps, IntentInv, Ghosts, Recover
  <2> QED BY <1>1, <2>6, KeepsInv, Others
<1> QED BY <1>3, <1>4

LEMMA ForwardKeeps ==
  ASSUME IntentInv, NEW p \in Procs, Forward(p) PROVE IntentInv'
<1> DEFINE i == Todo(p)
<1>1. /\ ~Idle(p) /\ i \in Txn
      /\ \A to \in {"r_rmtrash", "r_enable", "r_stage", "r_rmsync", "r_drop"} :
           Leads(p, to)
  BY UndoingLeads DEF Forward, At, Undoing, Todo
<1>2. Leads(p, "r_fail") /\ Leads(p, "c_unlink")
  BY OutsideLeads DEF Outside
<1>3. i.name \in Names /\ i.who \in Procs /\ asked' = asked /\ odd' = odd
  BY <1>1 DEF Txn, Forward
<1>4. \A v \in {"unset", "on"} : [disk.trust EXCEPT ![i.name] = v] \in Trust
  BY Remembered, TrustSet
<1> HIDE DEF i
<1>5. CASE Flush(p, "data", IF i.op = "R" THEN "r_rmtrash"
                            ELSE IF i.flag THEN "r_enable" ELSE "r_stage", "r_fail")
  BY <1>1, <1>2, <1>3, <1>5, FlushKeeps
<1>6. CASE Write(p, "trust", [disk.trust EXCEPT ![i.name] = "on"], "r_stage",
                 "r_fail", "r_fail")
  BY <1>1, <1>2, <1>3, <1>4, <1>6, TrustKeeps
<1>7. CASE RmTree(p, "trash", i.who, "r_rmsync", "r_fail")
  BY <1>1, <1>2, <1>3, <1>7, RmTreeKeeps
<1>8. CASE Flush(p, "data", IF i.flag THEN "c_unlink" ELSE "r_drop", "r_fail")
  BY <1>1, <1>2, <1>3, <1>8, FlushKeeps
<1>9. CASE Write(p, "trust", [disk.trust EXCEPT ![i.name] = "unset"],
                 "c_unlink", "r_fail", "r_fail")
  BY <1>1, <1>2, <1>3, <1>4, <1>9, TrustKeeps
<1> QED BY <1>5, <1>6, <1>7, <1>8, <1>9 DEF Forward, i

LEMMA BackKeeps ==
  ASSUME IntentInv, NEW p \in Procs, Back(p) PROVE IntentInv'
<1> DEFINE i == Todo(p)
           after == IF i.op = "I" THEN "r_stage" ELSE "c_unlink"
<1>1. /\ ~Idle(p) /\ i \in Txn
      /\ \A to \in {"r_rmdirsync", "r_lock", "r_backroot", "r_backdata",
                    "r_trust", "r_stage"} : Leads(p, to)
  BY UndoingLeads DEF Back, At, Undoing, Todo
<1>2. Leads(p, "r_fail") /\ Leads(p, "c_unlink")
  BY OutsideLeads DEF Outside
<1>3. i.name \in Names /\ i.who \in Procs /\ asked' = asked
  BY <1>1 DEF Txn, Back
<1>4. disk.before # NoCopy =>
        disk.before.lock \in SUBSET Names /\ disk.before.trust \in Trust
  BY DEF IntentInv, Disks
<1>5. disk \in Disks
  BY DEF IntentInv
<1> HIDE DEF i
<1>6. CASE RmTree(p, "home", i.name, "r_rmdirsync", "r_fail") /\ odd' = odd
  BY <1>1, <1>2, <1>3, <1>6, RmTreeKeeps
<1>7. CASE odd' = odd /\ \/ Flush(p, "root", "r_lock", "r_fail")
                         \/ Flush(p, "root", "r_backdata", "r_fail")
                         \/ Flush(p, "data", "r_lock", "r_fail")
  BY <1>1, <1>2, <1>3, <1>7, FlushKeeps
<1>8. CASE /\ UNCHANGED <<safe, odd>>
           /\ \/ /\ disk' = Rename(disk, i.name, i.who, FALSE)
                 /\ Goto(p, "r_backroot")
              \/ disk' = disk /\ (Goto(p, "r_fail") \/ Fault(p, "r_fail"))
  <2>1. /\ Rename(disk, i.name, i.who, FALSE) \in Disks
        /\ Rename(disk, i.name, i.who, FALSE).intent = disk.intent
    BY <1>3, <1>5, RenameTyped
  <2>2. disk' \in Disks /\ disk'.intent = disk.intent
    BY <1>5, <1>8, <2>1
  <2> QED BY <1>1, <1>2, <1>3, <1>8, <2>2, PlainKeeps
<1>9. CASE /\ disk.before # NoCopy /\ odd' = odd
           /\ Write(p, "lock", disk.before.lock, "r_trust", "r_fail", "r_fail")
  BY <1>1, <1>2, <1>3, <1>4, <1>9, LockKeeps
<1>10. CASE /\ disk.before # NoCopy /\ odd' = odd
            /\ Write(p, "trust", disk.before.trust, after, "r_fail", "r_fail")
  BY <1>1, <1>2, <1>3, <1>4, <1>10, TrustKeeps
<1>11. CASE Goto(p, "r_fail") /\ UNCHANGED <<disk, safe, odd>>
  BY <1>1, <1>2, <1>3, <1>5, <1>11, PlainKeeps
<1> QED BY <1>6, <1>7, <1>8, <1>9, <1>10, <1>11 DEF Back, i

LEMMA FinishKeeps ==
  ASSUME IntentInv, NEW p \in Procs, Finish(p) PROVE IntentInv'
<1>1. ~Idle(p)
  BY DEF Finish, At, Idle
<1>2. CASE RmStage(p, Todo(p).who, "c_unlink", "r_fail")
  <2>1. Leads(p, "r_fail") /\ Leads(p, "c_unlink")
    BY OutsideLeads DEF Outside
  <2> QED BY <1>1, <1>2, <2>1, RmStageKeeps DEF Finish
<1>3. CASE /\ UNCHANGED <<disk, safe, left>>
           /\ proc' = [proc EXCEPT ![p] = Recovered(@, FALSE)]
  <2>1. Good(p, Recovered(proc[p], FALSE), disk.intent) /\ DOMAIN proc = Procs
    BY RecoveredGood DEF IntentInv, Good
  <2>2. Keeps(p)
    BY <1>3, <2>1 DEF Keeps, IntentInv, Ghosts, Finish
  <2> QED BY <1>1, <2>2, KeepsInv, Others
<1> QED BY <1>2, <1>3 DEF Finish

(* Taking the intent away; its owner has left the steps that need it.        *)
LEMMA ClearKeeps ==
  ASSUME IntentInv, NEW p \in Procs, Clear(p) PROVE IntentInv'
<1>1. ~Idle(p) /\ asked' = asked /\ odd' = odd
  BY DEF Clear, At, Idle
<1>2. \A x : \A to \in Outside :
        /\ Fits(proc[p], to, x)
        /\ to \in Steps \union {"cleared", "pending", "m_fail"}
  BY DEF Outside, Fits, Steps, Installing, Removing, Changing, Undoing, Open
<1>3. {"c_sync", "c_copies", "cleared", "pending"} \subseteq Outside
  BY DEF Outside
<1>4. CASE /\ At(p, "c_unlink") /\ safe' = safe
           /\ \/ disk' = [disk EXCEPT !.intent = NoIntent] /\ Goto(p, "c_sync")
              \/ disk' = disk /\ Fault(p, "pending")
  <2>1. Did(p, "c_sync", "pending", "pending")
    BY <1>4 DEF Did, IntentInv, Disks
  <2> QED BY <1>1, <1>2, <1>3, <2>1, DidKeeps DEF IntentInv, Ghosts
<1>5. CASE Flush(p, "state", "c_copies", "pending")
  BY <1>1, <1>3, <1>5, OutsideLeads, FlushKeeps
<1>6. CASE /\ safe' = safe
           /\ \/ disk' = [disk EXCEPT !.before = NoCopy] /\ Goto(p, "cleared")
              \/ disk' = disk /\ Fault(p, "cleared")
  <2>1. disk' \in Disks /\ disk'.intent = disk.intent
    BY <1>6 DEF IntentInv, Disks
  <2> QED BY <1>1, <1>3, <1>6, <2>1, OutsideLeads, PlainKeeps
<1> QED BY <1>4, <1>5, <1>6 DEF Clear

-----------------------------------------------------------------------------
(* The commands.                                                             *)

LEMMA StartKeeps ==
  ASSUME IntentInv, NEW p \in Procs, Start(p) PROVE IntentInv'
<1>1. PICK op \in {"I", "R", "L"}, n \in Names, flag \in BOOLEAN :
        proc' = [proc EXCEPT ![p].pc = "recover",
                   ![p].mine = [op |-> op, name |-> n, flag |-> flag, who |-> p]]
  BY DEF Start
<1> DEFINE r == [proc[p] EXCEPT !.pc = "recover",
                   !.mine = [op |-> op, name |-> n, flag |-> flag, who |-> p]]
<1>2. proc[p] \in Process(p) /\ DOMAIN proc = Procs
  BY DEF IntentInv, Good
<1>3. r \in Process(p) /\ r.pc = "recover"
  BY <1>2 DEF Process, Commands, Steps
<1>4. proc' = [proc EXCEPT ![p] = r]
  BY <1>1, <1>2 DEF Process
<1> HIDE DEF r
<1>5. Good(p, r, disk.intent)
  BY <1>3 DEF Good, Fits, Installing, Removing, Changing, Undoing, Open
<1>6. Keeps(p)
  BY <1>2, <1>4, <1>5 DEF Keeps, IntentInv, Ghosts, Start
<1>7. Alone => \A q \in Procs \ {p} : Idle(q)
  BY DEF Start
<1> QED BY <1>6, <1>7, KeepsInv

LEMMA BeginKeeps ==
  ASSUME IntentInv, NEW p \in Procs, Begin(p) PROVE IntentInv'
<1> DEFINE m == Mine(p)
           bad == IF m.op = "I" THEN "i_drop" ELSE "over"
           good == IF m.op = "R" /\ m.flag THEN "m_quar" ELSE "load"
<1>1. /\ ~Idle(p) /\ m \in Commands(p) /\ m.op # "L" /\ odd' = odd
      /\ proc[p].pc \in {"b_copies", "b_intent"}
  BY Remembered DEF Begin, At, Idle, Mine, IntentInv, Good, Fits, Changing
<1>2. \A x : Fits(proc[p], bad, x) /\ bad \in Steps
  BY DEF Fits, Steps, Installing, Removing, Changing, Undoing, Open
<1>3. disk \in Disks /\ safe \in Disks /\ m \in Txn /\ m.name \in Names
  BY <1>1 DEF IntentInv, Txn, Commands
<1>4. CASE /\ Write(p, "before", [trust |-> disk.trust, lock |-> disk.lock],
                    "b_intent", bad, bad)
           /\ asked' = asked
  <2> DEFINE new == [disk EXCEPT !["before"] = [trust |-> disk.trust,
                                               lock |-> disk.lock]]
  <2>1. new \in Disks /\ new.intent = disk.intent
    BY <1>3 DEF Disks
  <2>2. Fits(proc[p], "b_intent", disk'.intent) /\ "b_intent" \in Steps
    BY <1>1 DEF Fits, Steps, Installing, Removing, Changing, Undoing, Open, Mine
  <2> HIDE DEF m, bad, good
  <2>3. Did(p, "b_intent", bad, bad)
    BY <1>3, <1>4, <2>1, WriteDid
  <2> HIDE DEF new
  <2> QED BY <1>1, <1>2, <1>4, <2>2, <2>3, DidKeeps DEF IntentInv, Ghosts
<1>5. CASE /\ Write(p, "intent", m, good, bad, bad)
           /\ asked' = IF m.op = "R" THEN asked
                       ELSE IF m.flag THEN asked \union {m.name}
                       ELSE asked \ {m.name}
  <2> DEFINE new == [disk EXCEPT !["intent"] = m]
  <2>1. new \in Disks /\ new.intent = m
    BY <1>3 DEF Disks
  <2>2. asked' \subseteq Names
    BY <1>3, <1>5 DEF IntentInv, Ghosts
  <2>3. Fits(proc[p], good, m) /\ good \in Steps
    BY <1>1 DEF Fits, Steps, Installing, Removing, Changing, Undoing, Open, Mine
  <2> HIDE DEF new, m, good, bad
  <2>4. CASE disk' = new /\ safe' = Flushed(new, DirOf["intent"]) /\ Goto(p, good)
    <3>1. /\ DOMAIN proc' = Procs /\ \A q \in Procs \ {p} : proc'[q] = proc[q]
          /\ Good(p, proc'[p], m) /\ left' \in Counts
      BY <2>3, <2>4, Moves
    <3>2. Keeps(p)
      BY <1>1, <1>3, <2>1, <2>2, <2>4, <3>1, FlushedTyped
      DEF Keeps, Ghosts, IntentInv
    <3> QED BY <1>1, <3>2, KeepsInv, Others
  <2>5. CASE disk' \in {disk, new} /\ safe' = safe /\ Fault(p, bad)
    <3>1. Did(p, bad, bad, bad)
      BY <1>3, <2>1, <2>5 DEF Did
    <3> QED BY <1>1, <1>2, <2>2, <3>1, DidKeeps DEF IntentInv, Ghosts
  <2> QED BY <1>5, <2>4, <2>5 DEF Write, new
<1> QED BY <1>4, <1>5 DEF Begin

LEMMA SwitchOffKeeps ==
  ASSUME IntentInv, NEW p \in Procs, SwitchOff(p) PROVE IntentInv'
<1> DEFINE m == Mine(p)
           off == [proc[p].t0 EXCEPT ![m.name] = "off"]
<1>1. /\ ~Idle(p) /\ m \in Commands(p) /\ m.op # "L"
      /\ asked' = asked /\ odd' = odd /\ (Alone => disk.intent = m)
  BY Remembered DEF SwitchOff, At, Idle, Mine, IntentInv, Good, Fits, Changing,
     Open
<1>2. off \in Trust
  BY Remembered, TrustSet
<1>3. CASE /\ proc' = [proc EXCEPT ![p].t0 = disk.trust, ![p].pc = "off"]
           /\ UNCHANGED <<disk, safe, left>>
  <2> DEFINE r == [proc[p] EXCEPT !.t0 = disk.trust, !.pc = "off"]
  <2>1. proc[p] \in Process(p) /\ DOMAIN proc = Procs /\ disk.trust \in Trust
    BY DEF IntentInv, Good, Disks
  <2>2. r \in Process(p) /\ r.pc = "off" /\ r.mine = proc[p].mine
    BY <2>1 DEF Process, Steps, Open
  <2>3. proc' = [proc EXCEPT ![p] = r]
    BY <1>3, <2>1 DEF Process
  <2> HIDE DEF r
  <2>4. Good(p, r, disk.intent)
    BY <1>1, <2>2
    DEF Good, Fits, Installing, Removing, Changing, Undoing, Open, Mine
  <2>5. Keeps(p)
    BY <1>1, <1>3, <2>1, <2>3, <2>4 DEF Keeps, IntentInv, Ghosts
  <2> QED BY <1>1, <2>5, KeepsInv, Others
<1>4. CASE m.op = "I" /\ Write(p, "trust", off, "i_publish", "i_tidy", "i_undo")
  <2>1. Leads(p, "i_publish") /\ Leads(p, "i_tidy") /\ Leads(p, "i_undo")
    BY <1>1, <1>4 DEF Leads, Fits, Steps, Installing, Removing, Changing,
                      Undoing, Open, Mine
  <2> HIDE DEF off
  <2> QED BY <1>1, <1>2, <1>4, <2>1, TrustKeeps
<1>5. CASE m.op # "I" /\ Write(p, "trust", off, "m_quar", "recover", "m_undo")
  <2>1. Leads(p, "m_quar") /\ Leads(p, "recover") /\ Leads(p, "m_undo")
    BY <1>1, <1>5 DEF Leads, Fits, Steps, Installing, Removing, Changing,
                      Undoing, Open, Mine, Commands
  <2> HIDE DEF off
  <2> QED BY <1>1, <1>2, <1>5, <2>1, TrustKeeps
<1> QED BY <1>3, <1>4, <1>5 DEF SwitchOff

LEMMA StageKeeps ==
  ASSUME IntentInv, NEW p \in Procs, Stage(p) PROVE IntentInv'
<1>1. /\ ~Idle(p) /\ proc[p].mine.op = "I" /\ UNCHANGED <<safe, asked, odd>>
  BY DEF Stage, At, Idle, IntentInv, Good, Fits, Installing
<1>2. Leads(p, "over") /\ Leads(p, "i_drop")
  BY OutsideLeads DEF Outside
<1>3. Leads(p, "b_copies")
  BY <1>1 DEF Leads, Fits, Steps, Installing, Removing, Changing, Undoing, Open
<1>4. CASE /\ proc' = [proc EXCEPT ![p].lk = disk.lock, ![p].pc = "i_check"]
           /\ disk' = [disk EXCEPT !.stage = @ \union {p}]
           /\ left' = left
  <2> DEFINE r == [proc[p] EXCEPT !.lk = disk.lock, !.pc = "i_check"]
  <2>1. proc[p] \in Process(p) /\ DOMAIN proc = Procs /\ disk.lock \subseteq Names
    BY DEF IntentInv, Good, Disks
  <2>2. r \in Process(p) /\ r.pc = "i_check" /\ r.mine = proc[p].mine
    BY <2>1 DEF Process, Steps
  <2>3. proc' = [proc EXCEPT ![p] = r]
    BY <1>4, <2>1 DEF Process
  <2>4. disk' \in Disks
    BY <1>4 DEF IntentInv, Disks
  <2> HIDE DEF r
  <2>5. Good(p, r, disk'.intent)
    BY <1>1, <2>2
    DEF Good, Fits, Installing, Removing, Changing, Undoing, Open
  <2>6. Keeps(p)
    BY <1>1, <1>4, <2>1, <2>3, <2>4, <2>5 DEF Keeps, IntentInv, Ghosts
  <2> QED BY <1>1, <2>6, KeepsInv, Others
<1>5. CASE /\ disk' = disk
           /\ \/ Fault(p, "over") \/ Fault(p, "i_drop")
              \/ Goto(p, "b_copies") \/ Goto(p, "i_drop")
  BY <1>1, <1>2, <1>3, <1>5, PlainKeeps DEF IntentInv
<1> QED BY <1>4, <1>5 DEF Stage

LEMMA PublishKeeps ==
  ASSUME IntentInv, NEW p \in Procs, Publish(p) PROVE IntentInv'
<1> DEFINE n == Mine(p).name
           lk == proc[p].lk
<1>1. /\ ~Idle(p) /\ asked' = asked
      /\ \A to \in {"i_sync", "i_undo", "i_lock", "i_on", "i_relock", "i_unpub"} :
           Leads(p, to)
  BY AddingLeads DEF Publish, At, Adding, Installing, Open
<1>2. Leads(p, "c_unlink")
  BY OutsideLeads DEF Outside
<1>3. n \in Names /\ lk \in SUBSET Names /\ disk \in Disks /\ p \in Procs
  BY Remembered DEF Mine
<1>4. [proc[p].t0 EXCEPT ![n] = "on"] \in Trust
  BY Remembered, TrustSet
<1>5. [disk EXCEPT !.home[n] = "whole"] \in Disks
  BY <1>3 DEF Disks, Tree
<1>6. [disk EXCEPT !.home[n] = "whole"].intent = disk.intent
  BY <1>3 DEF Disks
<1>7. lk \union {n} \in SUBSET Names
  BY <1>3
<1> HIDE DEF n, lk
<1>8. CASE /\ UNCHANGED <<safe, odd>>
           /\ \/ disk' = [disk EXCEPT !.home[n] = "whole"] /\ Goto(p, "i_sync")
              \/ disk' = disk /\ (Goto(p, "i_undo") \/ Fault(p, "i_undo"))
  <2>1. disk' \in Disks /\ disk'.intent = disk.intent
    BY <1>3, <1>5, <1>6, <1>8
  <2> QED BY <1>1, <1>8, <2>1, PlainKeeps
<1>9. CASE odd' = odd /\ RmStage(p, p, "i_lock", "i_unpub")
  BY <1>1, <1>9, RmStageKeeps
<1>10. CASE SaveLock(p, lk \union {n}, IF Mine(p).flag THEN "i_on" ELSE "c_unlink",
                     "i_unpub")
  BY <1>1, <1>2, <1>7, <1>10, SaveLockKeeps
<1>11. CASE /\ odd' = odd
            /\ Write(p, "trust", [proc[p].t0 EXCEPT ![n] = "on"], "c_unlink",
                     "i_relock", "i_relock")
  BY <1>1, <1>2, <1>4, <1>11, TrustKeeps
<1> QED BY <1>8, <1>9, <1>10, <1>11 DEF Publish, n, lk

LEMMA UnpublishKeeps ==
  ASSUME IntentInv, NEW p \in Procs, Unpublish(p) PROVE IntentInv'
<1>1. ~Idle(p) /\ asked' = asked
  BY DEF Unpublish, At, Idle
<1>2. \A to \in Outside : Leads(p, to)
  BY OutsideLeads
<1>3. CASE proc[p].pc \in Adding
  <2>1. \A to \in {"i_unpub", "i_unsync", "i_undo", "i_tidy"} : Leads(p, to)
    BY <1>3, AddingLeads DEF Adding, Installing, Open
  <2>2. /\ proc[p].lk \in SUBSET Names /\ Mine(p).name \in Names
        /\ proc[p].t0 \in Trust
    BY Remembered DEF Mine
  <2>3. CASE SaveLock(p, proc[p].lk, "i_unpub", "i_unpub")
    BY <1>1, <2>1, <2>2, <2>3, SaveLockKeeps
  <2>4. CASE odd' = odd /\ RmTree(p, "home", Mine(p).name, "i_unsync", "i_undo")
    BY <1>1, <2>1, <2>2, <2>4, RmTreeKeeps
  <2>5. CASE odd' = odd /\ Flush(p, "root", "i_undo", "i_undo")
    BY <1>1, <2>1, <2>5, FlushKeeps
  <2>6. CASE /\ odd' = odd
             /\ Write(p, "trust", proc[p].t0, "i_tidy", "i_tidy", "i_tidy")
    BY <1>1, <2>1, <2>2, <2>6, TrustKeeps
  <2>7. ~At(p, "i_tidy") /\ ~At(p, "i_drop")
    BY <1>3 DEF At, Adding, Open
  <2> QED BY <2>3, <2>4, <2>5, <2>6, <2>7 DEF Unpublish
<1>4. CASE At(p, "i_tidy") \/ At(p, "i_drop")
  <2>1. Leads(p, "recover") /\ Leads(p, "over")
    BY <1>2 DEF Outside
  <2>2. CASE /\ odd' = odd
             /\ RmStage(p, p, "recover", "recover") \/ RmStage(p, p, "over", "over")
    BY <1>1, <2>1, <2>2, RmStageKeeps
  <2>3. CASE UNCHANGED <<disk, safe, odd>> /\ Goto(p, "recover")
    BY <1>1, <2>1, <2>3, PlainKeeps DEF IntentInv
  <2> QED BY <1>4, <2>2, <2>3 DEF Unpublish, At
<1> QED BY <1>3, <1>4 DEF Unpublish, At, Adding, Installing, Open

LEMMA QuarantineKeeps ==
  ASSUME IntentInv, NEW p \in Procs, Quarantine(p) PROVE IntentInv'
<1> DEFINE n == Mine(p).name
<1>1. ~Idle(p) /\ asked' = asked /\ odd' = odd
  BY DEF Quarantine, At, Idle
<1>2. n \in Names /\ disk \in Disks /\ p \in Procs /\ disk.lock \in SUBSET Names
  BY Remembered DEF Mine
<1> HIDE DEF n
<1>3. CASE /\ At(p, "m_load") /\ UNCHANGED <<disk, safe, left>>
           /\ proc' = [proc EXCEPT ![p] =
                 IF n \in disk.lock THEN [@ EXCEPT !.lk = disk.lock, !.pc = "b_copies"]
                                    ELSE Ended(@)]
  <2> DEFINE r == [proc[p] EXCEPT !.lk = disk.lock, !.pc = "b_copies"]
  <2>1. proc[p] \in Process(p) /\ DOMAIN proc = Procs /\ proc[p].mine.op = "R"
    BY <1>3 DEF IntentInv, Good, Fits, At, Removing
  <2>2. r \in Process(p) /\ r.pc = "b_copies" /\ r.mine = proc[p].mine
    BY <1>2, <2>1 DEF Process, Steps
  <2>3. proc'[p] \in {r, Ended(proc[p])}
    BY <1>3, <2>1
  <2> HIDE DEF r
  <2>4. Good(p, r, disk.intent)
    BY <2>1, <2>2
    DEF Good, Fits, Installing, Removing, Changing, Undoing, Open
  <2>5. Good(p, proc'[p], disk'.intent)
    BY <1>3, <2>1, <2>3, <2>4, EndedGood
  <2>6. Keeps(p)
    BY <1>1, <1>3, <2>1, <2>5 DEF Keeps, IntentInv, Ghosts
  <2> QED BY <1>1, <2>6, KeepsInv, Others
<1>4. CASE proc[p].pc \in Taking
  <2>1. \A to \in {"m_lock", "m_root", "m_data", "m_unquar", "m_fail"} : Leads(p, to)
    BY <1>4, TakingLeads DEF Taking, Removing, Open
  <2>2. CASE /\ safe' = safe
             /\ \/ disk' = Rename(disk, n, p, TRUE) /\ Goto(p, "m_root")
                \/ disk' = disk /\ (Goto(p, "m_lock") \/ Fault(p, "m_fail"))
    <3>1. Rename(disk, n, p, TRUE) \in Disks
          /\ Rename(disk, n, p, TRUE).intent = disk.intent
      BY <1>2, RenameTyped
    <3>2. disk' \in Disks /\ disk'.intent = disk.intent
      BY <1>2, <2>2, <3>1
    <3> QED BY <1>1, <2>1, <2>2, <3>2, PlainKeeps
  <2>3. CASE \/ Flush(p, "root", "m_data", "m_unquar")
             \/ Flush(p, "data", "m_lock", "m_unquar")
    BY <1>1, <2>1, <2>3, FlushKeeps
  <2>4. ~At(p, "m_load")
    BY <1>4 DEF At, Taking, Open
  <2> QED BY <2>2, <2>3, <2>4 DEF Quarantine, n
<1> QED BY <1>3, <1>4 DEF Quarantine, At, Taking, Removing, Open, n

LEMMA UnlistKeeps ==
  ASSUME IntentInv, NEW p \in Procs, Unlist(p) PROVE IntentInv'
<1> DEFINE n == Mine(p).name
           lk == proc[p].lk
<1>1. /\ ~Idle(p) /\ asked' = asked
      /\ \A to \in {"m_rmtrash", "m_drop", "m_relock", "m_rmsync"} : Leads(p, to)
  BY TakingLeads DEF Unlist, At, Taking, Removing, Open
<1>2. Leads(p, "recover") /\ Leads(p, "c_unlink")
  BY OutsideLeads DEF Outside
<1>3. lk \ {n} \in SUBSET Names /\ disk \in Disks
  BY Remembered
<1>4. [proc[p].t0 EXCEPT ![n] = "unset"] \in Trust
  BY Remembered, TrustSet
<1> HIDE DEF n, lk
<1>5. CASE SaveLock(p, lk \ {n}, IF Mine(p).flag THEN "m_rmtrash" ELSE "m_drop",
                    "m_relock")
  BY <1>1, <1>3, <1>5, SaveLockKeeps
<1>6. CASE /\ odd' = odd
           /\ Write(p, "trust", [proc[p].t0 EXCEPT ![n] = "unset"], "m_rmtrash",
                    "recover", "recover")
  BY <1>1, <1>2, <1>4, <1>6, TrustKeeps
<1>7. CASE odd' = odd /\ RmTree(p, "trash", p, "m_rmsync", "recover")
  BY <1>1, <1>2, <1>7, RmTreeKeeps
<1>8. CASE UNCHANGED <<disk, safe, odd>> /\ Goto(p, "c_unlink")
  BY <1>1, <1>2, <1>3, <1>8, PlainKeeps
<1>9. CASE odd' = odd /\ Flush(p, "data", "c_unlink", "recover")
  BY <1>1, <1>2, <1>9, FlushKeeps
<1> QED BY <1>5, <1>6, <1>7, <1>8, <1>9 DEF Unlist, n, lk

LEMMA UnremoveKeeps ==
  ASSUME IntentInv, NEW p \in Procs, Unremove(p) PROVE IntentInv'
<1> DEFINE n == Mine(p).name
           next == IF disk.trash[p] # "none" THEN "m_unquar" ELSE "m_fail"
<1>1. /\ ~Idle(p) /\ asked' = asked
      /\ \A to \in {"m_unquar", "m_resync", "m_fail"} : Leads(p, to)
  BY TakingLeads DEF Unremove, At, Taking, Removing, Open
<1>2. Leads(p, "recover") /\ Leads(p, next)
  BY <1>1, OutsideLeads DEF Outside
<1>3. n \in Names /\ disk \in Disks /\ proc[p].lk \in SUBSET Names
      /\ proc[p].t0 \in Trust
  BY Remembered DEF Mine
<1> HIDE DEF n, next
<1>4. CASE SaveLock(p, proc[p].lk, next, next)
  BY <1>1, <1>2, <1>3, <1>4, SaveLockKeeps
<1>5. CASE /\ UNCHANGED <<safe, odd>>
           /\ \/ disk' = Rename(disk, n, p, FALSE) /\ Goto(p, "m_resync")
              \/ disk' = disk /\ (Goto(p, "m_fail") \/ Fault(p, "m_fail"))
  <2>1. Rename(disk, n, p, FALSE) \in Disks
        /\ Rename(disk, n, p, FALSE).intent = disk.intent
    BY <1>3, RenameTyped
  <2>2. disk' \in Disks /\ disk'.intent = disk.intent
    BY <1>3, <1>5, <2>1
  <2> QED BY <1>1, <1>5, <2>2, PlainKeeps
<1>6. CASE odd' = odd /\ Flush(p, "data", "m_fail", "m_fail")
  BY <1>1, <1>6, FlushKeeps
<1>7. CASE odd' = odd /\ Write(p, "trust", proc[p].t0, "recover", "recover", "recover")
  BY <1>1, <1>2, <1>3, <1>7, TrustKeeps
<1> QED BY <1>4, <1>5, <1>6, <1>7 DEF Unremove, n, next

-----------------------------------------------------------------------------
(* The world.                                                                *)

LEMMA KillKeeps ==
  ASSUME IntentInv, NEW p \in Procs, Kill(p) PROVE IntentInv'
<1>1. Good(p, Ended(proc[p]), disk.intent) /\ DOMAIN proc = Procs
  BY EndedGood DEF IntentInv, Good
<1>2. Keeps(p)
  BY <1>1 DEF Kill, Keeps, IntentInv, Ghosts
<1> QED BY <1>2, KeepsInv, Others DEF Kill

LEMMA UpsetLeft ==
  ASSUME IntentInv, Upset PROVE left' \in Counts
BY PkgBounds DEF Upset, IntentInv, Ghosts, Counts

(* After a power loss nothing runs, so that it does not matter which of the  *)
(* writes survived.                                                          *)
LEMMA LossKeeps ==
  ASSUME IntentInv, Loss PROVE IntentInv'
<1>1. PICK gone \in SUBSET Unsafe :
        disk' = [f \in DOMAIN disk |-> IF f \in UNION gone THEN safe[f] ELSE disk[f]]
  BY DEF Loss
<1>2. disk' \in Disks /\ safe' \in Disks
  BY <1>1 DEF Loss, IntentInv, Disks
<1>3. left' \in Counts /\ asked' = asked /\ odd' = odd
  BY UpsetLeft DEF Loss
<1>4. DOMAIN proc' = Procs
  BY DEF Loss
<1>5. ASSUME NEW p \in Procs
      PROVE  Good(p, proc'[p], disk'.intent) /\ proc'[p].pc \in {"fresh", "over"}
  <2>1. proc[p] \in Process(p)
    BY DEF IntentInv, Good
  <2>2. proc'[p] = IF Idle(p) THEN proc[p] ELSE Ended(proc[p])
    BY DEF Loss
  <2>3. Good(p, Ended(proc[p]), disk'.intent) /\ Ended(proc[p]).pc = "over"
    BY <2>1, EndedGood
  <2>4. CASE Idle(p)
    BY <2>1, <2>2, <2>4
    DEF Idle, Good, Fits, Installing, Removing, Changing, Undoing, Open
  <2> QED BY <2>2, <2>3, <2>4
<1>6. OneRuns'
  BY <1>5 DEF OneRuns, Idle
<1> QED BY <1>2, <1>3, <1>4, <1>5, <1>6 DEF IntentInv, Ghosts

(* The user's own steps leave the intent and the commands alone.             *)
LEMMA UserKeeps ==
  ASSUME IntentInv, disk' \in Disks, safe' \in Disks, disk'.intent = disk.intent,
         proc' = proc, Ghosts'
  PROVE  IntentInv'
BY DEF IntentInv, OneRuns, Idle

LEMMA DecideKeeps ==
  ASSUME IntentInv, Decide PROVE IntentInv'
<1>1. PICK n \in Names, d \in {"on", "off"} :
        /\ disk' = [disk EXCEPT !.trust[n] = d]
        /\ asked' = IF d = "on" THEN asked \union {n} ELSE asked \ {n}
        /\ odd' = IF Quiet THEN odd ELSE [odd EXCEPT !.overtaken = @ \union {n}]
  BY DEF Decide
<1>2. disk' \in Disks /\ disk'.intent = disk.intent
  BY <1>1 DEF IntentInv, Disks, Trust
<1>3. asked' \subseteq Names /\ odd' \in OddTypes
  BY <1>1 DEF IntentInv, Ghosts, OddTypes
<1>4. safe' \in Disks
  BY <1>2, FlushedTyped DEF Decide, IntentInv
<1>5. left' \in Counts /\ proc' = proc
  BY UpsetLeft DEF Decide
<1> QED BY <1>2, <1>3, <1>4, <1>5, UserKeeps DEF Ghosts

LEMMA DeleteKeeps ==
  ASSUME IntentInv, Delete PROVE IntentInv'
<1>1. PICK n \in Names :
        /\ disk' = [disk EXCEPT !.home[n] = "none"]
        /\ odd' = [odd EXCEPT !.strayed = @ \union {n}]
  BY DEF Delete
<1>2. disk' \in Disks /\ disk'.intent = disk.intent
  BY <1>1 DEF IntentInv, Disks, Tree
<1>3. asked' \subseteq Names /\ odd' \in OddTypes
  BY <1>1 DEF Delete, IntentInv, Ghosts, OddTypes
<1>4. safe' \in Disks
  BY <1>2, FlushedTyped DEF Delete, IntentInv
<1>5. left' \in Counts /\ proc' = proc
  BY UpsetLeft DEF Delete
<1> QED BY <1>2, <1>3, <1>4, <1>5, UserKeeps DEF Ghosts

-----------------------------------------------------------------------------
(* The theorem.                                                              *)

LEMMA IntentStart == Init => IntentInv
<1> SUFFICES ASSUME Init PROVE IntentInv
  OBVIOUS
<1>1. disk \in Disks /\ asked \subseteq Names
  BY DEF Init, Disks, Tree
<1>2. odd \in OddTypes /\ left \in Counts
  BY PkgBounds DEF Init, OddTypes, Counts
<1>3. ASSUME NEW p \in Procs
      PROVE  Good(p, proc[p], disk.intent) /\ proc[p].pc = "fresh"
  <2>1. proc[p] = Fresh(p) /\ Fresh(p).pc = "fresh"
    BY DEF Init, Fresh
  <2>2. Fresh(p) \in Process(p)
    BY FreshProcess
  <2> QED BY <2>1, <2>2
      DEF Good, Fits, Installing, Removing, Changing, Undoing, Open
<1>4. OneRuns
  BY <1>3 DEF OneRuns, Idle
<1> QED BY <1>1, <1>2, <1>3, <1>4 DEF Init, IntentInv, Ghosts

LEMMA IntentStep == IntentInv /\ [Next]_vars => IntentInv'
<1> SUFFICES ASSUME IntentInv, [Next]_vars PROVE IntentInv'
  OBVIOUS
<1>1. ASSUME NEW p \in Procs, Step(p) PROVE IntentInv'
  BY <1>1, StartKeeps, RecoverKeeps, ForwardKeeps, BackKeeps, FinishKeeps,
     ClearKeeps, BeginKeeps, SwitchOffKeeps, StageKeeps, PublishKeeps,
     UnpublishKeeps, QuarantineKeeps, UnlistKeeps, UnremoveKeeps DEF Step
<1>2. ASSUME NEW p \in Procs, Kill(p) PROVE IntentInv'
  BY <1>2, KillKeeps
<1>3. CASE Loss \/ Decide \/ Delete
  BY <1>3, LossKeeps, DecideKeeps, DeleteKeeps
<1>4. CASE UNCHANGED vars
  BY <1>4, UserKeeps DEF vars, IntentInv, Ghosts
<1> QED BY <1>1, <1>2, <1>3, <1>4 DEF Next

(* The invariant says what TypeOK says, and why.                             *)
LEMMA IntentImplies == IntentInv => TypeOK
<1> SUFFICES ASSUME IntentInv PROVE TypeOK
  OBVIOUS
<1>1. ASSUME NEW p \in Procs
      PROVE  /\ proc[p] \in Process(p)
             /\ Alone /\ proc[p].pc \in Open => disk.intent = Mine(p)
             /\ Alone /\ proc[p].pc \in Undoing => disk.intent = Todo(p)
  BY DEF IntentInv, Good, Fits, Mine, Todo
<1> QED BY <1>1 DEF IntentInv, Ghosts, Counts, TypeOK, Process, Commands

(* In every reachable state the types hold, and, where commands do not       *)
(* overlap, no step of a command touches the directory, the lock or the      *)
(* trust unless its own intent is on the disk, and a recovery works on the   *)
(* intent that is there: for any plugins, any number of commands, and any    *)
(* number of failed calls, power losses and edits of the user (pkg_txn_begin,*)
(* pkg_txn_recover, pkg_txn_clear).                                          *)
THEOREM IntentFirst == Spec => []TypeOK
<1>1. Init => IntentInv
  BY IntentStart
<1>2. IntentInv /\ [Next]_vars => IntentInv'
  BY IntentStep
<1>3. IntentInv => TypeOK
  BY IntentImplies
<1> QED BY <1>1, <1>2, <1>3, PTL DEF Spec

-----------------------------------------------------------------------------
(* Recovery, of commands that do not overlap.                                *)
(*                                                                           *)
(* A power loss keeps or drops the moves of directories, the lock and the    *)
(* state files independently of each other.  The invariant therefore speaks  *)
(* of three disks: one for the directories, one for the lock and one for the *)
(* intent with its copies, each of which is the disk as it is or as a power  *)
(* loss would leave it.  The operators take the disks as parameters: d what  *)
(* the running system sees, s what is safe, o the ghost odd.                 *)

-----------------------------------------------------------------------------
(* The invariant: the disks.                                                 *)

Whole(n, home, lock, o) ==
  /\ n \in lock <=> home[n] # "none"
  /\ home[n] = "part" => n \in o.doubted

(* Nothing is under way.                                                     *)
Settled(home, trash, lock, o) ==
  /\ \A q \in Procs : trash[q] = "none"
  /\ \A n \in Names \ o.strayed : Whole(n, home, lock, o)

(* The plugin n that is being installed, and the one that is being removed   *)
(* by way of the trash of q, when the copy of the lock is b.                 *)
Added(n, b, home, lock, o) ==
  /\ n \notin b
  /\ n \in lock /\ home[n] # "whole" => n \in o.doubted

Taken(n, q, b, home, trash, lock, o) ==
  /\ n \in b
  /\ n \notin lock /\ home[n] # "none" => n \in o.doubted
  /\ n \in lock => home[n] # "none" \/ trash[q] # "none"
  /\ n \in lock /\ (home[n] = "part" \/ trash[q] = "part") => n \in o.doubted

(* The transaction i is open: it concerns one plugin, and that one can be    *)
(* taken either way.                                                         *)
Pending(i, b, home, trash, lock, o) ==
  /\ \A q \in Procs : trash[q] # "none" => i.op = "R" /\ q = i.who
  /\ \A n \in Names \ o.strayed :
       n # i.name => Whole(n, home, lock, o) /\ (n \in lock <=> n \in b)
  /\ i.op = "R" => home[i.name] = "none" \/ trash[i.who] = "none"
  /\ i.name \notin o.strayed /\ i.op = "I" => Added(i.name, b, home, lock, o)
  /\ i.name \notin o.strayed /\ i.op = "R" =>
       Taken(i.name, i.who, b, home, trash, lock, o)

(* The directories of m, the lock of l and the state files of t together.    *)
Sound(m, l, t, o) ==
  /\ t.intent = NoIntent => Settled(m.home, m.trash, l.lock, o)
  /\ t.intent # NoIntent =>
       /\ t.before # NoCopy
       /\ Pending(t.intent, t.before.lock, m.home, m.trash, l.lock, o)

AllSound(d, s, o) == \A m, l, t \in {d, s} : Sound(m, l, t, o)

AllSettled(d, s, o) == \A m, l \in {d, s} : Settled(m.home, m.trash, l.lock, o)

(* A lock that is not safe yet is one whose writing failed.                  *)
LocksAgree(d, s, o) ==
  \A n \in Names \ (o.strayed \union o.doubted) : n \in d.lock <=> n \in s.lock

(* A directory under removal is not gone on the safe disk alone.             *)
Kept(d, s, o) ==
  LET i == d.intent IN
  /\ i # NoIntent /\ i.op = "R" /\ i.name \notin o.strayed
  /\ s.home[i.name] = "none" /\ s.trash[i.who] = "none"
  => d.home[i.name] = "none" /\ d.trash[i.who] = "none"

OneIntent(d, s) ==
  d.intent = NoIntent \/ s.intent = NoIntent \/ s.intent = d.intent

Consistent(d, s, o) ==
  AllSound(d, s, o) /\ LocksAgree(d, s, o) /\ Kept(d, s, o) /\ OneIntent(d, s)

-----------------------------------------------------------------------------
(* The invariant: what a command r knows of the disks at the label "to".     *)

(* pkg_txn_recover                                                           *)
Unwinding(r, to, d, s, o) ==
  LET i == r.todo
      n == i.name IN
  /\ to = "r_flush" /\ i.op = "I" => n \in d.lock /\ d.home[n] # "none"
  /\ to = "r_flush" /\ i.op = "R" => n \notin d.lock /\ d.home[n] = "none"
  /\ to \in {"r_enable", "r_stage", "r_drop", "r_trust"} => AllSettled(d, s, o)
  /\ to \in {"r_rmtrash", "r_rmsync"} =>
       i.op = "R" /\ \A m \in {d, s} : n \notin m.lock /\ m.home[n] = "none"
  /\ to = "r_rmsync" => d.trash[i.who] = "none"
  /\ to = "r_rmdir" => i.op = "I" /\ n \notin d.lock /\ d.home[n] # "none"
  /\ to = "r_rmdirsync" => i.op = "I" /\ d.home[n] = "none"
  /\ to = "r_back" => i.op = "R" /\ n \in d.lock /\ d.home[n] = "none"
  /\ to \in {"r_backroot", "r_backdata"} => i.op = "R" /\ d.home[n] # "none"
  /\ to = "r_lock" => (i.op = "I" <=> d.home[n] = "none")
  /\ to = "r_fail" /\ ~r.hurt =>
       /\ i.op = "R" /\ n \in o.strayed
       /\ d.home[n] = "none" /\ d.trash[i.who] = "none"

(* pkg_txn_clear                                                             *)
Closing(r, to, d, s, o) ==
  /\ to = "c_unlink" => AllSettled(d, s, o)
  /\ to \in {"c_sync", "c_copies", "cleared"} => d.intent = NoIntent
  /\ to = "c_copies" => s.intent = NoIntent
  /\ to = "pending" => r.hurt

(* Up to the change of the first directory.                                  *)
Opening(r, to, d, s, o) ==
  LET n == r.mine.name IN
  /\ to \in {"i_stage", "i_check", "b_copies", "b_intent", "m_load"} =>
       d.intent = NoIntent
  /\ to \in {"i_check", "b_copies", "b_intent"} => r.lk = d.lock
  /\ to = "b_intent" =>
       s.intent = NoIntent /\ d.before # NoCopy /\ d.before.lock = d.lock
  /\ to \in {"b_copies", "b_intent", "load", "off", "m_quar", "i_publish"} =>
       /\ r.mine.op = "I" => d.home[n] = "none"
       /\ r.mine.op = "R" => n \in d.lock
  /\ to \in {"load", "off", "m_quar", "i_publish"} => AllSettled(d, s, o)
  /\ to \in Open \union {"m_fail"} => s.intent = r.mine /\ r.lk = d.before.lock

(* pkg_install                                                               *)
Publishing(r, to, d, s, o) ==
  LET n == r.mine.name IN
  /\ to = "i_sync" => d.home[n] = "whole"
  /\ to = "i_lock" => d.home[n] = "whole" /\ s.home[n] = "whole"
  /\ to \in {"i_sync", "i_lock"} =>
       n \in o.strayed \/ (n \notin d.lock /\ n \notin s.lock)
  /\ to = "i_on" => AllSettled(d, s, o)
  /\ to = "i_unpub" =>
       n \in o.strayed \union o.doubted \/ (n \notin d.lock /\ n \notin s.lock)

(* pkg_remove                                                                *)
Discarding(r, to, d, s, o) ==
  LET n == r.mine.name
      q == r.mine.who IN
  /\ to \in {"m_root", "m_data", "m_lock"} => n \in d.lock /\ d.home[n] = "none"
  /\ to \in {"m_root", "m_data"} => d.trash[q] # "none"
  /\ to = "m_data" => s.home = d.home /\ s.trash = d.trash
  /\ to = "m_lock" =>
       /\ d.trash[q] = s.trash[q]
       /\ n \in o.strayed \/ (s.home[n] = "none" /\ d.trash[q] # "none")
  /\ to \in {"m_drop", "m_rmtrash", "m_rmsync"} =>
       /\ n \notin d.lock /\ n \notin s.lock /\ d.home[n] = "none"
       /\ n \in o.strayed \/ s.home[n] = "none"
  /\ to \in {"m_drop", "m_rmtrash"} /\ d.trash[q] = "none" => s.trash[q] = "none"
  /\ to = "m_rmsync" => d.trash[q] = "none"
  /\ to = "m_relock" =>
       /\ n \in o.doubted
       /\ n \in o.strayed \/ (d.trash[q] # "none" /\ s.trash[q] # "none")
  /\ to = "m_unquar" =>
       n \in o.strayed \union o.doubted \/ (n \in d.lock /\ n \in s.lock)

Fact(r, to, d, s, o) ==
  /\ Unwinding(r, to, d, s, o) /\ Closing(r, to, d, s, o)
  /\ Opening(r, to, d, s, o) /\ Publishing(r, to, d, s, o)
  /\ Discarding(r, to, d, s, o)

RecoveryInv ==
  /\ IntentInv
  /\ Consistent(disk, safe, odd)
  /\ \A p \in Procs : Fact(proc[p], proc[p].pc, disk, safe, odd)

(* What a step of p must do to keep it.                                      *)
Advances(p) ==
  /\ Consistent(disk', safe', odd')
  /\ Fact(proc'[p], proc'[p].pc, disk', safe', odd')

-----------------------------------------------------------------------------
(* Where control goes.                                                       *)

(* Labels at which nothing needs to be known.                                *)
Anywhere == {"fresh", "over", "recover", "i_tidy", "i_drop"}

LEMMA NoFact ==
  ASSUME NEW r, NEW to \in Anywhere, NEW d, NEW s, NEW o
  PROVE  Fact(r, to, d, s, o)
BY DEF Anywhere, Fact, Unwinding, Closing, Opening, Publishing, Discarding, Open

(* What is known depends on what the command remembers, not on where it was. *)
LEMMA SameFact ==
  ASSUME NEW r, NEW r2, NEW to, NEW d, NEW s, NEW o,
         r2.mine = r.mine, r2.todo = r.todo, r2.lk = r.lk,
         r2.hurt = r.hurt \/ (r2.hurt /\ to \in {"r_fail", "pending"})
                          \/ to \notin {"r_fail", "pending"},
         Fact(r, to, d, s, o) \/ (r2.hurt /\ to \in {"r_fail", "pending"})
  PROVE  Fact(r2, to, d, s, o)
<1>1. CASE Fact(r, to, d, s, o)
  <2>1. Unwinding(r2, to, d, s, o) /\ Closing(r2, to, d, s, o)
    BY <1>1 DEF Fact, Unwinding, Closing
  <2>2. Opening(r2, to, d, s, o) /\ Publishing(r2, to, d, s, o)
    BY <1>1 DEF Fact, Opening, Publishing
  <2>3. Discarding(r2, to, d, s, o)
    BY <1>1 DEF Fact, Discarding
  <2> QED BY <2>1, <2>2, <2>3 DEF Fact
<1>2. CASE r2.hurt /\ to \in {"r_fail", "pending"}
  BY <1>2 DEF Fact, Unwinding, Closing, Opening, Publishing, Discarding, Open
<1> QED BY <1>1, <1>2

LEMMA EndedFact ==
  ASSUME NEW r, NEW d, NEW s, NEW o
  PROVE  Fact(Ended(r), Ended(r).pc, d, s, o)
<1>1. Ended(r).pc = "over"
  BY DEF Ended, Fresh
<1> QED BY <1>1, NoFact DEF Anywhere

LEMMA RecoveredFact ==
  ASSUME NEW p, NEW r \in Process(p), NEW ok \in BOOLEAN, NEW d, NEW s, NEW o,
         ok => d.intent = NoIntent
  PROVE  Fact(Recovered(r, ok), Recovered(r, ok).pc, d, s, o)
<1> DEFINE q == [r EXCEPT !.call = "main", !.todo = NoIntent]
<1>1. q \in Process(p) /\ q.mine = r.mine
  BY DEF Process
<1>2. CASE r.call = "last" \/ ~ok \/ q.mine.op \notin {"I", "R"}
  <2>1. Recovered(r, ok) = Ended(r) \/ Recovered(r, ok) = Ended(q)
    BY <1>2 DEF Recovered
  <2> QED BY <2>1, EndedFact
<1>3. CASE ~(r.call = "last" \/ ~ok) /\ q.mine.op \in {"I", "R"}
  <2>1. PICK to \in {"i_stage", "m_load"} : Recovered(r, ok) = [q EXCEPT !.pc = to]
    BY <1>3 DEF Recovered
  <2> HIDE DEF q
  <2>2. Recovered(r, ok).pc = to
    BY <1>1, <2>1 DEF Process
  <2>3. ASSUME NEW x PROVE Fact(x, to, d, s, o)
    BY <1>3 DEF Fact, Unwinding, Closing, Opening, Publishing, Discarding, Open
  <2> QED BY <2>2, <2>3
<1> QED BY <1>2, <1>3

LEMMA MovingFact ==
  ASSUME NEW p, NEW r \in Process(p), NEW to, NEW d, NEW s, NEW o,
         Fact(r, to, d, s, o)
  PROVE  Fact(Moving(r, to), Moving(r, to).pc, d, s, o)
<1>0. ASSUME NEW pc, NEW call, Fact(r, pc, d, s, o)
      PROVE  LET a == [r EXCEPT !.pc = pc]
                 b == [r EXCEPT !.pc = pc, !.call = call] IN
             Fact(a, a.pc, d, s, o) /\ Fact(b, b.pc, d, s, o)
  <2> DEFINE a == [r EXCEPT !.pc = pc]
             b == [r EXCEPT !.pc = pc, !.call = call]
  <2>1. /\ a.pc = pc /\ a.mine = r.mine /\ a.todo = r.todo /\ a.lk = r.lk
        /\ a.hurt = r.hurt
        /\ b.pc = pc /\ b.mine = r.mine /\ b.todo = r.todo /\ b.lk = r.lk
        /\ b.hurt = r.hurt
    BY DEF Process
  <2> HIDE DEF a, b
  <2>2. Fact(a, pc, d, s, o) /\ Fact(b, pc, d, s, o)
    BY <1>0, <2>1, SameFact
  <2> QED BY <2>1, <2>2 DEF a, b
<1>1. CASE to = "over"
  BY <1>1, EndedFact DEF Moving
<1>2. Fact(r, "recover", d, s, o) /\ Fact(r, "i_tidy", d, s, o)
  BY NoFact DEF Anywhere
<1>3. CASE to = "recover"
  BY <1>0, <1>2, <1>3 DEF Moving
<1>4. CASE to = "cleared"
  <2>1. d.intent = NoIntent
    BY <1>4 DEF Fact, Closing
  <2> QED BY <1>4, <2>1, EndedFact, RecoveredFact DEF Moving
<1>5. CASE to = "pending"
  <2>1. r.hurt
    BY <1>5 DEF Fact, Closing
  <2>2. Fact(r, "r_fail", d, s, o)
    BY <2>1 DEF Fact, Unwinding, Closing, Opening, Publishing, Discarding, Open
  <2> QED BY <1>0, <1>2, <1>5, <2>2 DEF Moving
<1>6. CASE to = "m_fail"
  <2>1. Fact(r, "m_undo", d, s, o)
    BY <1>6 DEF Fact, Unwinding, Closing, Opening, Publishing, Discarding, Open
  <2> QED BY <1>0, <1>2, <1>6, <2>1 DEF Moving
<1>7. CASE to \notin {"over", "recover", "cleared", "pending", "m_fail"}
  BY <1>0, <1>7 DEF Moving
<1> QED BY <1>1, <1>3, <1>4, <1>5, <1>6, <1>7

LEMMA Goes ==
  ASSUME IntentInv, NEW p \in Procs, NEW to, NEW d, NEW s, NEW o,
         Goto(p, to), Fact(proc[p], to, d, s, o)
  PROVE  Fact(proc'[p], proc'[p].pc, d, s, o)
<1>1. proc[p] \in Process(p) /\ DOMAIN proc = Procs
  BY DEF IntentInv, Good
<1>2. proc'[p] = Moving(proc[p], to)
  BY <1>1 DEF Goto
<1> QED BY <1>1, <1>2, MovingFact

LEMMA Fails ==
  ASSUME IntentInv, NEW p \in Procs, NEW to, NEW d, NEW s, NEW o,
         Fault(p, to),
         to \in {"r_fail", "pending"} \/ Fact(proc[p], to, d, s, o)
  PROVE  Fact(proc'[p], proc'[p].pc, d, s, o)
<1> DEFINE r == [proc[p] EXCEPT !.hurt = TRUE]
<1>1. proc[p] \in Process(p) /\ DOMAIN proc = Procs
  BY DEF IntentInv, Good
<1>2. proc'[p] = Moving(r, to)
  BY <1>1 DEF Fault
<1>3. /\ r \in Process(p) /\ r.hurt = TRUE
      /\ r.mine = proc[p].mine /\ r.todo = proc[p].todo /\ r.lk = proc[p].lk
  BY <1>1 DEF Process
<1> HIDE DEF r
<1>4. Fact(r, to, d, s, o)
  BY <1>3, SameFact
<1> QED BY <1>2, <1>3, <1>4, MovingFact

(* The labels of the last steps, where nothing is under way any more.        *)
LEMMA SettledFact ==
  ASSUME NEW r, NEW to \in {"r_enable", "r_stage", "r_drop", "r_trust", "c_unlink"},
         NEW d, NEW s, NEW o, AllSettled(d, s, o)
  PROVE  Fact(r, to, d, s, o)
BY DEF Fact, Unwinding, Closing, Opening, Publishing, Discarding, Open

-----------------------------------------------------------------------------
(* The disks.                                                                *)

(* d and d2 differ in nothing the invariant speaks of.                       *)
Alike(d, d2) ==
  /\ d2.home = d.home /\ d2.trash = d.trash /\ d2.lock = d.lock
  /\ d2.intent = d.intent /\ d2.before = d.before

(* What fsync of a directory makes of the safe disk.                         *)
Syncs(dir, d, s, s2) ==
  /\ s2.home = IF dir = "state" THEN s.home ELSE d.home
  /\ s2.trash = IF dir = "state" THEN s.trash ELSE d.trash
  /\ s2.lock = IF dir = "data" THEN d.lock ELSE s.lock
  /\ s2.intent = IF dir = "state" THEN d.intent ELSE s.intent
  /\ s2.before = IF dir = "state" THEN d.before ELSE s.before
  /\ s2.trust = IF dir = "state" THEN d.trust ELSE s.trust

LEMMA FlushedSyncs ==
  ASSUME safe \in Disks, NEW d \in Disks, NEW dir \in {"root", "data", "state"}
  PROVE  Syncs(dir, d, safe, Flushed(d, dir))
BY DEF Disks, Flushed, Syncs, Files, Moved

(* The ghosts only grow.                                                     *)
Grows(o, o2) == o.strayed \subseteq o2.strayed /\ o.doubted \subseteq o2.doubted

LEMMA SettledGrows ==
  ASSUME NEW home, NEW trash, NEW lock, NEW o, NEW o2, Grows(o, o2),
         Settled(home, trash, lock, o)
  PROVE  Settled(home, trash, lock, o2)
BY DEF Settled, Whole, Grows

LEMMA PendingGrows ==
  ASSUME NEW i, NEW b, NEW home, NEW trash, NEW lock, NEW o, NEW o2, Grows(o, o2),
         Pending(i, b, home, trash, lock, o)
  PROVE  Pending(i, b, home, trash, lock, o2)
BY DEF Pending, Whole, Grows, Added, Taken

LEMMA SoundGrows ==
  ASSUME NEW m, NEW l, NEW t, NEW o, NEW o2, Grows(o, o2), Sound(m, l, t, o)
  PROVE  Sound(m, l, t, o2)
BY SettledGrows, PendingGrows DEF Sound

(* Disks whose parts were there before are as sound as before.               *)
SameMoves(m, m2) == m2.home = m.home /\ m2.trash = m.trash
SameState(t, t2) ==
  t2.intent = t.intent /\ (t.intent = NoIntent \/ t2.before = t.before)

LEMMA SoundSame ==
  ASSUME NEW m, NEW l, NEW t, NEW m2, NEW l2, NEW t2, NEW o, NEW o2, Grows(o, o2),
         SameMoves(m, m2), l2.lock = l.lock, SameState(t, t2), Sound(m, l, t, o)
  PROVE  Sound(m2, l2, t2, o2)
<1>1. Sound(m, l, t, o2)
  BY SoundGrows
<1> QED BY <1>1 DEF Sound, SameMoves, SameState

LEMMA AllSoundSame ==
  ASSUME NEW d, NEW s, NEW d2, NEW s2, NEW o, NEW o2, Grows(o, o2),
         \A m2 \in {d2, s2} : \E m \in {d, s} : SameMoves(m, m2),
         \A l2 \in {d2, s2} : \E l \in {d, s} : l2.lock = l.lock,
         \A t2 \in {d2, s2} : \E t \in {d, s} : SameState(t, t2),
         AllSound(d, s, o)
  PROVE  AllSound(d2, s2, o2)
<1> SUFFICES ASSUME NEW m2 \in {d2, s2}, NEW l2 \in {d2, s2}, NEW t2 \in {d2, s2}
             PROVE  Sound(m2, l2, t2, o2)
  BY DEF AllSound
<1>1. PICK m \in {d, s} : SameMoves(m, m2)
  OBVIOUS
<1>2. PICK l \in {d, s} : l2.lock = l.lock
  OBVIOUS
<1>3. PICK t \in {d, s} : SameState(t, t2)
  OBVIOUS
<1>4. Sound(m, l, t, o)
  BY DEF AllSound
<1> QED BY <1>1, <1>2, <1>3, <1>4, SoundSame

LEMMA AllSettledSame ==
  ASSUME NEW d, NEW s, NEW d2, NEW s2, NEW o, NEW o2, Grows(o, o2),
         \A m2 \in {d2, s2} : \E m \in {d, s} : SameMoves(m, m2),
         \A l2 \in {d2, s2} : \E l \in {d, s} : l2.lock = l.lock,
         AllSettled(d, s, o)
  PROVE  AllSettled(d2, s2, o2)
<1> SUFFICES ASSUME NEW m2 \in {d2, s2}, NEW l2 \in {d2, s2}
             PROVE  Settled(m2.home, m2.trash, l2.lock, o2)
  BY DEF AllSettled
<1>1. PICK m \in {d, s} : SameMoves(m, m2)
  OBVIOUS
<1>2. PICK l \in {d, s} : l2.lock = l.lock
  OBVIOUS
<1>3. Settled(m.home, m.trash, l.lock, o)
  BY DEF AllSettled
<1>4. Settled(m.home, m.trash, l.lock, o2)
  BY <1>3, SettledGrows
<1> QED BY <1>1, <1>2, <1>4 DEF SameMoves

(* Nothing of interest changed.                                              *)
LEMMA AlikeConsistent ==
  ASSUME NEW d, NEW s, NEW d2, NEW s2, NEW o, NEW o2, Grows(o, o2),
         Alike(d, d2), Alike(s, s2), Consistent(d, s, o)
  PROVE  Consistent(d2, s2, o2)
<1>1. AllSound(d2, s2, o2)
  BY AllSoundSame DEF Alike, SameMoves, SameState, Consistent
<1>2. LocksAgree(d2, s2, o2)
  BY DEF Consistent, LocksAgree, Alike, Grows
<1>3. Kept(d2, s2, o2) /\ OneIntent(d2, s2)
  BY DEF Consistent, Kept, OneIntent, Alike, Grows
<1> QED BY <1>1, <1>2, <1>3 DEF Consistent

LEMMA AlikeFact ==
  ASSUME NEW r, NEW to, NEW d, NEW s, NEW d2, NEW s2, NEW o,
         Alike(d, d2), Alike(s, s2), Fact(r, to, d, s, o)
  PROVE  Fact(r, to, d2, s2, o)
<1>0. AllSettled(d, s, o) => AllSettled(d2, s2, o)
  BY AllSettledSame DEF Alike, SameMoves, Grows
<1>1. Unwinding(r, to, d2, s2, o)
  BY <1>0 DEF Fact, Unwinding, Alike
<1>2. Closing(r, to, d2, s2, o) /\ Opening(r, to, d2, s2, o)
  BY <1>0 DEF Fact, Closing, Opening, Alike
<1>3. Publishing(r, to, d2, s2, o) /\ Discarding(r, to, d2, s2, o)
  BY <1>0 DEF Fact, Publishing, Discarding, Alike
<1> QED BY <1>1, <1>2, <1>3 DEF Fact

(* An fsync.                                                                 *)
LEMMA SyncConsistent ==
  ASSUME NEW d, NEW s, NEW d2, NEW s2, NEW o,
         NEW dir \in {"root", "data", "state"},
         Alike(d, d2), Syncs(dir, d2, s, s2), Consistent(d, s, o)
  PROVE  Consistent(d2, s2, o)
<1>0. SameMoves(d, d2) /\ d2.lock = d.lock /\ SameState(d, d2) /\ Grows(o, o)
  BY DEF Alike, SameMoves, SameState, Grows
<1>1. \E m \in {d, s} : SameMoves(m, s2)
  BY DEF Alike, Syncs, SameMoves
<1>2. \E l \in {d, s} : s2.lock = l.lock
  BY DEF Alike, Syncs
<1>3. \E t \in {d, s} : SameState(t, s2)
  BY DEF Alike, Syncs, SameState
<1>4. AllSound(d2, s2, o)
  BY <1>0, <1>1, <1>2, <1>3, AllSoundSame DEF Consistent
<1>5. LocksAgree(d2, s2, o)
  BY DEF Consistent, LocksAgree, Alike, Syncs
<1>6. Kept(d2, s2, o) /\ OneIntent(d2, s2)
  BY DEF Consistent, Kept, OneIntent, Alike, Syncs
<1> QED BY <1>4, <1>5, <1>6 DEF Consistent

LEMMA SyncSettled ==
  ASSUME NEW d, NEW s, NEW d2, NEW s2, NEW o, NEW dir, Alike(d, d2),
         Syncs(dir, d2, s, s2), AllSettled(d, s, o)
  PROVE  AllSettled(d2, s2, o)
<1>0. SameMoves(d, d2) /\ d2.lock = d.lock /\ Grows(o, o)
  BY DEF Alike, SameMoves, Grows
<1>1. \E m \in {d, s} : SameMoves(m, s2)
  BY DEF Alike, Syncs, SameMoves
<1>2. \E l \in {d, s} : s2.lock = l.lock
  BY DEF Alike, Syncs
<1> QED BY <1>0, <1>1, <1>2, AllSettledSame

(* Two disks that hold the same directories and the same lock.               *)
LEMMA SettledAll ==
  ASSUME NEW d, NEW s, NEW o, SameMoves(d, s), s.lock = d.lock,
         Settled(d.home, d.trash, d.lock, o)
  PROVE  AllSettled(d, s, o)
BY DEF AllSettled, SameMoves

-----------------------------------------------------------------------------
(* The system calls.                                                         *)

LEMMA Disky ==
  ASSUME RecoveryInv
  PROVE  /\ disk \in Disks /\ safe \in Disks
         /\ disk.intent \in Txn \union {NoIntent}
         /\ safe.intent \in Txn \union {NoIntent}
         /\ IntentInv /\ Consistent(disk, safe, odd)
BY DEF RecoveryInv, IntentInv, Disks

LEMMA Itself == ASSUME NEW d, NEW o PROVE Alike(d, d) /\ Grows(o, o)
BY DEF Alike, Grows

(* The failure of a step leaves it at a label where nothing is known, or     *)
(* where that much still holds.                                              *)
Harmless(p, to, d, s, o) ==
  to \in {"r_fail", "pending"} \/ Fact(proc[p], to, d, s, o)

LEMMA AlikeHarmless ==
  ASSUME NEW p, NEW to, NEW d, NEW s, NEW d2, NEW s2, NEW o,
         Alike(d, d2), Alike(s, s2), Harmless(p, to, d, s, o)
  PROVE  Harmless(p, to, d2, s2, o)
BY AlikeFact DEF Harmless

LEMMA FlushAdvances ==
  ASSUME RecoveryInv, NEW p \in Procs, NEW dir \in {"root", "data", "state"},
         NEW good, NEW bad, Flush(p, dir, good, bad), odd' = odd,
         \A s2 : Syncs(dir, disk, safe, s2) => Fact(proc[p], good, disk, s2, odd),
         Harmless(p, bad, disk, safe, odd)
  PROVE  Advances(p)
<1>1. CASE disk' = disk /\ safe' = Flushed(disk, dir) /\ Goto(p, good)
  <2>1. Syncs(dir, disk, safe, safe')
    BY <1>1, FlushedSyncs, Disky
  <2>2. Consistent(disk, safe', odd)
    BY <2>1, SyncConsistent, Itself, Disky
  <2>3. Fact(proc'[p], proc'[p].pc, disk, safe', odd)
    BY <1>1, <2>1, Goes, Disky
  <2> QED BY <1>1, <2>2, <2>3 DEF Advances
<1>2. CASE disk' = disk /\ safe' = safe /\ Fault(p, bad)
  <2>1. Fact(proc'[p], proc'[p].pc, disk, safe, odd)
    BY <1>2, Fails, Disky DEF Harmless
  <2> QED BY <1>2, <2>1, Disky DEF Advances
<1> QED BY <1>1, <1>2 DEF Flush

(* A step that changes nothing the invariant speaks of.                      *)
LEMMA PlainAdvances ==
  ASSUME RecoveryInv, NEW p \in Procs, NEW to, odd' = odd,
         Alike(disk, disk'), Alike(safe, safe'),
         \/ Goto(p, to) /\ Fact(proc[p], to, disk, safe, odd)
         \/ Fault(p, to) /\ Harmless(p, to, disk, safe, odd)
  PROVE  Advances(p)
<1>1. Consistent(disk', safe', odd)
  BY AlikeConsistent, Itself, Disky
<1>2. Fact(proc'[p], proc'[p].pc, disk, safe, odd)
  BY Goes, Fails, Disky DEF Harmless
<1>3. Fact(proc'[p], proc'[p].pc, disk', safe', odd)
  BY <1>2, AlikeFact
<1> QED BY <1>1, <1>3 DEF Advances

(* A write of a file the invariant does not speak of, or a change of the     *)
(* staging directories: the fsync that ends it is what counts.               *)
LEMMA SyncAdvances ==
  ASSUME RecoveryInv, NEW p \in Procs, NEW dir \in {"root", "data", "state"},
         NEW good, odd' = odd, Alike(disk, disk'), safe' = Flushed(disk', dir),
         disk' \in Disks, Goto(p, good),
         \A s2 : Syncs(dir, disk, safe, s2) => Fact(proc[p], good, disk, s2, odd)
  PROVE  Advances(p)
<1>1. Syncs(dir, disk', safe, safe')
  BY FlushedSyncs, Disky
<1>2. Consistent(disk', safe', odd)
  BY <1>1, SyncConsistent, Disky
<1> DEFINE s2 == [home |-> safe'.home, trash |-> safe'.trash, lock |-> safe'.lock,
                  intent |-> safe'.intent, before |-> safe'.before,
                  trust |-> IF dir = "state" THEN disk.trust ELSE safe.trust]
<1>3. Syncs(dir, disk, safe, s2) /\ Alike(s2, safe')
  BY <1>1 DEF Syncs, Alike
<1> HIDE DEF s2
<1>4. Fact(proc[p], good, disk, s2, odd)
  BY <1>3
<1>5. Fact(proc[p], good, disk', safe', odd)
  BY <1>3, <1>4, AlikeFact
<1>6. Fact(proc'[p], proc'[p].pc, disk', safe', odd)
  BY <1>5, Goes, Disky
<1> QED BY <1>2, <1>6 DEF Advances

LEMMA TrustAdvances ==
  ASSUME RecoveryInv, NEW p \in Procs, NEW v \in Trust,
         NEW good, NEW lost, NEW unsure,
         Write(p, "trust", v, good, lost, unsure), odd' = odd,
         \A s2 : Syncs("state", disk, safe, s2) => Fact(proc[p], good, disk, s2, odd),
         Harmless(p, lost, disk, safe, odd), Harmless(p, unsure, disk, safe, odd)
  PROVE  Advances(p)
<1> DEFINE new == [disk EXCEPT !["trust"] = v]
<1>1. new \in Disks /\ Alike(disk, new)
  BY Disky DEF Disks, Alike
<1> HIDE DEF new
<1>2. CASE disk' = new /\ safe' = Flushed(new, "state") /\ Goto(p, good)
  BY <1>1, <1>2, SyncAdvances
<1>3. CASE disk' = disk /\ safe' = safe /\ Fault(p, lost)
  BY <1>3, PlainAdvances, Itself
<1>4. CASE disk' = new /\ safe' = safe /\ Fault(p, unsure)
  BY <1>1, <1>4, PlainAdvances, Itself
<1> QED BY <1>2, <1>3, <1>4 DEF Write, new, DirOf

LEMMA RmStageAdvances ==
  ASSUME RecoveryInv, NEW p \in Procs, NEW who, NEW good, NEW bad,
         RmStage(p, who, good, bad), odd' = odd,
         \A s2 : Syncs("root", disk, safe, s2) => Fact(proc[p], good, disk, s2, odd),
         Harmless(p, bad, disk, safe, odd)
  PROVE  Advances(p)
<1> DEFINE new == [disk EXCEPT !.stage = @ \ {who}]
<1>1. new \in Disks /\ Alike(disk, new)
  BY Disky DEF Disks, Alike
<1> HIDE DEF new
<1>2. CASE disk' = new /\ safe' = Flushed(new, "root") /\ Goto(p, good)
  BY <1>1, <1>2, SyncAdvances
<1>3. CASE disk' \in {disk, new} /\ safe' = safe /\ Fault(p, bad)
  BY <1>1, <1>3, PlainAdvances, Itself
<1> QED BY <1>2, <1>3 DEF RmStage, new

(* A new lock.                                                               *)
Relocks(d, v, d2) ==
  /\ d2.home = d.home /\ d2.trash = d.trash /\ d2.lock = v
  /\ d2.intent = d.intent /\ d2.before = d.before /\ d2.trust = d.trust

(* The lock v would do, whatever a power loss keeps of the rest.             *)
Fitting(d, s, v, o) == \A m, t \in {d, s} : Sound(m, [lock |-> v], t, o)

Agreeing(v, s, o) ==
  \A n \in Names \ (o.strayed \union o.doubted) : n \in v <=> n \in s.lock

LEMMA RelockConsistent ==
  ASSUME NEW d, NEW s, NEW v, NEW d2, NEW s2, NEW o, NEW o2, Grows(o, o2),
         Consistent(d, s, o), Relocks(d, v, d2), Fitting(d, s, v, o2),
         \/ s2 = s /\ Agreeing(v, s, o2)
         \/ Syncs("data", d2, s, s2)
  PROVE  Consistent(d2, s2, o2)
<1>1. \A t2 \in {d2, s2} : \E t \in {d, s} : SameState(t, t2)
  BY DEF SameState, Relocks, Syncs
<1>2. \A m2 \in {d2, s2} : \E m \in {d, s} : SameMoves(m, m2)
  BY DEF SameMoves, Relocks, Syncs
<1>3. ASSUME NEW m2 \in {d2, s2}, NEW l2 \in {d2, s2}, NEW t2 \in {d2, s2}
      PROVE  Sound(m2, l2, t2, o2)
  <2>1. PICK m \in {d, s} : SameMoves(m, m2)
    BY <1>2
  <2>2. PICK t \in {d, s} : SameState(t, t2)
    BY <1>1
  <2>3. CASE l2.lock = v
    <3>1. Sound(m, [lock |-> v], t, o2)
      BY DEF Fitting
    <3> QED BY <2>1, <2>2, <2>3, <3>1, SoundSame, Itself
  <2>4. CASE l2.lock = s.lock
    <3>1. Sound(m, s, t, o)
      BY DEF Consistent, AllSound
    <3> QED BY <2>1, <2>2, <2>4, <3>1, SoundSame
  <2> QED BY <2>3, <2>4 DEF Relocks, Syncs
<1>4. AllSound(d2, s2, o2)
  BY <1>3 DEF AllSound
<1>5. LocksAgree(d2, s2, o2)
  BY DEF LocksAgree, Agreeing, Relocks, Syncs
<1>6. Kept(d2, s2, o2) /\ OneIntent(d2, s2)
  BY DEF Consistent, Kept, OneIntent, Relocks, Syncs, Grows
<1> QED BY <1>4, <1>5, <1>6 DEF Consistent

(* The three outcomes of writing a lock.                                     *)
LEMMA LockCases ==
  ASSUME RecoveryInv, NEW p, NEW v \in SUBSET Names,
         NEW good, NEW lost, NEW unsure, Write(p, "lock", v, good, lost, unsure)
  PROVE  \/ /\ Relocks(disk, v, disk') /\ Syncs("data", disk', safe, safe')
            /\ Goto(p, good)
         \/ disk' = disk /\ safe' = safe /\ Fault(p, lost)
         \/ Relocks(disk, v, disk') /\ safe' = safe /\ Fault(p, unsure)
<1> DEFINE new == [disk EXCEPT !["lock"] = v]
<1>1. new \in Disks /\ Relocks(disk, v, new)
  BY Disky DEF Disks, Relocks
<1> HIDE DEF new
<1>2. Syncs("data", new, safe, Flushed(new, "data"))
  BY <1>1, FlushedSyncs, Disky
<1> QED BY <1>1, <1>2 DEF Write, new, DirOf

(* What writing a lock must bring.                                           *)
LEMMA LockAdvances ==
  ASSUME RecoveryInv, NEW p \in Procs, NEW v \in SUBSET Names,
         NEW good, NEW lost, NEW unsure,
         Write(p, "lock", v, good, lost, unsure), Grows(odd, odd'),
         Fitting(disk, safe, v, odd'),
         left' # left => Agreeing(v, safe, odd'),
         \A d2, s2 : Relocks(disk, v, d2) /\ Syncs("data", d2, safe, s2) =>
                       Fact(proc[p], good, d2, s2, odd'),
         left' # left => Harmless(p, lost, disk, safe, odd'),
         \A d2 : left' # left /\ Relocks(disk, v, d2) =>
                   Harmless(p, unsure, d2, safe, odd')
  PROVE  Advances(p)
<1>0. ASSUME NEW to, Fault(p, to) PROVE left' # left
  BY <1>0 DEF Fault, RecoveryInv, IntentInv, Ghosts, Counts
<1>1. CASE /\ Relocks(disk, v, disk') /\ Syncs("data", disk', safe, safe')
           /\ Goto(p, good)
  <2>1. Consistent(disk', safe', odd')
    BY <1>1, RelockConsistent, Disky
  <2>2. Fact(proc'[p], proc'[p].pc, disk', safe', odd')
    BY <1>1, Goes, Disky
  <2> QED BY <2>1, <2>2 DEF Advances
<1>2. CASE disk' = disk /\ safe' = safe /\ Fault(p, lost)
  <2>1. Consistent(disk', safe', odd')
    BY <1>2, AlikeConsistent, Itself, Disky
  <2>2. Fact(proc'[p], proc'[p].pc, disk', safe', odd')
    BY <1>0, <1>2, Fails, Disky DEF Harmless
  <2> QED BY <2>1, <2>2 DEF Advances
<1>3. CASE Relocks(disk, v, disk') /\ safe' = safe /\ Fault(p, unsure)
  <2>1. Consistent(disk', safe', odd')
    BY <1>0, <1>3, RelockConsistent, Disky
  <2>2. Fact(proc'[p], proc'[p].pc, disk', safe', odd')
    BY <1>0, <1>3, Fails, Disky DEF Harmless
  <2> QED BY <2>1, <2>2 DEF Advances
<1> QED BY <1>1, <1>2, <1>3, LockCases

(* New directories.                                                          *)
Moves2(d, d2) ==
  /\ d2.lock = d.lock /\ d2.trust = d.trust
  /\ d2.intent = d.intent /\ d2.before = d.before

LEMMA MoveConsistent ==
  ASSUME NEW d, NEW s, NEW d2, NEW o, Consistent(d, s, o), Moves2(d, d2),
         \A l, t \in {d, s} : Sound(d2, l, t, o), Kept(d2, s, o)
  PROVE  Consistent(d2, s, o)
<1>1. ASSUME NEW m2 \in {d2, s}, NEW l2 \in {d2, s}, NEW t2 \in {d2, s}
      PROVE  Sound(m2, l2, t2, o)
  <2>1. PICK l \in {d, s} : l2.lock = l.lock
    BY DEF Moves2
  <2>2. PICK t \in {d, s} : SameState(t, t2)
    BY DEF Moves2, SameState
  <2>3. Sound(m2, l, t, o)
    BY DEF Consistent, AllSound
  <2>4. SameMoves(m2, m2)
    BY DEF SameMoves
  <2> QED BY <2>1, <2>2, <2>3, <2>4, SoundSame, Itself
<1>2. AllSound(d2, s, o)
  BY <1>1 DEF AllSound
<1>3. LocksAgree(d2, s, o) /\ OneIntent(d2, s)
  BY DEF Consistent, LocksAgree, OneIntent, Moves2
<1> QED BY <1>2, <1>3 DEF Consistent

-----------------------------------------------------------------------------
(* The recovery.                                                             *)

(* What is known while the transaction on the disk is being recovered.       *)
LEMMA Known ==
  ASSUME RecoveryInv, Alone = TRUE, NEW p \in Procs, proc[p].pc \in Undoing
  PROVE  LET i == proc[p].todo IN
         /\ i \in Txn /\ disk.intent = i /\ i # NoIntent
         /\ i.name \in Names /\ i.who \in Procs /\ i.op \in {"I", "R"}
         /\ disk.before # NoCopy /\ disk.before.lock \in SUBSET Names
         /\ disk.before.trust \in Trust
         /\ \A m, l \in {disk, safe} :
              Pending(i, disk.before.lock, m.home, m.trash, l.lock, odd)
         /\ safe.intent \in {i, NoIntent}
         /\ Fact(proc[p], proc[p].pc, disk, safe, odd)
<1> DEFINE i == proc[p].todo
<1>1. i \in Txn /\ disk.intent = i
  BY DEF RecoveryInv, IntentInv, Good, Fits
<1>2. i.name \in Names /\ i.who \in Procs /\ i.op \in {"I", "R"} /\ i # NoIntent
  BY <1>1 DEF Txn, NoIntent
<1> HIDE DEF i
<1>3. \A m, l \in {disk, safe} : Sound(m, l, disk, odd)
  BY Disky DEF Consistent, AllSound
<1>4. /\ disk.before # NoCopy
      /\ \A m, l \in {disk, safe} :
           Pending(i, disk.before.lock, m.home, m.trash, l.lock, odd)
  BY <1>1, <1>2, <1>3 DEF Sound
<1>5. disk.before.lock \in SUBSET Names /\ disk.before.trust \in Trust
  BY <1>4, Disky DEF Disks
<1>6. safe.intent \in {i, NoIntent}
  BY <1>1, <1>2, Disky DEF Consistent, OneIntent
<1>7. Fact(proc[p], proc[p].pc, disk, safe, odd)
  BY DEF RecoveryInv
<1> QED BY <1>1, <1>2, <1>4, <1>5, <1>6, <1>7 DEF i

LEMMA DecisionCases ==
  ASSUME NEW i, i.op \in {"I", "R"}
  PROVE  LET entry == i.name \in disk.lock
             there == disk.home[i.name] # "none" IN
         \/ Decision(i) = "r_flush" /\ i.op = "I" /\ entry /\ there
         \/ Decision(i) = "r_flush" /\ i.op = "R" /\ ~entry /\ ~there
         \/ Decision(i) = "r_rmdir" /\ i.op = "I" /\ ~entry /\ there
         \/ Decision(i) = "r_back" /\ i.op = "R" /\ entry /\ ~there
         \/ Decision(i) = "r_lock" /\ (i.op = "I" <=> ~there)
<1> DEFINE entry == i.name \in disk.lock
           there == disk.home[i.name] # "none"
<1>1. CASE i.op = "I" /\ entry /\ there
  BY <1>1 DEF Decision
<1>2. CASE i.op = "R" /\ ~entry /\ ~there
  BY <1>2 DEF Decision
<1>3. CASE i.op = "I" /\ ~entry /\ there
  BY <1>3 DEF Decision
<1>4. CASE i.op = "R" /\ entry /\ ~there
  BY <1>4 DEF Decision
<1>5. CASE i.op = "I" /\ ~there
  BY <1>5 DEF Decision
<1>6. CASE i.op = "R" /\ there
  BY <1>6 DEF Decision
<1> QED BY <1>1, <1>2, <1>3, <1>4, <1>5, <1>6

LEMMA RecoverAdvances ==
  ASSUME RecoveryInv, NEW p \in Procs, Recover(p) PROVE Advances(p)
<1>1. disk' = disk /\ safe' = safe /\ odd' = odd
  BY DEF Recover
<1>2. proc[p] \in Process(p) /\ DOMAIN proc = Procs
  BY Disky DEF IntentInv, Good
<1>3. CASE disk.intent = NoIntent
  <2>1. proc'[p] = Recovered(proc[p], TRUE)
    BY <1>2, <1>3 DEF Recover
  <2>2. Fact(proc'[p], proc'[p].pc, disk, safe, odd)
    BY <1>2, <1>3, <2>1, RecoveredFact
  <2> QED BY <1>1, <2>2, Disky DEF Advances
<1>4. CASE disk.intent # NoIntent
  <2> DEFINE i == disk.intent
             to == Decision(i)
             r == [proc[p] EXCEPT !.todo = i, !.pc = to]
  <2>1. proc'[p] = r /\ r.todo = i /\ r.pc = to
    BY <1>2, <1>4 DEF Recover, Process
  <2>2. i.op \in {"I", "R"}
    BY <1>4, Disky DEF Txn
  <2> HIDE DEF r
  <2>3. Fact(r, to, disk, safe, odd)
    <3>1. Unwinding(r, to, disk, safe, odd)
      BY <2>1, <2>2, DecisionCases DEF Unwinding
    <3>2. to \in {"r_flush", "r_rmdir", "r_back", "r_lock"}
      BY <2>2, DecisionCases
    <3> HIDE DEF to
    <3> QED BY <3>1, <3>2
        DEF Fact, Closing, Opening, Publishing, Discarding, Open
  <2> QED BY <1>1, <2>1, <2>3, Disky DEF Advances
<1> QED BY <1>3, <1>4

(* Both ways of ending a transaction settle the plugin.                      *)
LEMMA ForwardSettles ==
  ASSUME NEW i, NEW b, NEW home, NEW trash, NEW lock, NEW o, i.op = "I",
         Pending(i, b, home, trash, lock, o),
         i.name \in lock, home[i.name] # "none"
  PROVE  Settled(home, trash, lock, o)
BY DEF Pending, Settled, Whole, Added

LEMMA DropSettles ==
  ASSUME NEW i, NEW b, NEW home, NEW trash, NEW lock, NEW o, i.op = "R",
         Pending(i, b, home, trash, lock, o),
         i.name \notin lock, home[i.name] = "none" \/ i.name \in o.strayed,
         trash[i.who] = "none"
  PROVE  Settled(home, trash, lock, o)
BY DEF Pending, Settled, Whole, Taken

(* Directories that moved.                                                   *)
MovesTo(d, home, trash, d2) ==
  d2.home = home /\ d2.trash = trash /\ Moves2(d, d2)

Rehome(d, n, v, d2) == MovesTo(d, [d.home EXCEPT ![n] = v], d.trash, d2)
Retrash(d, q, v, d2) == MovesTo(d, d.home, [d.trash EXCEPT ![q] = v], d2)

LEMMA HomeCases ==
  ASSUME RecoveryInv, NEW p, NEW n \in Names, NEW good, NEW bad,
         RmTree(p, "home", n, good, bad)
  PROVE  /\ safe' = safe
         /\ \/ /\ disk.home[n] = "whole" /\ Rehome(disk, n, "part", disk')
               /\ Goto(p, proc[p].pc)
            \/ /\ disk.home[n] = "part" /\ Rehome(disk, n, "none", disk')
               /\ Goto(p, good)
            \/ disk.home[n] = "none" /\ disk' = disk /\ Goto(p, bad)
            \/ disk.home[n] # "none" /\ disk' = disk /\ Fault(p, bad)
<1>1. ASSUME NEW v PROVE Rehome(disk, n, v, [disk EXCEPT !["home"][n] = v])
  BY Disky DEF Disks, Rehome, MovesTo, Moves2
<1> QED BY <1>1 DEF RmTree

LEMMA TrashCases ==
  ASSUME RecoveryInv, NEW p, NEW q \in Procs, NEW good, NEW bad,
         RmTree(p, "trash", q, good, bad)
  PROVE  /\ safe' = safe
         /\ \/ /\ disk.trash[q] = "whole" /\ Retrash(disk, q, "part", disk')
               /\ Goto(p, proc[p].pc)
            \/ /\ disk.trash[q] = "part" /\ Retrash(disk, q, "none", disk')
               /\ Goto(p, good)
            \/ disk.trash[q] = "none" /\ disk' = disk /\ Goto(p, bad)
            \/ disk.trash[q] # "none" /\ disk' = disk /\ Fault(p, bad)
<1>1. ASSUME NEW v PROVE Retrash(disk, q, v, [disk EXCEPT !["trash"][q] = v])
  BY Disky DEF Disks, Retrash, MovesTo, Moves2
<1> QED BY <1>1 DEF RmTree

LEMMA RenameCases ==
  ASSUME RecoveryInv, NEW n \in Names, NEW q \in Procs
  PROVE  /\ MovesTo(disk, [disk.home EXCEPT ![n] = "none"],
                    [disk.trash EXCEPT ![q] = disk.home[n]],
                    Rename(disk, n, q, TRUE))
         /\ MovesTo(disk, [disk.home EXCEPT ![n] = disk.trash[q]],
                    [disk.trash EXCEPT ![q] = "none"],
                    Rename(disk, n, q, FALSE))
BY Disky DEF Disks, MovesTo, Moves2, Rename

LEMMA Domains ==
  ASSUME RecoveryInv
  PROVE  /\ disk.home \in [Names -> Tree] /\ disk.trash \in [Procs -> Tree]
         /\ safe.home \in [Names -> Tree] /\ safe.trash \in [Procs -> Tree]
         /\ disk.lock \in SUBSET Names /\ safe.lock \in SUBSET Names
BY Disky DEF Disks

(* The removal of a directory from the trash, whoever does it: the plugin is *)
(* in no lock any more.                                                      *)
LEMMA TrashConsistent ==
  ASSUME RecoveryInv, NEW i \in Txn, disk.intent = i, i.op = "R",
         safe.intent \in {i, NoIntent}, disk.trash[i.who] # "none",
         i.name \notin disk.lock, i.name \notin safe.lock, disk.home[i.name] = "none",
         NEW v, NEW d2, Retrash(disk, i.who, v, d2)
  PROVE  Consistent(d2, safe, odd)
<1>1. i.name \in Names /\ i.who \in Procs /\ i # NoIntent
  BY DEF Txn, NoIntent
<1>2. /\ d2.home = disk.home /\ \A q \in Procs \ {i.who} : d2.trash[q] = disk.trash[q]
      /\ Moves2(disk, d2)
  BY Domains DEF Retrash, MovesTo
<1>3. ASSUME NEW l \in {disk, safe}, NEW t \in {disk, safe} PROVE Sound(d2, l, t, odd)
  <2>1. Sound(disk, l, t, odd)
    BY Disky DEF Consistent, AllSound
  <2>2. t.intent = i
    BY <1>1, <2>1 DEF Sound, Settled
  <2>3. Pending(i, t.before.lock, disk.home, disk.trash, l.lock, odd)
    BY <1>1, <2>1, <2>2 DEF Sound
  <2>4. Pending(i, t.before.lock, d2.home, d2.trash, l.lock, odd)
    BY <1>1, <1>2, <2>3 DEF Pending, Taken
  <2> QED BY <1>1, <2>1, <2>2, <2>4 DEF Sound
<1>4. Kept(d2, safe, odd)
  BY <1>1, <1>2, Disky DEF Consistent, Kept, Moves2
<1> QED BY <1>2, <1>3, <1>4, MoveConsistent, Disky

LEMMA ForwardAdvances ==
  ASSUME RecoveryInv, Alone = TRUE, NEW p \in Procs, Forward(p) PROVE Advances(p)
<1> DEFINE r == proc[p]
           i == r.todo
<1>0. odd' = odd /\ Todo(p) = i /\ r.pc \in Undoing
  BY DEF Forward, Todo, At, Undoing
<1>1. /\ i \in Txn /\ disk.intent = i /\ i # NoIntent
      /\ i.name \in Names /\ i.who \in Procs /\ i.op \in {"I", "R"}
      /\ \A m, l \in {disk, safe} :
           Pending(i, disk.before.lock, m.home, m.trash, l.lock, odd)
      /\ safe.intent \in {i, NoIntent}
      /\ Fact(r, r.pc, disk, safe, odd)
  BY <1>0, Known
<1>2. \A v \in {"unset", "on"} : [disk.trust EXCEPT ![i.name] = v] \in Trust
  BY Remembered, TrustSet, Disky
<1>3. Harmless(p, "r_fail", disk, safe, odd)
  BY DEF Harmless
<1>4. CASE /\ At(p, "r_flush")
           /\ Flush(p, "data", IF i.op = "R" THEN "r_rmtrash"
                               ELSE IF i.flag THEN "r_enable" ELSE "r_stage", "r_fail")
  <2>1. Unwinding(r, "r_flush", disk, safe, odd)
    BY <1>1, <1>4 DEF Fact, At
  <2>2. ASSUME NEW s2, Syncs("data", disk, safe, s2), i.op = "R"
        PROVE  Fact(r, "r_rmtrash", disk, s2, odd)
    <3> HIDE DEF r
    <3> QED BY <2>1, <2>2
        DEF Fact, Unwinding, Closing, Opening, Publishing, Discarding, Open, Syncs
  <2>3. ASSUME NEW s2, Syncs("data", disk, safe, s2), i.op = "I",
               NEW to \in {"r_enable", "r_stage"}
        PROVE  Fact(r, to, disk, s2, odd)
    <3>1. Settled(disk.home, disk.trash, disk.lock, odd)
      BY <1>1, <2>1, <2>3, ForwardSettles DEF Unwinding
    <3>2. AllSettled(disk, s2, odd)
      BY <2>3, <3>1, SettledAll DEF Syncs, SameMoves
    <3> QED BY <3>2, SettledFact
  <2> QED BY <1>0, <1>1, <1>3, <1>4, <2>2, <2>3, FlushAdvances
<1>5. CASE /\ At(p, "r_enable")
           /\ Write(p, "trust", [disk.trust EXCEPT ![i.name] = "on"], "r_stage",
                    "r_fail", "r_fail")
  <2>1. AllSettled(disk, safe, odd)
    BY <1>1, <1>5 DEF Fact, Unwinding, At
  <2>2. ASSUME NEW s2, Syncs("state", disk, safe, s2)
        PROVE  Fact(r, "r_stage", disk, s2, odd)
    <3>1. AllSettled(disk, s2, odd)
      BY <2>1, <2>2, SyncSettled, Itself
    <3> QED BY <3>1, SettledFact
  <2> QED BY <1>0, <1>2, <1>3, <1>5, <2>2, TrustAdvances
<1>6. CASE /\ At(p, "r_rmtrash") /\ disk.trash[i.who] # "none"
           /\ RmTree(p, "trash", i.who, "r_rmsync", "r_fail")
  <2>1. /\ i.op = "R" /\ i.name \notin disk.lock /\ i.name \notin safe.lock
        /\ disk.home[i.name] = "none" /\ safe.home[i.name] = "none"
    BY <1>1, <1>6 DEF Fact, Unwinding, At
  <2>2. safe' = safe
    BY <1>1, <1>6, TrashCases
  <2>3. CASE Retrash(disk, i.who, "part", disk') /\ Goto(p, r.pc)
    <3>1. Fact(r, "r_rmtrash", disk', safe, odd)
      <4>1. disk'.lock = disk.lock /\ disk'.home = disk.home
        BY <2>3 DEF Retrash, MovesTo, Moves2
      <4> HIDE DEF r
      <4> QED BY <2>1, <4>1
          DEF Fact, Unwinding, Closing, Opening, Publishing, Discarding, Open
    <3>2. Consistent(disk', safe, odd)
      BY <1>1, <1>6, <2>1, <2>3, TrashConsistent
    <3> QED BY <1>0, <1>6, <2>2, <2>3, <3>1, <3>2, Goes, Disky DEF Advances, At
  <2>4. CASE Retrash(disk, i.who, "none", disk') /\ Goto(p, "r_rmsync")
    <3>1. Fact(r, "r_rmsync", disk', safe, odd)
      <4>1. disk'.lock = disk.lock /\ disk'.home = disk.home
            /\ disk'.trash[i.who] = "none"
        BY <1>1, <2>4, Domains DEF Retrash, MovesTo, Moves2
      <4> HIDE DEF r
      <4> QED BY <2>1, <4>1
          DEF Fact, Unwinding, Closing, Opening, Publishing, Discarding, Open
    <3>2. Consistent(disk', safe, odd)
      BY <1>1, <1>6, <2>1, <2>4, TrashConsistent
    <3> QED BY <1>0, <2>2, <2>4, <3>1, <3>2, Goes, Disky DEF Advances
  <2>5. CASE disk' = disk /\ Fault(p, "r_fail")
    BY <1>0, <1>3, <2>2, <2>5, PlainAdvances, Itself
  <2> QED BY <1>1, <1>6, <2>3, <2>4, <2>5, TrashCases
<1>7. CASE /\ \/ At(p, "r_rmtrash") /\ disk.trash[i.who] = "none"
              \/ At(p, "r_rmsync")
           /\ Flush(p, "data", IF i.flag THEN "c_unlink" ELSE "r_drop", "r_fail")
  <2>1. /\ i.op = "R" /\ i.name \notin disk.lock /\ disk.home[i.name] = "none"
        /\ disk.trash[i.who] = "none"
    BY <1>1, <1>7 DEF Fact, Unwinding, At
  <2>2. Settled(disk.home, disk.trash, disk.lock, odd)
    BY <1>1, <2>1, DropSettles
  <2>3. ASSUME NEW s2, Syncs("data", disk, safe, s2), NEW to \in {"c_unlink", "r_drop"}
        PROVE  Fact(r, to, disk, s2, odd)
    <3>1. AllSettled(disk, s2, odd)
      BY <2>2, <2>3, SettledAll DEF Syncs, SameMoves
    <3> QED BY <3>1, SettledFact
  <2> QED BY <1>0, <1>3, <1>7, <2>3, FlushAdvances
<1>8. CASE /\ At(p, "r_drop")
           /\ Write(p, "trust", [disk.trust EXCEPT ![i.name] = "unset"],
                    "c_unlink", "r_fail", "r_fail")
  <2>1. AllSettled(disk, safe, odd)
    BY <1>1, <1>8 DEF Fact, Unwinding, At
  <2>2. ASSUME NEW s2, Syncs("state", disk, safe, s2)
        PROVE  Fact(r, "c_unlink", disk, s2, odd)
    <3>1. AllSettled(disk, s2, odd)
      BY <2>1, <2>2, SyncSettled, Itself
    <3> QED BY <3>1, SettledFact
  <2> QED BY <1>0, <1>2, <1>3, <1>8, <2>2, TrustAdvances
<1> QED BY <1>0, <1>4, <1>5, <1>6, <1>7, <1>8 DEF Forward

(* The lock is put back as the copy has it.                                  *)
LEMMA OldLockFits ==
  ASSUME NEW d, NEW s, NEW o, NEW i \in Txn, Consistent(d, s, o), d.intent = i,
         i.op = "I" <=> d.home[i.name] = "none",
         s.intent \in {i, NoIntent}
  PROVE  LET v == d.before.lock IN
         /\ Fitting(d, s, v, o) /\ Agreeing(v, s, o)
         /\ Settled(d.home, d.trash, v, o)
<1> DEFINE v == d.before.lock
           n == i.name
           q == i.who
<1>1. n \in Names /\ q \in Procs /\ i # NoIntent /\ i.op \in {"I", "R"}
  BY DEF Txn, NoIntent
<1>2. \A m, l, t \in {d, s} : Sound(m, l, t, o)
  BY DEF Consistent, AllSound
<1>3. \A m, l \in {d, s} : Pending(i, v, m.home, m.trash, l.lock, o)
  BY <1>1, <1>2 DEF Sound
<1>4. ASSUME NEW m \in {d, s}, NEW k \in Names \ o.strayed, k # n
      PROVE  /\ Whole(k, m.home, v, o)
             /\ k \in v <=> k \in d.lock
             /\ k \in v <=> k \in s.lock
  <2>1. Whole(k, m.home, d.lock, o) /\ (k \in d.lock <=> k \in v)
    BY <1>3, <1>4 DEF Pending
  <2>2. k \in s.lock <=> k \in v
    BY <1>3, <1>4 DEF Pending
  <2> QED BY <2>1, <2>2 DEF Whole
<1>5. ASSUME i.op = "I", n \notin o.strayed PROVE n \notin v
  BY <1>3, <1>5 DEF Pending, Added
<1>6. ASSUME i.op = "R", n \notin o.strayed, NEW m \in {d, s}
      PROVE  /\ n \in v
             /\ m.home[n] # "none" \/ m.trash[q] # "none"
             /\ m.home[n] = "part" \/ m.trash[q] = "part" => n \in o.doubted
  <2>1. n \in v /\ (n \notin d.lock => n \in o.doubted)
    BY <1>3, <1>6 DEF Pending, Taken
  <2>2. n \in d.lock =>
          (m.home[n] = "part" \/ m.trash[q] = "part" => n \in o.doubted)
    BY <1>3, <1>6 DEF Pending, Taken
  <2>3. m.home[n] # "none" \/ m.trash[q] # "none"
    BY <1>1, <1>6 DEF Consistent, Kept
  <2> QED BY <2>1, <2>2, <2>3
<1>7. ASSUME NEW m \in {d, s}, NEW t \in {d, s}
      PROVE  Sound(m, [lock |-> v], t, o)
  <2>1. CASE t.intent = i
    <3>1. \A l \in {d, s} : Pending(i, t.before.lock, m.home, m.trash, l.lock, o)
          /\ t.before # NoCopy
      BY <1>1, <1>2, <2>1 DEF Sound
    <3>2. \A k \in Names \ o.strayed : k # n =>
            Whole(k, m.home, v, o) /\ (k \in v <=> k \in t.before.lock)
      BY <1>4, <3>1 DEF Pending
    <3>3. CASE i.op = "I"
      <4>1. n \notin o.strayed => Added(n, t.before.lock, m.home, v, o)
        BY <1>5, <3>1, <3>3 DEF Pending, Added
      <4>2. Pending(i, t.before.lock, m.home, m.trash, v, o)
        BY <3>1, <3>2, <3>3, <4>1 DEF Pending
      <4> QED BY <1>1, <2>1, <3>1, <4>2 DEF Sound
    <3>4. CASE i.op = "R"
      <4>1. n \notin o.strayed =>
              Taken(n, q, t.before.lock, m.home, m.trash, v, o)
        BY <1>6, <3>1, <3>4 DEF Pending, Taken
      <4>2. Pending(i, t.before.lock, m.home, m.trash, v, o)
        BY <3>1, <3>2, <3>4, <4>1 DEF Pending
      <4> QED BY <1>1, <2>1, <3>1, <4>2 DEF Sound
    <3> QED BY <1>1, <3>3, <3>4
  <2>2. CASE t.intent = NoIntent
    <3>1. \A m2, l \in {d, s} : Settled(m2.home, m2.trash, l.lock, o)
      BY <1>2, <2>2 DEF Sound
    <3>2. ASSUME n \notin o.strayed PROVE Whole(n, m.home, v, o)
      <4>1. \A m2 \in {d, s} : n \in d.lock <=> m2.home[n] # "none"
        BY <1>1, <3>1, <3>2 DEF Settled, Whole
      <4>2. m.home[n] = "part" => n \in o.doubted
        BY <1>1, <3>1, <3>2 DEF Settled, Whole
      <4>3. n \in v <=> d.home[n] # "none"
        BY <1>1, <1>5, <1>6, <3>2
      <4> QED BY <4>1, <4>2, <4>3 DEF Whole
    <3>3. Settled(m.home, m.trash, v, o)
      BY <1>4, <3>1, <3>2 DEF Settled
    <3> QED BY <1>1, <2>2, <3>3 DEF Sound
  <2> QED BY <2>1, <2>2
<1>8. Fitting(d, s, v, o)
  BY <1>7 DEF Fitting
<1>9. Agreeing(v, s, o)
  <2>1. ASSUME n \notin o.strayed \union o.doubted PROVE n \in v <=> n \in s.lock
    <3>1. CASE i.op = "I"
      BY <1>3, <1>5, <2>1, <3>1 DEF Pending, Added
    <3>2. CASE i.op = "R"
      BY <1>3, <1>6, <2>1, <3>2 DEF Pending, Taken
    <3> QED BY <1>1, <3>1, <3>2
  <2> QED BY <1>4, <2>1 DEF Agreeing
<1>10. Settled(d.home, d.trash, v, o)
  <2>1. \A x \in Procs : d.trash[x] = "none"
    BY <1>1, <1>3 DEF Pending
  <2>2. ASSUME n \notin o.strayed PROVE Whole(n, d.home, v, o)
    BY <1>1, <1>5, <1>6, <2>2 DEF Whole
  <2> QED BY <1>4, <2>1, <2>2 DEF Settled
<1> QED BY <1>8, <1>9, <1>10

(* The directory of an install comes or goes: no lock has it but one whose   *)
(* writing failed.                                                           *)
LEMMA HomeConsistent ==
  ASSUME RecoveryInv, NEW i \in Txn, disk.intent = i, i.op = "I",
         safe.intent \in {i, NoIntent},
         \A l \in {disk, safe} :
           i.name \in l.lock => i.name \in odd.strayed \union odd.doubted,
         safe.intent = NoIntent => i.name \notin disk.lock /\ disk.home[i.name] # "none",
         NEW v, NEW d2, Rehome(disk, i.name, v, d2)
  PROVE  Consistent(d2, safe, odd)
<1> DEFINE n == i.name
<1>1. n \in Names /\ i.who \in Procs /\ i # NoIntent
  BY DEF Txn, NoIntent
<1>2. /\ d2.trash = disk.trash /\ \A k \in Names \ {n} : d2.home[k] = disk.home[k]
      /\ Moves2(disk, d2)
  BY Domains DEF Rehome, MovesTo
<1>3. ASSUME NEW l \in {disk, safe}, NEW t \in {disk, safe} PROVE Sound(d2, l, t, odd)
  <2>1. Sound(disk, l, t, odd) /\ Sound(disk, disk, t, odd)
    BY Disky DEF Consistent, AllSound
  <2>2. CASE t.intent = i
    <3>1. Pending(i, t.before.lock, disk.home, disk.trash, l.lock, odd)
      BY <1>1, <2>1, <2>2 DEF Sound
    <3>2. Pending(i, t.before.lock, d2.home, d2.trash, l.lock, odd)
      BY <1>1, <1>2, <3>1 DEF Pending, Added, Whole
    <3> QED BY <1>1, <2>1, <2>2, <3>2 DEF Sound
  <2>3. CASE t.intent = NoIntent
    <3>1. Settled(disk.home, disk.trash, l.lock, odd) /\ n \in odd.strayed
      BY <1>1, <2>1, <2>3 DEF Sound, Settled, Whole
    <3>2. Settled(d2.home, d2.trash, l.lock, odd)
      BY <1>2, <3>1 DEF Settled, Whole
    <3> QED BY <2>3, <3>2 DEF Sound
  <2> QED BY <2>2, <2>3
<1>4. Kept(d2, safe, odd)
  BY <1>1, <1>2 DEF Kept, Moves2
<1> QED BY <1>2, <1>3, <1>4, MoveConsistent, Disky

(* A directory that comes back from the trash.                               *)
LEMMA BackConsistent ==
  ASSUME RecoveryInv, NEW i \in Txn, disk.intent = i, i.op = "R",
         safe.intent \in {i, NoIntent},
         disk.home[i.name] = "none", disk.trash[i.who] # "none",
         i.name \in odd.strayed \union odd.doubted
           \/ (i.name \in disk.lock /\ i.name \in safe.lock),
         NEW d2, MovesTo(disk, [disk.home EXCEPT ![i.name] = disk.trash[i.who]],
                         [disk.trash EXCEPT ![i.who] = "none"], d2)
  PROVE  Consistent(d2, safe, odd)
<1> DEFINE n == i.name
           q == i.who
<1>1. n \in Names /\ q \in Procs /\ i # NoIntent
  BY DEF Txn, NoIntent
<1>2. /\ \A k \in Names \ {n} : d2.home[k] = disk.home[k]
      /\ \A x \in Procs \ {q} : d2.trash[x] = disk.trash[x]
      /\ d2.home[n] = disk.trash[q] /\ d2.trash[q] = "none"
      /\ Moves2(disk, d2)
  BY <1>1, Domains DEF MovesTo
<1>3. ASSUME NEW l \in {disk, safe}, NEW t \in {disk, safe} PROVE Sound(d2, l, t, odd)
  <2>1. Sound(disk, l, t, odd)
    BY Disky DEF Consistent, AllSound
  <2>2. t.intent = i
    BY <1>1, <2>1 DEF Sound, Settled
  <2>3. Pending(i, t.before.lock, disk.home, disk.trash, l.lock, odd)
    BY <1>1, <2>1, <2>2 DEF Sound
  <2>4. Pending(i, t.before.lock, d2.home, d2.trash, l.lock, odd)
    BY <1>1, <1>2, <2>3 DEF Pending, Taken, Whole
  <2> QED BY <1>1, <2>1, <2>2, <2>4 DEF Sound
<1>4. Kept(d2, safe, odd)
  BY <1>1, <1>2, Disky DEF Consistent, Kept, Moves2
<1> QED BY <1>2, <1>3, <1>4, MoveConsistent, Disky

LEMMA BackAdvances ==
  ASSUME RecoveryInv, Alone = TRUE, NEW p \in Procs, Back(p) PROVE Advances(p)
<1> DEFINE r == proc[p]
           i == r.todo
           n == i.name
<1>0. Todo(p) = i /\ r.pc \in Undoing
  BY DEF Back, Todo, At, Undoing
<1>1. /\ i \in Txn /\ disk.intent = i /\ i # NoIntent
      /\ n \in Names /\ i.who \in Procs /\ i.op \in {"I", "R"}
      /\ disk.before # NoCopy /\ disk.before.lock \in SUBSET Names
      /\ disk.before.trust \in Trust
      /\ \A m, l \in {disk, safe} :
           Pending(i, disk.before.lock, m.home, m.trash, l.lock, odd)
      /\ safe.intent \in {i, NoIntent}
      /\ Unwinding(r, r.pc, disk, safe, odd)
  BY <1>0, Known DEF Fact
<1>2. Harmless(p, "r_fail", disk, safe, odd)
  BY DEF Harmless
<1>3. CASE /\ At(p, "r_rmdir") /\ odd' = odd
           /\ RmTree(p, "home", n, "r_rmdirsync", "r_fail")
  <2>1. i.op = "I" /\ n \notin disk.lock /\ disk.home[n] # "none"
    BY <1>1, <1>3 DEF Unwinding, At
  <2>2. safe' = safe
    BY <1>1, <1>3, HomeCases
  <2>3. \A l \in {disk, safe} : n \in l.lock => n \in odd.strayed \union odd.doubted
    BY <1>1, <2>1, Disky DEF Consistent, LocksAgree
  <2>4. ASSUME NEW v, Rehome(disk, n, v, disk')
        PROVE  /\ Consistent(disk', safe, odd)
               /\ disk'.home[n] = v /\ disk'.lock = disk.lock
    <3>1. Consistent(disk', safe, odd)
      BY <1>1, <2>1, <2>3, <2>4, HomeConsistent
    <3> QED BY <1>1, <2>4, <3>1, Domains DEF Rehome, MovesTo, Moves2
  <2>5. CASE Rehome(disk, n, "part", disk') /\ Goto(p, r.pc)
    <3>1. Fact(r, "r_rmdir", disk', safe, odd)
      <4>1. n \notin disk'.lock /\ disk'.home[n] # "none"
        BY <2>1, <2>4, <2>5
      <4> HIDE DEF r
      <4> QED BY <2>1, <4>1
          DEF Fact, Unwinding, Closing, Opening, Publishing, Discarding, Open
    <3> QED BY <1>3, <2>2, <2>4, <2>5, <3>1, Goes, Disky DEF Advances, At
  <2>6. CASE Rehome(disk, n, "none", disk') /\ Goto(p, "r_rmdirsync")
    <3>1. Fact(r, "r_rmdirsync", disk', safe, odd)
      <4>1. disk'.home[n] = "none"
        BY <2>4, <2>6
      <4> HIDE DEF r
      <4> QED BY <2>1, <4>1
          DEF Fact, Unwinding, Closing, Opening, Publishing, Discarding, Open
    <3> QED BY <1>3, <2>2, <2>4, <2>6, <3>1, Goes, Disky DEF Advances
  <2>7. CASE disk' = disk /\ Fault(p, "r_fail")
    BY <1>2, <1>3, <2>2, <2>7, PlainAdvances, Itself
  <2> QED BY <1>1, <1>3, <2>1, <2>5, <2>6, <2>7, HomeCases
<1>4. CASE /\ At(p, "r_rmdirsync") /\ odd' = odd
           /\ Flush(p, "root", "r_lock", "r_fail")
  <2>1. i.op = "I" /\ disk.home[n] = "none"
    BY <1>1, <1>4 DEF Unwinding, At
  <2>2. ASSUME NEW s2 PROVE Fact(r, "r_lock", disk, s2, odd)
    <3> HIDE DEF r
    <3> QED BY <2>1
        DEF Fact, Unwinding, Closing, Opening, Publishing, Discarding, Open
  <2> QED BY <1>2, <1>4, <2>2, FlushAdvances
<1>5. CASE /\ At(p, "r_back") /\ UNCHANGED <<safe, odd>>
           /\ \/ /\ disk.trash[i.who] # "none"
                 /\ disk' = Rename(disk, n, i.who, FALSE)
                 /\ Goto(p, "r_backroot")
              \/ /\ UNCHANGED disk /\ disk.trash[i.who] = "none"
                 /\ Goto(p, "r_fail")
              \/ /\ UNCHANGED disk /\ disk.trash[i.who] # "none"
                 /\ Fault(p, "r_fail")
  <2>1. i.op = "R" /\ n \in disk.lock /\ disk.home[n] = "none"
    BY <1>1, <1>5 DEF Unwinding, At
  <2>2. CASE /\ disk.trash[i.who] # "none"
             /\ disk' = Rename(disk, n, i.who, FALSE)
             /\ Goto(p, "r_backroot")
    <3>1. MovesTo(disk, [disk.home EXCEPT ![n] = disk.trash[i.who]],
                  [disk.trash EXCEPT ![i.who] = "none"], disk')
      BY <1>1, <2>2, RenameCases
    <3>2. n \in odd.strayed \union odd.doubted \/ (n \in disk.lock /\ n \in safe.lock)
      BY <1>1, <2>1, Disky DEF Consistent, LocksAgree
    <3>3. Consistent(disk', safe, odd)
      BY <1>1, <2>1, <2>2, <3>1, <3>2, BackConsistent
    <3>4. disk'.home[n] # "none"
      BY <1>1, <2>2, <3>1, Domains DEF MovesTo
    <3>5. Fact(r, "r_backroot", disk', safe, odd)
      <4> HIDE DEF r
      <4> QED BY <2>1, <3>4
          DEF Fact, Unwinding, Closing, Opening, Publishing, Discarding, Open
    <3> QED BY <1>5, <2>2, <3>3, <3>5, Goes, Disky DEF Advances
  <2>3. CASE disk' = disk /\ disk.trash[i.who] = "none" /\ Goto(p, "r_fail")
    <3>1. n \in odd.strayed
      BY <1>1, <2>1, <2>3 DEF Pending, Taken
    <3>2. Fact(r, "r_fail", disk, safe, odd)
      <4> HIDE DEF r
      <4> QED BY <2>1, <2>3, <3>1
          DEF Fact, Unwinding, Closing, Opening, Publishing, Discarding, Open
    <3> QED BY <1>5, <2>3, <3>2, PlainAdvances, Itself
  <2>4. CASE disk' = disk /\ Fault(p, "r_fail")
    BY <1>2, <1>5, <2>4, PlainAdvances, Itself
  <2> QED BY <1>5, <2>2, <2>3, <2>4
<1>6. CASE /\ odd' = odd
           /\ \/ At(p, "r_backroot") /\ Flush(p, "root", "r_backdata", "r_fail")
              \/ At(p, "r_backdata") /\ Flush(p, "data", "r_lock", "r_fail")
  <2>1. i.op = "R" /\ disk.home[n] # "none"
    BY <1>1, <1>6 DEF Unwinding, At
  <2>2. ASSUME NEW s2, NEW to \in {"r_backdata", "r_lock"}
        PROVE  Fact(r, to, disk, s2, odd)
    <3> HIDE DEF r
    <3> QED BY <2>1
        DEF Fact, Unwinding, Closing, Opening, Publishing, Discarding, Open
  <2> QED BY <1>2, <1>6, <2>2, FlushAdvances
<1>7. CASE /\ At(p, "r_lock") /\ odd' = odd
           /\ Write(p, "lock", disk.before.lock, "r_trust", "r_fail", "r_fail")
  <2> DEFINE v == disk.before.lock
  <2>1. i.op = "I" <=> disk.home[n] = "none"
    BY <1>1, <1>7 DEF Unwinding, At
  <2>2. /\ Fitting(disk, safe, v, odd) /\ Agreeing(v, safe, odd)
        /\ Settled(disk.home, disk.trash, v, odd)
    BY <1>1, <2>1, OldLockFits, Disky
  <2> HIDE DEF v
  <2>3. ASSUME NEW d2, NEW s2, Relocks(disk, v, d2), Syncs("data", d2, safe, s2)
        PROVE  Fact(r, "r_trust", d2, s2, odd)
    <3>1. AllSettled(d2, s2, odd)
      BY <2>2, <2>3, SettledAll DEF Relocks, Syncs, SameMoves
    <3> QED BY <3>1, SettledFact
  <2>4. \A d2 : Harmless(p, "r_fail", d2, safe, odd)
    BY DEF Harmless
  <2> QED BY <1>1, <1>2, <1>7, <2>2, <2>3, <2>4, LockAdvances, Itself DEF v
<1>8. CASE /\ At(p, "r_trust") /\ odd' = odd
           /\ Write(p, "trust", disk.before.trust,
                    IF i.op = "I" THEN "r_stage" ELSE "c_unlink", "r_fail", "r_fail")
  <2>1. AllSettled(disk, safe, odd)
    BY <1>1, <1>8 DEF Unwinding, At
  <2>2. ASSUME NEW s2, Syncs("state", disk, safe, s2), NEW to \in {"r_stage", "c_unlink"}
        PROVE  Fact(r, to, disk, s2, odd)
    BY <2>1, <2>2, SyncSettled, SettledFact, Itself
  <2> QED BY <1>1, <1>2, <1>8, <2>2, TrustAdvances
<1> QED BY <1>0, <1>1, <1>3, <1>4, <1>5, <1>6, <1>7, <1>8 DEF Back

LEMMA FinishAdvances ==
  ASSUME RecoveryInv, Alone = TRUE, NEW p \in Procs, Finish(p) PROVE Advances(p)
<1>0. odd' = odd
  BY DEF Finish
<1>1. CASE At(p, "r_stage") /\ RmStage(p, Todo(p).who, "c_unlink", "r_fail")
  <2>1. AllSettled(disk, safe, odd)
    BY <1>1 DEF RecoveryInv, Fact, Unwinding, At
  <2>2. ASSUME NEW s2, Syncs("root", disk, safe, s2)
        PROVE  Fact(proc[p], "c_unlink", disk, s2, odd)
    BY <2>1, <2>2, SyncSettled, SettledFact, Itself
  <2> QED BY <1>0, <1>1, <2>2, RmStageAdvances DEF Harmless
<1>2. CASE /\ UNCHANGED <<disk, safe, left>>
           /\ proc' = [proc EXCEPT ![p] = Recovered(@, FALSE)]
  <2>1. proc[p] \in Process(p) /\ DOMAIN proc = Procs
    BY Disky DEF IntentInv, Good
  <2>2. Fact(proc'[p], proc'[p].pc, disk, safe, odd)
    BY <1>2, <2>1, RecoveredFact
  <2> QED BY <1>0, <1>2, <2>2, Disky DEF Advances
<1> QED BY <1>1, <1>2 DEF Finish

-----------------------------------------------------------------------------
(* The intent.                                                               *)

(* Only the state files change.                                              *)
Restates(d, d2) == d2.home = d.home /\ d2.trash = d.trash /\ d2.lock = d.lock

LEMMA StateConsistent ==
  ASSUME NEW d, NEW s, NEW d2, NEW s2, NEW o, Consistent(d, s, o),
         Restates(d, d2), Restates(s, s2),
         \A m, l \in {d, s} : Sound(m, l, d2, o) /\ Sound(m, l, s2, o),
         Kept(d2, s2, o), OneIntent(d2, s2)
  PROVE  Consistent(d2, s2, o)
<1>1. ASSUME NEW m2 \in {d2, s2}, NEW l2 \in {d2, s2}, NEW t2 \in {d2, s2}
      PROVE  Sound(m2, l2, t2, o)
  <2>1. PICK m \in {d, s} : SameMoves(m, m2)
    BY DEF Restates, SameMoves
  <2>2. PICK l \in {d, s} : l2.lock = l.lock
    BY DEF Restates
  <2>3. Sound(m, l, t2, o) /\ SameState(t2, t2)
    BY DEF SameState
  <2> QED BY <2>1, <2>2, <2>3, SoundSame, Itself
<1>2. LocksAgree(d2, s2, o)
  BY DEF Consistent, LocksAgree, Restates
<1> QED BY <1>1, <1>2 DEF Consistent, AllSound

LEMMA ClearAdvances ==
  ASSUME RecoveryInv, NEW p \in Procs, Clear(p) PROVE Advances(p)
<1> DEFINE r == proc[p]
<1>0. odd' = odd /\ Closing(r, r.pc, disk, safe, odd)
  BY DEF Clear, RecoveryInv, Fact
<1>1. ASSUME disk.intent = NoIntent, NEW d2, NEW s2, d2.intent = NoIntent
      PROVE  Fact(r, "cleared", d2, s2, odd)
  <2> HIDE DEF r
  <2> QED BY <1>1
      DEF Fact, Unwinding, Closing, Opening, Publishing, Discarding, Open
<1>2. CASE /\ At(p, "c_unlink") /\ safe' = safe
           /\ \/ disk' = [disk EXCEPT !.intent = NoIntent] /\ Goto(p, "c_sync")
              \/ disk' = disk /\ Fault(p, "pending")
  <2>1. AllSettled(disk, safe, odd)
    BY <1>0, <1>2 DEF Closing, At
  <2>2. CASE disk' = [disk EXCEPT !.intent = NoIntent] /\ Goto(p, "c_sync")
    <3>1. Restates(disk, disk') /\ disk'.intent = NoIntent
      BY <2>2, Disky DEF Disks, Restates
    <3>2. ASSUME NEW m \in {disk, safe}, NEW l \in {disk, safe}
          PROVE  Sound(m, l, disk', odd) /\ Sound(m, l, safe, odd)
      BY <2>1, <3>1, Disky DEF AllSettled, Sound, Consistent, AllSound
    <3>3. Kept(disk', safe, odd) /\ OneIntent(disk', safe) /\ Restates(safe, safe)
      BY <3>1 DEF Kept, OneIntent, Restates
    <3>4. Consistent(disk', safe, odd)
      BY <3>1, <3>2, <3>3, StateConsistent, Disky
    <3>5. Fact(r, "c_sync", disk', safe, odd)
      <4> HIDE DEF r
      <4> QED BY <3>1
          DEF Fact, Unwinding, Closing, Opening, Publishing, Discarding, Open
    <3> QED BY <1>0, <1>2, <2>2, <3>4, <3>5, Goes, Disky DEF Advances
  <2>3. CASE disk' = disk /\ Fault(p, "pending")
    BY <1>0, <1>2, <2>3, PlainAdvances, Itself DEF Harmless
  <2> QED BY <1>2, <2>2, <2>3
<1>3. CASE At(p, "c_sync") /\ Flush(p, "state", "c_copies", "pending")
  <2>1. disk.intent = NoIntent
    BY <1>0, <1>3 DEF Closing, At
  <2>2. ASSUME NEW s2, Syncs("state", disk, safe, s2)
        PROVE  Fact(r, "c_copies", disk, s2, odd)
    <3> HIDE DEF r
    <3> QED BY <2>1, <2>2
        DEF Fact, Unwinding, Closing, Opening, Publishing, Discarding, Open, Syncs
  <2> QED BY <1>0, <1>3, <2>2, FlushAdvances DEF Harmless
<1>4. CASE /\ At(p, "c_copies") /\ safe' = safe
           /\ \/ disk' = [disk EXCEPT !.before = NoCopy] /\ Goto(p, "cleared")
              \/ disk' = disk /\ Fault(p, "cleared")
  <2>1. disk.intent = NoIntent
    BY <1>0, <1>4 DEF Closing, At
  <2>2. CASE disk' = [disk EXCEPT !.before = NoCopy] /\ Goto(p, "cleared")
    <3>1. Restates(disk, disk') /\ disk'.intent = NoIntent
      BY <2>1, <2>2, Disky DEF Disks, Restates
    <3>2. ASSUME NEW m \in {disk, safe}, NEW l \in {disk, safe}
          PROVE  Sound(m, l, disk', odd) /\ Sound(m, l, safe, odd)
      BY <2>1, <3>1, Disky DEF Sound, Consistent, AllSound
    <3>3. Kept(disk', safe, odd) /\ OneIntent(disk', safe) /\ Restates(safe, safe)
      BY <3>1 DEF Kept, OneIntent, Restates
    <3>4. Consistent(disk', safe, odd)
      BY <3>1, <3>2, <3>3, StateConsistent, Disky
    <3> QED BY <1>0, <1>1, <1>4, <2>1, <2>2, <3>1, <3>4, Goes, Disky DEF Advances
  <2>3. CASE disk' = disk /\ Fault(p, "cleared")
    BY <1>0, <1>1, <1>4, <2>1, <2>3, PlainAdvances, Itself DEF Harmless
  <2> QED BY <1>4, <2>2, <2>3
<1> QED BY <1>2, <1>3, <1>4 DEF Clear

-----------------------------------------------------------------------------
(* The start of a command.                                                   *)

LEMMA StartAdvances ==
  ASSUME RecoveryInv, NEW p \in Procs, Start(p) PROVE Advances(p)
<1>1. proc[p] \in Process(p) /\ DOMAIN proc = Procs
  BY Disky DEF IntentInv, Good
<1>2. proc'[p].pc = "recover"
  BY <1>1 DEF Start, Process
<1>3. Fact(proc'[p], proc'[p].pc, disk, safe, odd)
  BY <1>2, NoFact DEF Anywhere
<1> QED BY <1>3, Disky DEF Start, Advances

LEMMA StageAdvances ==
  ASSUME RecoveryInv, NEW p \in Procs, Stage(p) PROVE Advances(p)
<1> DEFINE r == proc[p]
<1>0. /\ safe' = safe /\ odd' = odd /\ disk \in Disks
      /\ Opening(r, r.pc, disk, safe, odd)
      /\ r \in Process(p) /\ DOMAIN proc = Procs /\ Fits(r, r.pc, disk.intent)
  BY Disky DEF Stage, RecoveryInv, Fact, IntentInv, Good
<1>1. r.mine.op = "I"
  BY <1>0 DEF Stage, At, Fits, Installing
<1>2. Harmless(p, "over", disk, safe, odd) /\ Harmless(p, "i_drop", disk, safe, odd)
      /\ Fact(r, "i_drop", disk, safe, odd)
  BY NoFact DEF Harmless, Anywhere
<1>3. CASE /\ At(p, "i_stage")
           /\ proc' = [proc EXCEPT ![p].lk = disk.lock, ![p].pc = "i_check"]
           /\ disk' = [disk EXCEPT !.stage = @ \union {p}]
  <2>1. Alike(disk, disk') /\ Alike(safe, safe')
    BY <1>0, <1>3, Itself DEF Disks, Alike
  <2>2. Consistent(disk', safe', odd)
    BY <2>1, AlikeConsistent, Itself, Disky
  <2>3. proc'[p].pc = "i_check" /\ proc'[p].lk = disk.lock
    BY <1>0, <1>3 DEF Process
  <2>4. disk.intent = NoIntent
    BY <1>0, <1>3 DEF Opening, At
  <2>5. Fact(proc'[p], "i_check", disk, safe, odd)
    BY <2>3, <2>4
    DEF Fact, Unwinding, Closing, Opening, Publishing, Discarding, Open
  <2> QED BY <1>0, <2>1, <2>2, <2>3, <2>5, AlikeFact DEF Advances
<1>4. CASE disk' = disk /\ Fault(p, "over")
  BY <1>0, <1>2, <1>4, PlainAdvances, Itself
<1>5. CASE /\ At(p, "i_check") /\ disk' = disk
           /\ \/ Goto(p, IF disk.home[Mine(p).name] = "none" THEN "b_copies"
                         ELSE "i_drop")
              \/ Fault(p, "i_drop")
  <2>1. disk.intent = NoIntent /\ r.lk = disk.lock
    BY <1>0, <1>5 DEF Opening, At
  <2>2. ASSUME disk.home[r.mine.name] = "none"
        PROVE  Fact(r, "b_copies", disk, safe, odd)
    <3> HIDE DEF r
    <3> QED BY <1>1, <2>1, <2>2
        DEF Fact, Unwinding, Closing, Opening, Publishing, Discarding, Open
  <2> QED BY <1>0, <1>2, <1>5, <2>2, PlainAdvances, Itself DEF Mine
<1> QED BY <1>3, <1>4, <1>5 DEF Stage

(* With no intent on the disk, nothing is under way, whatever is safe.       *)
LEMMA QuietSettled ==
  ASSUME NEW d, NEW s, NEW o, Consistent(d, s, o), d.intent = NoIntent
  PROVE  AllSettled(d, s, o)
BY DEF Consistent, AllSound, Sound, AllSettled

LEMMA CopiesAdvance ==
  ASSUME RecoveryInv, NEW p \in Procs, At(p, "b_copies"), odd' = odd,
         NEW bad \in {"i_drop", "over"},
         Write(p, "before", [trust |-> disk.trust, lock |-> disk.lock], "b_intent",
               bad, bad)
  PROVE  Advances(p)
<1> DEFINE r == proc[p]
           c == [trust |-> disk.trust, lock |-> disk.lock]
           new == [disk EXCEPT !["before"] = c]
<1>1. Opening(r, "b_copies", disk, safe, odd)
  BY DEF RecoveryInv, Fact, At
<1>2. c # NoCopy
  <2>1. "missing" \in DOMAIN NoCopy /\ "missing" \notin DOMAIN c
    BY DEF NoCopy
  <2> QED BY <2>1
<1>3. /\ new \in Disks /\ Restates(disk, new) /\ new.intent = NoIntent
      /\ disk.intent = NoIntent /\ new.before = c
  BY <1>1, Disky DEF Disks, Restates, Opening
<1>4. c.lock = disk.lock
  OBVIOUS
<1> HIDE DEF c, new
<1>5. AllSettled(disk, safe, odd)
  BY <1>3, QuietSettled, Disky
<1>6. ASSUME NEW s2, s2 = safe \/ Syncs("state", new, safe, s2)
      PROVE  Consistent(new, s2, odd)
  <2>1. Restates(safe, s2) /\ (s2.intent = NoIntent \/ s2 = safe)
    BY <1>3, <1>6 DEF Restates, Syncs
  <2>2. ASSUME NEW m \in {disk, safe}, NEW l \in {disk, safe}
        PROVE  Sound(m, l, new, odd) /\ Sound(m, l, s2, odd)
    BY <1>3, <1>5, <2>1, Disky DEF AllSettled, Sound, Consistent, AllSound
  <2>3. Kept(new, s2, odd) /\ OneIntent(new, s2)
    BY <1>3 DEF Kept, OneIntent
  <2> QED BY <1>3, <2>1, <2>2, <2>3, StateConsistent, Disky
<1>7. CASE disk' = new /\ safe' = Flushed(new, "state") /\ Goto(p, "b_intent")
  <2>1. Syncs("state", new, safe, safe')
    BY <1>3, <1>7, FlushedSyncs, Disky
  <2>2. Fact(r, "b_intent", new, safe', odd)
    <3>1. safe'.intent = NoIntent /\ new.lock = disk.lock /\ new.home = disk.home
      BY <1>3, <2>1 DEF Syncs, Restates
    <3> HIDE DEF r
    <3> QED BY <1>1, <1>2, <1>3, <1>4, <3>1
        DEF Fact, Unwinding, Closing, Opening, Publishing, Discarding, Open
  <2> QED BY <1>6, <1>7, <2>1, <2>2, Goes, Disky DEF Advances
<1>8. CASE disk' \in {disk, new} /\ safe' = safe /\ Fault(p, bad)
  <2>1. Fact(r, bad, disk', safe, odd)
    BY NoFact DEF Anywhere
  <2>2. Consistent(disk', safe, odd)
    BY <1>6, <1>8, Disky
  <2> QED BY <1>8, <2>1, <2>2, Fails, Disky DEF Advances
<1> QED BY <1>7, <1>8 DEF Write, new, c, DirOf

(* The transaction a command opens concerns a plugin that is settled.        *)
LEMMA BeginPending ==
  ASSUME NEW d, NEW s, NEW o, NEW i \in Txn, AllSettled(d, s, o),
         i.op = "I" => d.home[i.name] = "none",
         i.op = "R" => i.name \in d.lock,
         NEW m \in {d, s}, NEW l \in {d, s}
  PROVE  Pending(i, d.lock, m.home, m.trash, l.lock, o)
<1> DEFINE n == i.name
<1>1. n \in Names /\ i.who \in Procs /\ i.op \in {"I", "R"}
  BY DEF Txn
<1>2. Settled(m.home, m.trash, l.lock, o) /\ Settled(m.home, m.trash, d.lock, o)
      /\ Settled(d.home, d.trash, d.lock, o) /\ Settled(d.home, d.trash, l.lock, o)
  BY DEF AllSettled
<1>3. \A k \in Names \ o.strayed :
        Whole(k, m.home, l.lock, o) /\ (k \in l.lock <=> k \in d.lock)
  BY <1>2 DEF Settled, Whole
<1>4. ASSUME n \notin o.strayed, i.op = "I"
      PROVE  Added(n, d.lock, m.home, l.lock, o)
  BY <1>1, <1>2, <1>4 DEF Settled, Whole, Added
<1>5. ASSUME n \notin o.strayed, i.op = "R"
      PROVE  Taken(n, i.who, d.lock, m.home, m.trash, l.lock, o)
  BY <1>1, <1>2, <1>5 DEF Settled, Whole, Taken
<1>6. \A q \in Procs : m.trash[q] = "none"
  BY <1>2 DEF Settled
<1> QED BY <1>1, <1>3, <1>4, <1>5, <1>6 DEF Pending

LEMMA IntentAdvances ==
  ASSUME RecoveryInv, NEW p \in Procs, At(p, "b_intent"), odd' = odd,
         NEW bad \in {"i_drop", "over"}, NEW good \in {"load", "m_quar"},
         Write(p, "intent", Mine(p), good, bad, bad)
  PROVE  Advances(p)
<1> DEFINE r == proc[p]
           i == r.mine
           new == [disk EXCEPT !["intent"] = i]
<1>1. Opening(r, "b_intent", disk, safe, odd)
  BY DEF RecoveryInv, Fact, At
<1>2. i \in Txn /\ i # NoIntent /\ Mine(p) = i
  <2>1. i \in Commands(p) /\ i.op # "L"
    BY Disky DEF IntentInv, Good, Process, Fits, Changing, At
  <2> QED BY <2>1 DEF Commands, Txn, NoIntent, Mine
<1>3. /\ new \in Disks /\ Restates(disk, new) /\ new.intent = i
      /\ new.before = disk.before
  BY <1>2, Disky DEF Disks, Restates
<1>4. /\ disk.intent = NoIntent /\ safe.intent = NoIntent
      /\ disk.before # NoCopy /\ disk.before.lock = disk.lock /\ r.lk = disk.lock
      /\ i.op = "I" => disk.home[i.name] = "none"
      /\ i.op = "R" => i.name \in disk.lock
  BY <1>1 DEF Opening
<1> HIDE DEF new
<1>5. AllSettled(disk, safe, odd)
  BY <1>4, QuietSettled, Disky
<1>6. ASSUME NEW m \in {disk, safe}, NEW l \in {disk, safe}, NEW t,
             t.intent = i, t.before = disk.before
      PROVE  Sound(m, l, t, odd)
  <2>1. Pending(i, disk.lock, m.home, m.trash, l.lock, odd)
    BY <1>2, <1>4, <1>5, BeginPending
  <2> QED BY <1>2, <1>4, <1>6, <2>1 DEF Sound
<1>7. ASSUME NEW s2, s2 = safe \/ Syncs("state", new, safe, s2)
      PROVE  Consistent(new, s2, odd)
  <2>1. /\ Restates(safe, s2)
        /\ \/ s2.intent = i /\ s2.before = disk.before
           \/ s2 = safe
    BY <1>3, <1>7 DEF Restates, Syncs
  <2>2. ASSUME NEW m \in {disk, safe}, NEW l \in {disk, safe}
        PROVE  Sound(m, l, new, odd) /\ Sound(m, l, s2, odd)
    BY <1>3, <1>6, <2>1, Disky DEF Consistent, AllSound
  <2>3. Kept(new, s2, odd)
    <3>1. Settled(safe.home, safe.trash, disk.lock, odd)
      BY <1>5 DEF AllSettled
    <3>2. i.op = "R" /\ i.name \notin odd.strayed => safe.home[i.name] # "none"
      BY <1>2, <1>4, <3>1 DEF Settled, Whole, Txn
    <3> QED BY <1>3, <2>1, <3>2 DEF Kept, Restates
  <2>4. OneIntent(new, s2)
    BY <1>3, <1>4, <2>1 DEF OneIntent
  <2> QED BY <1>3, <2>1, <2>2, <2>3, <2>4, StateConsistent, Disky
<1>8. CASE disk' = new /\ safe' = Flushed(new, "state") /\ Goto(p, good)
  <2>1. Syncs("state", new, safe, safe')
    BY <1>3, <1>8, FlushedSyncs, Disky
  <2>2. AllSettled(new, safe', odd)
    BY <1>3, <1>5, <2>1, AllSettledSame, Itself DEF Restates, Syncs, SameMoves
  <2>3. Fact(r, good, new, safe', odd)
    <3>1. /\ safe'.intent = i /\ new.before.lock = disk.lock
          /\ new.lock = disk.lock /\ new.home = disk.home
      BY <1>3, <1>4, <2>1 DEF Syncs, Restates
    <3> HIDE DEF r
    <3> QED BY <1>4, <2>2, <3>1
        DEF Fact, Unwinding, Closing, Opening, Publishing, Discarding, Open
  <2> QED BY <1>7, <1>8, <2>1, <2>3, Goes, Disky DEF Advances
<1>9. CASE disk' \in {disk, new} /\ safe' = safe /\ Fault(p, bad)
  <2>1. Fact(r, bad, disk', safe, odd)
    BY NoFact DEF Anywhere
  <2>2. Consistent(disk', safe, odd)
    BY <1>7, <1>9, Disky
  <2> QED BY <1>9, <2>1, <2>2, Fails, Disky DEF Advances
<1> QED BY <1>2, <1>8, <1>9 DEF Write, new, DirOf

LEMMA BeginAdvances ==
  ASSUME RecoveryInv, NEW p \in Procs, Begin(p) PROVE Advances(p)
BY CopiesAdvance, IntentAdvances DEF Begin

-----------------------------------------------------------------------------
(* Inside a transaction.                                                     *)

LEMMA Held ==
  ASSUME RecoveryInv, Alone = TRUE, NEW p \in Procs, proc[p].pc \in Open
  PROVE  LET i == proc[p].mine IN
         /\ i \in Txn /\ i # NoIntent /\ i.who = p
         /\ i.name \in Names /\ i.op \in {"I", "R"}
         /\ disk.intent = i /\ safe.intent = i
         /\ proc[p].lk = disk.before.lock /\ proc[p].lk \in SUBSET Names
         /\ proc[p].t0 \in Trust /\ [proc[p].t0 EXCEPT ![i.name] = "on"] \in Trust
         /\ [proc[p].t0 EXCEPT ![i.name] = "off"] \in Trust
         /\ [proc[p].t0 EXCEPT ![i.name] = "unset"] \in Trust
         /\ \A m, l, t \in {disk, safe} :
              /\ t.before # NoCopy
              /\ Pending(i, t.before.lock, m.home, m.trash, l.lock, odd)
         /\ Fact(proc[p], proc[p].pc, disk, safe, odd)
<1> DEFINE i == proc[p].mine
<1>1. /\ disk.intent = i /\ i.who = p /\ i \in Commands(p)
      /\ Fact(proc[p], proc[p].pc, disk, safe, odd)
  BY Remembered, Disky DEF RecoveryInv, IntentInv, Good, Fits, Commands
<1>2. safe.intent = i /\ proc[p].lk = disk.before.lock
  BY <1>1 DEF Fact, Opening
<1>3. i # NoIntent
  BY <1>1 DEF Commands, NoIntent
<1>4. i \in Txn /\ i.name \in Names /\ i.op \in {"I", "R"}
  BY <1>1, <1>3, Disky DEF Txn
<1>5. \A m, l, t \in {disk, safe} : Sound(m, l, t, odd)
  BY Disky DEF Consistent, AllSound
<1>6. \A m, l, t \in {disk, safe} :
        /\ t.before # NoCopy
        /\ Pending(i, t.before.lock, m.home, m.trash, l.lock, odd)
  BY <1>1, <1>2, <1>3, <1>5 DEF Sound
<1>7. proc[p].lk \in SUBSET Names /\ proc[p].t0 \in Trust
  BY Remembered, Disky
<1> QED BY <1>1, <1>2, <1>3, <1>4, <1>6, <1>7, TrustSet

(* The labels of a transaction that is being given up.                       *)
GivingUp == {"i_relock", "i_unsync", "i_undo", "m_undo", "m_resync", "m_fail"}

LEMMA GivingUpFact ==
  ASSUME NEW r, NEW to \in GivingUp, NEW d, NEW s, NEW o,
         s.intent = r.mine, r.lk = d.before.lock
  PROVE  Fact(r, to, d, s, o)
BY DEF GivingUp, Fact, Unwinding, Closing, Opening, Publishing, Discarding, Open

(* Writing a lock that differs in one plugin.                                *)
Differ(v, lock, o) ==
  \A k \in Names : ~(k \in v <=> k \in lock) => k \in o.doubted

LEMMA SaveAdvances ==
  ASSUME RecoveryInv, NEW p \in Procs, NEW v \in SUBSET Names, NEW good, NEW bad,
         SaveLock(p, v, good, bad), Fitting(disk, safe, v, odd),
         disk.lock = v => Fact(proc[p], good, disk, safe, odd),
         \A d2, s2 : Relocks(disk, v, d2) /\ Syncs("data", d2, safe, s2) =>
                       Fact(proc[p], good, d2, s2, odd),
         \A o2 : Grows(odd, o2) /\ Differ(v, disk.lock, o2) =>
                   /\ Harmless(p, bad, disk, safe, o2)
                   /\ \A d2 : Relocks(disk, v, d2) => Harmless(p, bad, d2, safe, o2)
  PROVE  Advances(p)
<1>1. CASE disk.lock = v /\ UNCHANGED <<disk, safe, odd>> /\ Goto(p, good)
  BY <1>1, PlainAdvances, Itself
<1>2. CASE /\ Write(p, "lock", v, good, bad, bad)
           /\ odd' = IF left' = left THEN odd
                     ELSE [odd EXCEPT !.doubted = @ \union
                             ((disk.lock \ v) \union (v \ disk.lock))]
  <2>1. odd \in OddTypes
    BY Disky DEF IntentInv, Ghosts
  <2>2. Grows(odd, odd')
    BY <1>2, <2>1 DEF Grows, OddTypes
  <2>3. left' # left => Differ(v, disk.lock, odd')
    BY <1>2, <2>1 DEF Differ, OddTypes
  <2>4. Fitting(disk, safe, v, odd')
    BY <2>2, SoundGrows DEF Fitting
  <2>5. left' # left => Agreeing(v, safe, odd')
    BY <2>2, <2>3, Disky DEF Agreeing, Differ, Consistent, LocksAgree, Grows
  <2>6. ASSUME NEW d2, NEW s2, Relocks(disk, v, d2), Syncs("data", d2, safe, s2)
        PROVE  left' = left => Fact(proc[p], good, d2, s2, odd')
    BY <1>2, <2>6
  <2>7. CASE left' = left
    <3>1. Relocks(disk, v, disk') /\ Syncs("data", disk', safe, safe') /\ Goto(p, good)
      <4>1. ASSUME NEW to, Fault(p, to) PROVE left' # left
        BY <4>1, Disky DEF Fault, IntentInv, Ghosts, Counts
      <4> QED BY <1>2, <2>7, <4>1, LockCases
    <3>2. Consistent(disk', safe', odd')
      BY <2>2, <2>4, <3>1, RelockConsistent, Disky
    <3>3. Fact(proc'[p], proc'[p].pc, disk', safe', odd')
      BY <2>6, <2>7, <3>1, Goes, Disky
    <3> QED BY <3>2, <3>3 DEF Advances
  <2>8. CASE left' # left
    <3>1. ~Goto(p, good)
      BY <2>8 DEF Goto
    <3>2. \/ disk' = disk /\ safe' = safe /\ Fault(p, bad)
          \/ Relocks(disk, v, disk') /\ safe' = safe /\ Fault(p, bad)
      BY <1>2, <3>1, LockCases
    <3>3. Consistent(disk', safe', odd')
      <4>1. CASE disk' = disk /\ safe' = safe
        BY <2>2, <4>1, AlikeConsistent, Itself, Disky
      <4>2. CASE Relocks(disk, v, disk') /\ safe' = safe
        BY <2>2, <2>4, <2>5, <2>8, <4>2, RelockConsistent, Disky
      <4> QED BY <3>2, <4>1, <4>2
    <3>4. Harmless(p, bad, disk', safe', odd')
      BY <2>2, <2>3, <2>8, <3>2
    <3>5. Fact(proc'[p], proc'[p].pc, disk', safe', odd')
      BY <3>2, <3>4, Fails, Disky DEF Harmless
    <3> QED BY <3>3, <3>5 DEF Advances
  <2> QED BY <2>7, <2>8
<1> QED BY <1>1, <1>2 DEF SaveLock

LEMMA SwitchOffAdvances ==
  ASSUME RecoveryInv, Alone = TRUE, NEW p \in Procs, SwitchOff(p)
  PROVE  Advances(p)
<1> DEFINE r == proc[p]
           i == r.mine
<1>0. odd' = odd /\ Mine(p) = i /\ r.pc \in Open
  BY DEF SwitchOff, Mine, At, Open
<1>1. /\ i.op \in {"I", "R"} /\ disk.intent = i /\ safe.intent = i
      /\ r.lk = disk.before.lock /\ [r.t0 EXCEPT ![i.name] = "off"] \in Trust
      /\ Opening(r, r.pc, disk, safe, odd)
  BY <1>0, Held DEF Fact
<1>2. CASE /\ At(p, "load") /\ UNCHANGED <<disk, safe>>
           /\ proc' = [proc EXCEPT ![p].t0 = disk.trust, ![p].pc = "off"]
  <2>1. r \in Process(p) /\ DOMAIN proc = Procs
    BY Disky DEF IntentInv, Good
  <2>2. proc'[p].pc = "off" /\ proc'[p].mine = i /\ proc'[p].lk = r.lk
    BY <1>2, <2>1 DEF Process
  <2>3. Opening(r, "load", disk, safe, odd)
    BY <1>1, <1>2 DEF At
  <2>4. Fact(proc'[p], "off", disk, safe, odd)
    <3> HIDE DEF r
    <3> QED BY <1>1, <2>2, <2>3
        DEF Fact, Unwinding, Closing, Opening, Publishing, Discarding, Open
  <2> QED BY <1>0, <1>2, <2>2, <2>4, Disky DEF Advances
<1>3. CASE At(p, "off") /\ odd' = odd
  <2>1. /\ AllSettled(disk, safe, odd)
        /\ i.op = "I" => disk.home[i.name] = "none"
        /\ i.op = "R" => i.name \in disk.lock
    BY <1>1, <1>3 DEF Opening, At
  <2>2. ASSUME NEW s2, Syncs("state", disk, safe, s2),
               NEW to \in {"i_publish", "m_quar"}
        PROVE  Fact(r, to, disk, s2, odd)
    <3>1. AllSettled(disk, s2, odd)
      BY <2>1, <2>2, SyncSettled, Itself
    <3>2. s2.intent = i
      BY <1>1, <2>2 DEF Syncs
    <3> HIDE DEF r
    <3> QED BY <1>1, <2>1, <3>1, <3>2
        DEF Fact, Unwinding, Closing, Opening, Publishing, Discarding, Open
  <2>3. \A to \in {"i_tidy", "recover", "i_undo", "m_undo"} :
          Harmless(p, to, disk, safe, odd)
    BY <1>1, NoFact, GivingUpFact DEF Harmless, Anywhere, GivingUp
  <2>4. CASE i.op = "I" /\ Write(p, "trust", [r.t0 EXCEPT ![i.name] = "off"],
                                 "i_publish", "i_tidy", "i_undo")
    <3> HIDE DEF r
    <3> QED BY <1>1, <1>3, <2>2, <2>3, <2>4, TrustAdvances DEF r
  <2>5. CASE i.op # "I" /\ Write(p, "trust", [r.t0 EXCEPT ![i.name] = "off"],
                                 "m_quar", "recover", "m_undo")
    BY <1>1, <1>3, <2>2, <2>3, <2>5, TrustAdvances
  <2> QED BY <1>0, <1>3, <2>4, <2>5 DEF SwitchOff, At
<1> QED BY <1>0, <1>2, <1>3 DEF SwitchOff

-----------------------------------------------------------------------------
(* Installing.                                                               *)

(* The lock with the plugin in it, once its directory is safe; and without.  *)
LEMMA AddedLockFits ==
  ASSUME NEW d, NEW s, NEW o, NEW i \in Txn, i.op = "I", Consistent(d, s, o),
         d.intent = i, s.intent = i, NEW v,
         \/ v = d.before.lock
         \/ /\ v = d.before.lock \union {i.name}
            /\ d.home[i.name] = "whole" /\ s.home[i.name] = "whole"
  PROVE  Fitting(d, s, v, o)
<1> DEFINE n == i.name
<1>1. n \in Names /\ i # NoIntent
  BY DEF Txn, NoIntent
<1>2. \A m, l, t \in {d, s} :
        t.before # NoCopy /\ Pending(i, t.before.lock, m.home, m.trash, l.lock, o)
  BY <1>1 DEF Consistent, AllSound, Sound
<1>3. ASSUME NEW m \in {d, s}, NEW t \in {d, s}
      PROVE  Sound(m, [lock |-> v], t, o)
  <2>1. ASSUME NEW k \in Names \ o.strayed, k # n
        PROVE  Whole(k, m.home, v, o) /\ (k \in v <=> k \in t.before.lock)
    <3>1. Whole(k, m.home, d.lock, o) /\ (k \in d.lock <=> k \in d.before.lock)
      BY <1>2, <2>1 DEF Pending
    <3>2. k \in d.lock <=> k \in t.before.lock
      BY <1>2, <2>1 DEF Pending
    <3>3. k \in v <=> k \in d.before.lock
      BY <2>1
    <3> QED BY <3>1, <3>2, <3>3 DEF Whole
  <2>2. ASSUME n \notin o.strayed PROVE Added(n, t.before.lock, m.home, v, o)
    BY <1>2, <2>2 DEF Pending, Added
  <2>3. Pending(i, t.before.lock, m.home, m.trash, v, o)
    BY <1>2, <2>1, <2>2 DEF Pending
  <2> QED BY <1>1, <1>2, <2>3 DEF Sound
<1> QED BY <1>3 DEF Fitting

LEMMA PublishAdvances ==
  ASSUME RecoveryInv, Alone = TRUE, NEW p \in Procs, Publish(p) PROVE Advances(p)
<1> DEFINE r == proc[p]
           i == r.mine
           n == i.name
<1>0. Mine(p) = i /\ r.pc \in Open
  BY DEF Publish, Mine, At, Open
<1>1. /\ i \in Txn /\ i # NoIntent /\ i.who = p /\ n \in Names
      /\ disk.intent = i /\ safe.intent = i
      /\ r.lk = disk.before.lock /\ r.lk \in SUBSET Names
      /\ [r.t0 EXCEPT ![n] = "on"] \in Trust
      /\ \A m, l \in {disk, safe} :
           Pending(i, disk.before.lock, m.home, m.trash, l.lock, odd)
      /\ Opening(r, r.pc, disk, safe, odd) /\ Publishing(r, r.pc, disk, safe, odd)
  BY <1>0, Held DEF Fact
<1>2. i.op = "I"
  BY Disky DEF Publish, At, IntentInv, Good, Fits, Installing
<1>3. CASE /\ At(p, "i_publish") /\ UNCHANGED <<safe, odd>>
           /\ \/ /\ disk.home[n] = "none"
                 /\ disk' = [disk EXCEPT !.home[n] = "whole"]
                 /\ Goto(p, "i_sync")
              \/ disk' = disk /\ (Goto(p, "i_undo") \/ Fault(p, "i_undo"))
  <2>1. disk.home[n] = "none" /\ AllSettled(disk, safe, odd)
    BY <1>1, <1>2, <1>3 DEF Opening, At
  <2>2. \A l \in {disk, safe} : n \in l.lock => n \in odd.strayed
    BY <1>1, <2>1 DEF AllSettled, Settled, Whole
  <2>3. CASE disk' = [disk EXCEPT !.home[n] = "whole"] /\ Goto(p, "i_sync")
    <3>1. Rehome(disk, n, "whole", disk')
      BY <2>3, Disky DEF Disks, Rehome, MovesTo, Moves2
    <3>2. Consistent(disk', safe, odd)
      BY <1>1, <1>2, <2>2, <3>1, HomeConsistent
    <3>3. /\ disk'.home[n] = "whole" /\ disk'.lock = disk.lock
          /\ disk'.before = disk.before
      BY <1>1, <3>1, Domains DEF Rehome, MovesTo, Moves2
    <3>4. Fact(r, "i_sync", disk', safe, odd)
      <4> HIDE DEF r
      <4> QED BY <1>1, <2>2, <3>3
          DEF Fact, Unwinding, Closing, Opening, Publishing, Discarding, Open
    <3> QED BY <1>3, <2>3, <3>2, <3>4, Goes, Disky DEF Advances
  <2>4. CASE disk' = disk /\ (Goto(p, "i_undo") \/ Fault(p, "i_undo"))
    <3>1. Fact(r, "i_undo", disk, safe, odd)
      BY <1>1, GivingUpFact DEF GivingUp
    <3> QED BY <1>3, <2>4, <3>1, PlainAdvances, Itself DEF Harmless
  <2> QED BY <1>3, <2>3, <2>4
<1>4. CASE At(p, "i_sync") /\ odd' = odd /\ RmStage(p, p, "i_lock", "i_unpub")
  <2>1. /\ disk.home[n] = "whole"
        /\ n \in odd.strayed \/ (n \notin disk.lock /\ n \notin safe.lock)
    BY <1>1, <1>4 DEF Publishing, At
  <2>2. ASSUME NEW s2, Syncs("root", disk, safe, s2)
        PROVE  Fact(r, "i_lock", disk, s2, odd)
    <3>1. s2.home = disk.home /\ s2.lock = safe.lock /\ s2.intent = i
      BY <1>1, <2>2 DEF Syncs
    <3> HIDE DEF r
    <3> QED BY <1>1, <2>1, <3>1
        DEF Fact, Unwinding, Closing, Opening, Publishing, Discarding, Open
  <2>3. Fact(r, "i_unpub", disk, safe, odd)
    <3> HIDE DEF r
    <3> QED BY <1>1, <2>1
        DEF Fact, Unwinding, Closing, Opening, Publishing, Discarding, Open
  <2> QED BY <1>4, <2>2, <2>3, RmStageAdvances DEF Harmless
<1>5. CASE /\ At(p, "i_lock")
           /\ SaveLock(p, r.lk \union {n}, IF i.flag THEN "i_on" ELSE "c_unlink",
                       "i_unpub")
  <2> DEFINE v == r.lk \union {n}
             good == IF i.flag THEN "i_on" ELSE "c_unlink"
  <2>1. /\ disk.home[n] = "whole" /\ safe.home[n] = "whole"
        /\ n \in odd.strayed \/ (n \notin disk.lock /\ n \notin safe.lock)
    BY <1>1, <1>5 DEF Publishing, At
  <2>2. v \in SUBSET Names /\ n \in v /\ v = disk.before.lock \union {n}
    BY <1>1
  <2> HIDE DEF v
  <2>3. Fitting(disk, safe, v, odd)
    BY <1>1, <1>2, <2>1, <2>2, AddedLockFits, Disky
  <2>4. ASSUME NEW d2, NEW s2, AllSettled(d2, s2, odd), s2.intent = i,
               d2.before = disk.before
        PROVE  Fact(r, good, d2, s2, odd)
    <3>1. Fact(r, "c_unlink", d2, s2, odd)
      BY <2>4, SettledFact
    <3>2. Fact(r, "i_on", d2, s2, odd)
      <4> HIDE DEF r
      <4> QED BY <1>1, <2>4
          DEF Fact, Unwinding, Closing, Opening, Publishing, Discarding, Open
    <3> QED BY <3>1, <3>2
  <2>5. ASSUME NEW d2, NEW s2, Relocks(disk, v, d2), Syncs("data", d2, safe, s2)
        PROVE  Fact(r, good, d2, s2, odd)
    <3>1. Pending(i, disk.before.lock, disk.home, disk.trash, v, odd)
      BY <1>1, <2>3 DEF Fitting, Sound
    <3>2. Settled(disk.home, disk.trash, v, odd)
      BY <1>2, <2>1, <2>2, <3>1, ForwardSettles
    <3>3. AllSettled(d2, s2, odd)
      BY <2>5, <3>2, SettledAll DEF Relocks, Syncs, SameMoves
    <3> QED BY <1>1, <2>4, <2>5, <3>3 DEF Relocks, Syncs
  <2>6. ASSUME disk.lock = v PROVE Fact(r, good, disk, safe, odd)
    <3>1. n \in odd.strayed
      BY <2>1, <2>2, <2>6
    <3>2. ASSUME NEW m \in {disk, safe}, NEW l \in {disk, safe}
          PROVE  Settled(m.home, m.trash, l.lock, odd)
      BY <1>1, <1>2, <3>1 DEF Pending, Settled
    <3>3. AllSettled(disk, safe, odd)
      BY <3>2 DEF AllSettled
    <3> QED BY <1>1, <2>4, <3>3
  <2>7. ASSUME NEW o2, Grows(odd, o2), Differ(v, disk.lock, o2), NEW d2,
               d2 = disk \/ Relocks(disk, v, d2)
        PROVE  Fact(r, "i_unpub", d2, safe, o2)
    <3>1. n \in o2.strayed \union o2.doubted
      BY <1>1, <2>1, <2>2, <2>7 DEF Grows, Differ
    <3>2. d2.before = disk.before
      BY <2>7 DEF Relocks
    <3> HIDE DEF r
    <3> QED BY <1>1, <3>1, <3>2
        DEF Fact, Unwinding, Closing, Opening, Publishing, Discarding, Open
  <2> QED BY <1>5, <2>2, <2>3, <2>5, <2>6, <2>7, SaveAdvances DEF Harmless, v
<1>6. CASE /\ At(p, "i_on") /\ odd' = odd
           /\ Write(p, "trust", [r.t0 EXCEPT ![n] = "on"], "c_unlink",
                    "i_relock", "i_relock")
  <2>1. AllSettled(disk, safe, odd)
    BY <1>1, <1>6 DEF Publishing, At
  <2>2. ASSUME NEW s2, Syncs("state", disk, safe, s2)
        PROVE  Fact(r, "c_unlink", disk, s2, odd)
    BY <2>1, <2>2, SyncSettled, SettledFact, Itself
  <2>3. Harmless(p, "i_relock", disk, safe, odd)
    BY <1>1, GivingUpFact DEF Harmless, GivingUp
  <2> QED BY <1>1, <1>6, <2>2, <2>3, TrustAdvances
<1> QED BY <1>0, <1>3, <1>4, <1>5, <1>6 DEF Publish

LEMMA UnpublishAdvances ==
  ASSUME RecoveryInv, Alone = TRUE, NEW p \in Procs, Unpublish(p) PROVE Advances(p)
<1> DEFINE r == proc[p]
           i == r.mine
           n == i.name
<1>0. Mine(p) = i
  BY DEF Mine
<1>1. ASSUME r.pc \in Open
      PROVE  /\ i \in Txn /\ i # NoIntent /\ n \in Names
             /\ disk.intent = i /\ safe.intent = i
             /\ r.lk = disk.before.lock /\ r.lk \in SUBSET Names /\ r.t0 \in Trust
             /\ \A m, l \in {disk, safe} :
                  Pending(i, disk.before.lock, m.home, m.trash, l.lock, odd)
             /\ Publishing(r, r.pc, disk, safe, odd)
  BY <1>1, Held DEF Fact
<1>2. ASSUME r.pc \in {"i_relock", "i_unpub", "i_unsync", "i_undo"}
      PROVE  i.op = "I" /\ r.pc \in Open
  BY <1>2, Disky DEF IntentInv, Good, Fits, Installing, Open
<1>3. ASSUME NEW to \in {"recover", "over", "i_tidy"}, NEW d, NEW s
      PROVE  Fact(r, to, d, s, odd) /\ Harmless(p, to, d, s, odd)
  BY NoFact DEF Anywhere, Harmless
<1>4. CASE At(p, "i_relock") /\ SaveLock(p, r.lk, "i_unpub", "i_unpub")
  <2> DEFINE v == r.lk
  <2>1. r.pc \in Open /\ i.op = "I"
    BY <1>2, <1>4 DEF At
  <2>2. v \in SUBSET Names /\ v = disk.before.lock
    BY <1>1, <2>1
  <2>3. n \notin odd.strayed => n \notin v
    BY <1>1, <2>1 DEF Pending, Added
  <2> HIDE DEF v
  <2>4. Fitting(disk, safe, v, odd)
    BY <1>1, <2>1, <2>2, AddedLockFits, Disky
  <2>5. ASSUME NEW d2, NEW s2, NEW o2, d2.before = disk.before, s2.intent = i,
               n \in o2.strayed \union o2.doubted \/ (n \notin d2.lock /\ n \notin s2.lock)
        PROVE  Fact(r, "i_unpub", d2, s2, o2)
    <3>1. r.lk = d2.before.lock /\ s2.intent = r.mine
      BY <1>1, <2>1, <2>5
    <3> HIDE DEF r
    <3> QED BY <2>5, <3>1
        DEF Fact, Unwinding, Closing, Opening, Publishing, Discarding, Open
  <2>6. ASSUME NEW d2, NEW s2, Relocks(disk, v, d2), Syncs("data", d2, safe, s2)
        PROVE  Fact(r, "i_unpub", d2, s2, odd)
    BY <1>1, <2>1, <2>3, <2>5, <2>6 DEF Relocks, Syncs
  <2>7. n \notin odd.strayed \union odd.doubted => (n \in disk.lock <=> n \in safe.lock)
    BY <1>1, <2>1, Disky DEF Consistent, LocksAgree
  <2>8. ASSUME disk.lock = v PROVE Fact(r, "i_unpub", disk, safe, odd)
    BY <1>1, <2>1, <2>3, <2>5, <2>7, <2>8
  <2>9. ASSUME NEW o2, Grows(odd, o2), Differ(v, disk.lock, o2), NEW d2,
               d2 = disk \/ Relocks(disk, v, d2)
        PROVE  Fact(r, "i_unpub", d2, safe, o2)
    <3>1. n \in o2.strayed \union o2.doubted
            \/ (n \notin v /\ n \notin disk.lock /\ n \notin safe.lock)
      BY <1>1, <2>1, <2>3, <2>7, <2>9 DEF Grows, Differ
    <3> QED BY <1>1, <2>1, <2>5, <2>9, <3>1 DEF Relocks
  <2> QED BY <1>4, <2>2, <2>4, <2>6, <2>8, <2>9, SaveAdvances DEF Harmless, v
<1>5. CASE /\ At(p, "i_unpub") /\ odd' = odd
           /\ RmTree(p, "home", n, "i_unsync", "i_undo")
  <2>1. r.pc \in Open /\ i.op = "I"
    BY <1>2, <1>5 DEF At
  <2>2. n \in odd.strayed \union odd.doubted \/ (n \notin disk.lock /\ n \notin safe.lock)
    BY <1>1, <1>5, <2>1 DEF Publishing, At
  <2>3. safe' = safe
    BY <1>1, <1>5, <2>1, HomeCases
  <2>4. ASSUME NEW v, Rehome(disk, n, v, disk')
        PROVE  /\ Consistent(disk', safe, odd)
               /\ disk'.lock = disk.lock /\ disk'.before = disk.before
    <3>1. Consistent(disk', safe, odd)
      BY <1>1, <2>1, <2>2, <2>4, HomeConsistent
    <3> QED BY <2>4, <3>1 DEF Rehome, MovesTo, Moves2
  <2>5. CASE Rehome(disk, n, "part", disk') /\ Goto(p, r.pc)
    <3>1. Fact(r, "i_unpub", disk', safe, odd)
      <4>1. r.lk = disk'.before.lock /\ safe.intent = r.mine /\ disk'.lock = disk.lock
        BY <1>1, <2>1, <2>4, <2>5
      <4> HIDE DEF r
      <4> QED BY <2>2, <4>1
          DEF Fact, Unwinding, Closing, Opening, Publishing, Discarding, Open
    <3> QED BY <1>5, <2>3, <2>4, <2>5, <3>1, Goes, Disky DEF Advances, At
  <2>6. CASE Rehome(disk, n, "none", disk') /\ Goto(p, "i_unsync")
    <3>1. Fact(r, "i_unsync", disk', safe, odd)
      BY <1>1, <2>1, <2>4, <2>6, GivingUpFact DEF GivingUp
    <3> QED BY <1>5, <2>3, <2>4, <2>6, <3>1, Goes, Disky DEF Advances
  <2>7. CASE disk' = disk /\ (Goto(p, "i_undo") \/ Fault(p, "i_undo"))
    <3>1. Fact(r, "i_undo", disk, safe, odd)
      BY <1>1, <2>1, GivingUpFact DEF GivingUp
    <3> QED BY <1>5, <2>3, <2>7, <3>1, PlainAdvances, Itself DEF Harmless
  <2> QED BY <1>1, <1>5, <2>1, <2>5, <2>6, <2>7, HomeCases
<1>6. CASE At(p, "i_unsync") /\ odd' = odd /\ Flush(p, "root", "i_undo", "i_undo")
  <2>1. r.pc \in Open
    BY <1>2, <1>6 DEF At
  <2>2. ASSUME NEW s2, s2 = safe \/ Syncs("root", disk, safe, s2)
        PROVE  Fact(r, "i_undo", disk, s2, odd)
    BY <1>1, <2>1, <2>2, GivingUpFact DEF GivingUp, Syncs
  <2> QED BY <1>6, <2>2, FlushAdvances DEF Harmless
<1>7. CASE /\ At(p, "i_undo") /\ odd' = odd
           /\ Write(p, "trust", r.t0, "i_tidy", "i_tidy", "i_tidy")
  <2>1. r.t0 \in Trust
    BY <1>1, <1>2, <1>7 DEF At
  <2> QED BY <1>3, <1>7, <2>1, TrustAdvances
<1>8. CASE /\ odd' = odd
           /\ RmStage(p, p, "recover", "recover") \/ RmStage(p, p, "over", "over")
  BY <1>3, <1>8, RmStageAdvances
<1>9. CASE UNCHANGED <<disk, safe, odd>> /\ Goto(p, "recover")
  BY <1>3, <1>9, PlainAdvances, Itself
<1> QED BY <1>0, <1>4, <1>5, <1>6, <1>7, <1>8, <1>9 DEF Unpublish

-----------------------------------------------------------------------------
(* Removing.                                                                 *)

(* The lock without the plugin, once its directory is safely away; and with. *)
LEMMA TakenLockFits ==
  ASSUME NEW d, NEW s, NEW o, NEW i \in Txn, i.op = "R", Consistent(d, s, o),
         d.intent = i, s.intent = i, NEW v,
         \/ /\ v = d.before.lock \ {i.name}
            /\ \/ i.name \in o.strayed
               \/ d.home[i.name] = "none" /\ s.home[i.name] = "none"
         \/ /\ v = d.before.lock /\ i.name \in o.doubted
            /\ \/ i.name \in o.strayed
               \/ d.trash[i.who] # "none" /\ s.trash[i.who] # "none"
  PROVE  Fitting(d, s, v, o)
<1> DEFINE n == i.name
<1>1. n \in Names /\ i # NoIntent
  BY DEF Txn, NoIntent
<1>2. \A m, l, t \in {d, s} :
        t.before # NoCopy /\ Pending(i, t.before.lock, m.home, m.trash, l.lock, o)
  BY <1>1 DEF Consistent, AllSound, Sound
<1>3. ASSUME NEW m \in {d, s}, NEW t \in {d, s}
      PROVE  Sound(m, [lock |-> v], t, o)
  <2>1. ASSUME NEW k \in Names \ o.strayed, k # n
        PROVE  Whole(k, m.home, v, o) /\ (k \in v <=> k \in t.before.lock)
    <3>1. Whole(k, m.home, d.lock, o) /\ (k \in d.lock <=> k \in d.before.lock)
      BY <1>2, <2>1 DEF Pending
    <3>2. k \in d.lock <=> k \in t.before.lock
      BY <1>2, <2>1 DEF Pending
    <3>3. k \in v <=> k \in d.before.lock
      BY <2>1
    <3> QED BY <3>1, <3>2, <3>3 DEF Whole
  <2>2. ASSUME n \notin o.strayed
        PROVE  Taken(n, i.who, t.before.lock, m.home, m.trash, v, o)
    <3>1. n \in t.before.lock
      BY <1>2, <2>2 DEF Pending, Taken
    <3>2. n \notin v => m.home[n] = "none" \/ n \in o.doubted
      BY <2>2
    <3>3. n \in v => n \in o.doubted /\ m.trash[i.who] # "none"
      BY <2>2
    <3> QED BY <3>1, <3>2, <3>3 DEF Taken
  <2>3. Pending(i, t.before.lock, m.home, m.trash, v, o)
    BY <1>2, <2>1, <2>2 DEF Pending
  <2> QED BY <1>1, <1>2, <2>3 DEF Sound
<1> QED BY <1>3 DEF Fitting

(* The directory of a plugin that is settled goes to the trash.              *)
LEMMA TakeConsistent ==
  ASSUME RecoveryInv, NEW i \in Txn, disk.intent = i, safe.intent = i, i.op = "R",
         AllSettled(disk, safe, odd), i.name \in disk.lock,
         disk.home[i.name] # "none",
         NEW d2, MovesTo(disk, [disk.home EXCEPT ![i.name] = "none"],
                         [disk.trash EXCEPT ![i.who] = disk.home[i.name]], d2)
  PROVE  Consistent(d2, safe, odd)
<1> DEFINE n == i.name
           q == i.who
<1>1. n \in Names /\ q \in Procs /\ i # NoIntent
  BY DEF Txn, NoIntent
<1>2. /\ \A k \in Names \ {n} : d2.home[k] = disk.home[k]
      /\ \A x \in Procs \ {q} : d2.trash[x] = disk.trash[x]
      /\ d2.home[n] = "none" /\ d2.trash[q] = disk.home[n]
      /\ Moves2(disk, d2)
  BY <1>1, Domains DEF MovesTo
<1>3. ASSUME NEW l \in {disk, safe}, NEW t \in {disk, safe} PROVE Sound(d2, l, t, odd)
  <2>1. Sound(disk, l, t, odd)
    BY Disky DEF Consistent, AllSound
  <2>2. Pending(i, t.before.lock, disk.home, disk.trash, l.lock, odd)
    BY <1>1, <2>1 DEF Sound
  <2>3. Settled(disk.home, disk.trash, l.lock, odd)
    BY DEF AllSettled
  <2>4. n \notin odd.strayed =>
          Taken(n, q, t.before.lock, d2.home, d2.trash, l.lock, odd)
    BY <1>1, <1>2, <2>2, <2>3 DEF Pending, Taken, Settled, Whole
  <2>5. \A x \in Procs : d2.trash[x] # "none" => x = q
    BY <1>2, <2>3 DEF Settled
  <2>6. Pending(i, t.before.lock, d2.home, d2.trash, l.lock, odd)
    BY <1>1, <1>2, <2>2, <2>4, <2>5 DEF Pending, Whole
  <2> QED BY <1>1, <2>1, <2>6 DEF Sound
<1>4. Kept(d2, safe, odd)
  <2>1. Settled(safe.home, safe.trash, disk.lock, odd)
    BY DEF AllSettled
  <2> QED BY <1>1, <1>2, <2>1 DEF Kept, Settled, Whole, Moves2
<1> QED BY <1>2, <1>3, <1>4, MoveConsistent, Disky

LEMMA QuarantineAdvances ==
  ASSUME RecoveryInv, Alone = TRUE, NEW p \in Procs, Quarantine(p)
  PROVE  Advances(p)
<1> DEFINE r == proc[p]
           i == r.mine
           n == i.name
<1>0. Mine(p) = i /\ odd' = odd
  BY DEF Quarantine, Mine
<1>1. ASSUME r.pc \in Open
      PROVE  /\ i \in Txn /\ i # NoIntent /\ i.who = p /\ n \in Names
             /\ disk.intent = i /\ safe.intent = i /\ r.lk = disk.before.lock
             /\ Opening(r, r.pc, disk, safe, odd)
             /\ Discarding(r, r.pc, disk, safe, odd)
  BY <1>1, Held DEF Fact
<1>2. i.op = "R" /\ r \in Process(p) /\ DOMAIN proc = Procs
  BY Disky DEF Quarantine, At, IntentInv, Good, Fits, Removing
<1>3. CASE /\ At(p, "m_load") /\ UNCHANGED <<disk, safe, left>>
           /\ proc' = [proc EXCEPT ![p] =
                 IF n \in disk.lock THEN [@ EXCEPT !.lk = disk.lock, !.pc = "b_copies"]
                                    ELSE Ended(@)]
  <2>1. disk.intent = NoIntent
    BY <1>3 DEF RecoveryInv, Fact, Opening, At
  <2>2. CASE n \in disk.lock
    <3>1. /\ proc'[p].pc = "b_copies" /\ proc'[p].lk = disk.lock
          /\ proc'[p].mine = i
      BY <1>2, <1>3, <2>2 DEF Process
    <3>2. ASSUME NEW x, x.lk = disk.lock, x.mine = i
          PROVE  Fact(x, "b_copies", disk, safe, odd)
      BY <1>2, <2>1, <2>2, <3>2
      DEF Fact, Unwinding, Closing, Opening, Publishing, Discarding, Open
    <3>3. Fact(proc'[p], proc'[p].pc, disk, safe, odd)
      BY <3>1, <3>2
    <3> QED BY <1>0, <1>3, <3>3, Disky DEF Advances
  <2>3. CASE n \notin disk.lock
    <3>1. proc'[p] = Ended(r)
      BY <1>2, <1>3, <2>3
    <3> QED BY <1>0, <1>3, <3>1, EndedFact, Disky DEF Advances
  <2> QED BY <2>2, <2>3
<1>4. CASE /\ At(p, "m_quar") /\ safe' = safe
           /\ \/ disk.home[n] = "none" /\ disk' = disk /\ Goto(p, "m_lock")
              \/ /\ disk.home[n] # "none" /\ disk' = Rename(disk, n, p, TRUE)
                 /\ Goto(p, "m_root")
              \/ disk.home[n] # "none" /\ disk' = disk /\ Fault(p, "m_fail")
  <2>0. r.pc \in Open
    BY <1>4 DEF At, Open
  <2>1. AllSettled(disk, safe, odd) /\ n \in disk.lock
    BY <1>1, <1>2, <1>4, <2>0 DEF Opening, At
  <2>2. CASE disk.home[n] = "none" /\ disk' = disk /\ Goto(p, "m_lock")
    <3>1. disk.trash[p] = "none" /\ safe.trash[p] = "none" /\ n \in odd.strayed
      BY <1>1, <2>0, <2>1, <2>2 DEF AllSettled, Settled, Whole
    <3>2. Fact(r, "m_lock", disk, safe, odd)
      <4>1. /\ safe.intent = r.mine /\ r.lk = disk.before.lock /\ r.mine.who = p
            /\ r.mine.name \in odd.strayed /\ r.mine.name \in disk.lock
            /\ disk.home[r.mine.name] = "none"
        BY <1>1, <2>0, <2>1, <2>2, <3>1
      <4> HIDE DEF r
      <4> QED BY <3>1, <4>1
          DEF Fact, Unwinding, Closing, Opening, Publishing, Discarding, Open
    <3> QED BY <1>0, <1>4, <2>2, <3>2, PlainAdvances, Itself
  <2>3. CASE /\ disk.home[n] # "none" /\ disk' = Rename(disk, n, p, TRUE)
             /\ Goto(p, "m_root")
    <3>1. MovesTo(disk, [disk.home EXCEPT ![n] = "none"],
                  [disk.trash EXCEPT ![p] = disk.home[n]], disk')
      BY <1>1, <2>0, <2>3, RenameCases
    <3>2. Consistent(disk', safe, odd)
      BY <1>1, <1>2, <2>0, <2>1, <2>3, <3>1, TakeConsistent
    <3>3. /\ disk'.home[n] = "none" /\ disk'.trash[p] # "none"
          /\ disk'.lock = disk.lock /\ disk'.before = disk.before
      BY <1>1, <2>0, <2>3, <3>1, Domains DEF MovesTo, Moves2
    <3>4. Fact(r, "m_root", disk', safe, odd)
      <4>1. /\ safe.intent = r.mine /\ r.lk = disk'.before.lock /\ r.mine.who = p
            /\ r.mine.name \in disk'.lock /\ disk'.home[r.mine.name] = "none"
        BY <1>1, <2>0, <2>1, <3>3
      <4> HIDE DEF r
      <4> QED BY <3>3, <4>1
          DEF Fact, Unwinding, Closing, Opening, Publishing, Discarding, Open
    <3> QED BY <1>0, <1>4, <2>3, <3>2, <3>4, Goes, Disky DEF Advances
  <2>4. CASE disk' = disk /\ Fault(p, "m_fail")
    <3>1. Harmless(p, "m_fail", disk, safe, odd)
      BY <1>1, <2>0, GivingUpFact DEF Harmless, GivingUp
    <3> QED BY <1>0, <1>4, <2>4, <3>1, PlainAdvances, Itself
  <2> QED BY <1>4, <2>2, <2>3, <2>4
<1>5. ASSUME r.pc \in {"m_root", "m_data"}
      PROVE  /\ r.pc \in Open
             /\ n \in disk.lock /\ disk.home[n] = "none" /\ disk.trash[p] # "none"
             /\ Harmless(p, "m_unquar", disk, safe, odd)
  <2>0. r.pc \in Open
    BY <1>5 DEF Open
  <2>1. n \in disk.lock /\ disk.home[n] = "none" /\ disk.trash[p] # "none"
    BY <1>1, <1>5, <2>0 DEF Discarding
  <2>2. n \in odd.strayed \union odd.doubted \/ n \in safe.lock
    BY <1>1, <2>0, <2>1, Disky DEF Consistent, LocksAgree
  <2>3. Fact(r, "m_unquar", disk, safe, odd)
    <3>1. safe.intent = r.mine /\ r.lk = disk.before.lock
      BY <1>1, <2>0
    <3> HIDE DEF r
    <3> QED BY <2>1, <2>2, <3>1
        DEF Fact, Unwinding, Closing, Opening, Publishing, Discarding, Open
  <2> QED BY <2>0, <2>1, <2>3 DEF Harmless
<1>6. CASE At(p, "m_root") /\ Flush(p, "root", "m_data", "m_unquar")
  <2>1. /\ r.pc \in Open /\ n \in disk.lock /\ disk.home[n] = "none"
        /\ disk.trash[p] # "none" /\ Harmless(p, "m_unquar", disk, safe, odd)
    BY <1>5, <1>6 DEF At
  <2>2. ASSUME NEW s2, Syncs("root", disk, safe, s2)
        PROVE  Fact(r, "m_data", disk, s2, odd)
    <3>1. /\ s2.home = disk.home /\ s2.trash = disk.trash /\ s2.intent = r.mine
          /\ r.lk = disk.before.lock /\ r.mine.who = p
      BY <1>1, <2>1, <2>2 DEF Syncs
    <3> HIDE DEF r
    <3> QED BY <2>1, <3>1
        DEF Fact, Unwinding, Closing, Opening, Publishing, Discarding, Open
  <2> QED BY <1>0, <1>6, <2>1, <2>2, FlushAdvances
<1>7. CASE At(p, "m_data") /\ Flush(p, "data", "m_lock", "m_unquar")
  <2>1. /\ r.pc \in Open /\ n \in disk.lock /\ disk.home[n] = "none"
        /\ disk.trash[p] # "none" /\ Harmless(p, "m_unquar", disk, safe, odd)
    BY <1>5, <1>7 DEF At
  <2>2. ASSUME NEW s2, Syncs("data", disk, safe, s2)
        PROVE  Fact(r, "m_lock", disk, s2, odd)
    <3>1. /\ s2.home = disk.home /\ s2.trash = disk.trash /\ s2.intent = r.mine
          /\ r.lk = disk.before.lock /\ r.mine.who = p
      BY <1>1, <2>1, <2>2 DEF Syncs
    <3> HIDE DEF r
    <3> QED BY <2>1, <3>1
        DEF Fact, Unwinding, Closing, Opening, Publishing, Discarding, Open
  <2> QED BY <1>0, <1>7, <2>1, <2>2, FlushAdvances
<1> QED BY <1>0, <1>3, <1>4, <1>6, <1>7 DEF Quarantine


LEMMA UnlistAdvances ==
  ASSUME RecoveryInv, Alone = TRUE, NEW p \in Procs, Unlist(p) PROVE Advances(p)
<1> DEFINE r == proc[p]
           i == r.mine
           n == i.name
<1>0. Mine(p) = i /\ r.pc \in Open
  BY DEF Unlist, Mine, At, Open
<1>1. /\ i \in Txn /\ i # NoIntent /\ i.who = p /\ n \in Names
      /\ disk.intent = i /\ safe.intent = i
      /\ r.lk = disk.before.lock /\ r.lk \in SUBSET Names
      /\ [r.t0 EXCEPT ![n] = "unset"] \in Trust
      /\ \A m, l \in {disk, safe} :
           Pending(i, disk.before.lock, m.home, m.trash, l.lock, odd)
      /\ Discarding(r, r.pc, disk, safe, odd)
  BY <1>0, Held DEF Fact
<1>2. i.op = "R"
  BY Disky DEF Unlist, At, IntentInv, Good, Fits, Removing
<1>3. \A d, s : Harmless(p, "recover", d, s, odd) /\ Fact(r, "recover", d, s, odd)
  BY NoFact DEF Harmless, Anywhere
<1>4. CASE /\ At(p, "m_lock")
           /\ SaveLock(p, r.lk \ {n}, IF i.flag THEN "m_rmtrash" ELSE "m_drop",
                       "m_relock")
  <2> DEFINE v == r.lk \ {n}
             good == IF i.flag THEN "m_rmtrash" ELSE "m_drop"
  <2>1. /\ n \in disk.lock /\ disk.home[n] = "none"
        /\ disk.trash[p] = safe.trash[p]
        /\ n \in odd.strayed \/ (safe.home[n] = "none" /\ disk.trash[p] # "none")
    BY <1>1, <1>4 DEF Discarding, At
  <2>2. /\ v \in SUBSET Names /\ n \notin v /\ v = disk.before.lock \ {n}
        /\ good \in {"m_rmtrash", "m_drop"}
    BY <1>1
  <2> HIDE DEF v, good
  <2>3. Fitting(disk, safe, v, odd)
    BY <1>1, <1>2, <2>1, <2>2, TakenLockFits, Disky
  <2>4. ASSUME NEW d2, NEW s2, Relocks(disk, v, d2), Syncs("data", d2, safe, s2)
        PROVE  Fact(r, good, d2, s2, odd)
    <3>1. /\ n \notin d2.lock /\ n \notin s2.lock /\ d2.home[n] = "none"
          /\ s2.home[n] = "none" /\ s2.trash = d2.trash
          /\ s2.intent = i /\ r.lk = d2.before.lock
      BY <1>1, <2>1, <2>2, <2>4 DEF Relocks, Syncs
    <3> HIDE DEF r
    <3> QED BY <2>2, <3>1
        DEF Fact, Unwinding, Closing, Opening, Publishing, Discarding, Open
  <2>5. disk.lock # v
    BY <2>1, <2>2
  <2>6. ASSUME NEW o2, Grows(odd, o2), Differ(v, disk.lock, o2), NEW d2,
               d2 = disk \/ Relocks(disk, v, d2)
        PROVE  Fact(r, "m_relock", d2, safe, o2)
    <3>1. /\ n \in o2.doubted /\ safe.intent = i /\ r.lk = d2.before.lock /\ i.who = p
          /\ n \in o2.strayed \/ (d2.trash[p] # "none" /\ safe.trash[p] # "none")
      BY <1>1, <2>1, <2>2, <2>6 DEF Grows, Differ, Relocks
    <3> HIDE DEF r
    <3> QED BY <3>1
        DEF Fact, Unwinding, Closing, Opening, Publishing, Discarding, Open
  <2> QED BY <1>4, <2>2, <2>3, <2>4, <2>5, <2>6, SaveAdvances DEF Harmless, v, good
<1>5. CASE /\ At(p, "m_drop") /\ odd' = odd
           /\ Write(p, "trust", [r.t0 EXCEPT ![n] = "unset"], "m_rmtrash",
                    "recover", "recover")
  <2>1. /\ n \notin disk.lock /\ n \notin safe.lock /\ disk.home[n] = "none"
        /\ n \in odd.strayed \/ safe.home[n] = "none"
        /\ disk.trash[p] = "none" => safe.trash[p] = "none"
    BY <1>1, <1>5 DEF Discarding, At
  <2>2. ASSUME NEW s2, Syncs("state", disk, safe, s2)
        PROVE  Fact(r, "m_rmtrash", disk, s2, odd)
    <3>1. /\ s2.home = safe.home /\ s2.trash = safe.trash /\ s2.lock = safe.lock
          /\ s2.intent = i /\ r.lk = disk.before.lock /\ i.who = p
      BY <1>1, <2>2 DEF Syncs
    <3> HIDE DEF r
    <3> QED BY <2>1, <3>1
        DEF Fact, Unwinding, Closing, Opening, Publishing, Discarding, Open
  <2> QED BY <1>1, <1>3, <1>5, <2>2, TrustAdvances
<1>6. ASSUME At(p, "m_rmtrash") \/ At(p, "m_rmsync")
      PROVE  /\ n \notin disk.lock /\ n \notin safe.lock /\ disk.home[n] = "none"
             /\ n \in odd.strayed \/ safe.home[n] = "none"
  BY <1>1, <1>6 DEF Discarding, At
<1>7. CASE /\ At(p, "m_rmtrash") /\ disk.trash[p] # "none" /\ odd' = odd
           /\ RmTree(p, "trash", p, "m_rmsync", "recover")
  <2>1. safe' = safe
    BY <1>1, <1>7, TrashCases
  <2>2. ASSUME NEW x, Retrash(disk, p, x, disk')
        PROVE  /\ Consistent(disk', safe, odd) /\ disk'.trash[p] = x
               /\ disk'.lock = disk.lock /\ disk'.home = disk.home
               /\ disk'.before = disk.before
    <3>1. Consistent(disk', safe, odd)
      BY <1>1, <1>2, <1>6, <1>7, <2>2, TrashConsistent
    <3> QED BY <1>1, <2>2, <3>1, Domains DEF Retrash, MovesTo, Moves2
  <2>3. CASE Retrash(disk, p, "part", disk') /\ Goto(p, r.pc)
    <3>1. Fact(r, "m_rmtrash", disk', safe, odd)
      <4>1. /\ safe.intent = i /\ r.lk = disk'.before.lock /\ i.who = p
            /\ disk'.trash[p] # "none" /\ n \notin disk'.lock /\ n \notin safe.lock
            /\ disk'.home[n] = "none" /\ (n \in odd.strayed \/ safe.home[n] = "none")
        BY <1>1, <1>6, <1>7, <2>2, <2>3
      <4> HIDE DEF r
      <4> QED BY <4>1
          DEF Fact, Unwinding, Closing, Opening, Publishing, Discarding, Open
    <3> QED BY <1>7, <2>1, <2>2, <2>3, <3>1, Goes, Disky DEF Advances, At
  <2>4. CASE Retrash(disk, p, "none", disk') /\ Goto(p, "m_rmsync")
    <3>1. Fact(r, "m_rmsync", disk', safe, odd)
      <4>1. /\ safe.intent = i /\ r.lk = disk'.before.lock /\ i.who = p
            /\ disk'.trash[p] = "none" /\ n \notin disk'.lock /\ n \notin safe.lock
            /\ disk'.home[n] = "none" /\ (n \in odd.strayed \/ safe.home[n] = "none")
        BY <1>1, <1>6, <1>7, <2>2, <2>4
      <4> HIDE DEF r
      <4> QED BY <4>1
          DEF Fact, Unwinding, Closing, Opening, Publishing, Discarding, Open
    <3> QED BY <1>7, <2>1, <2>2, <2>4, <3>1, Goes, Disky DEF Advances
  <2>5. CASE disk' = disk /\ Fault(p, "recover")
    BY <1>3, <1>7, <2>1, <2>5, PlainAdvances, Itself
  <2> QED BY <1>1, <1>7, <2>3, <2>4, <2>5, TrashCases
<1>8. CASE /\ At(p, "m_rmtrash") /\ disk.trash[p] = "none"
           /\ UNCHANGED <<disk, safe, odd>> /\ Goto(p, "c_unlink")
  <2>1. disk.trash[p] = "none" => safe.trash[p] = "none"
    BY <1>1, <1>8 DEF Discarding, At
  <2>2. ASSUME NEW m \in {disk, safe}, NEW l \in {disk, safe}
        PROVE  Settled(m.home, m.trash, l.lock, odd)
    BY <1>1, <1>2, <1>6, <1>8, <2>1, DropSettles
  <2>3. AllSettled(disk, safe, odd)
    BY <2>2 DEF AllSettled
  <2> QED BY <1>8, <2>3, SettledFact, PlainAdvances, Itself
<1>9. CASE /\ At(p, "m_rmsync") /\ odd' = odd
           /\ Flush(p, "data", "c_unlink", "recover")
  <2>1. disk.trash[p] = "none"
    BY <1>1, <1>9 DEF Discarding, At
  <2>2. Settled(disk.home, disk.trash, disk.lock, odd)
    BY <1>1, <1>2, <1>6, <1>9, <2>1, DropSettles
  <2>3. ASSUME NEW s2, Syncs("data", disk, safe, s2)
        PROVE  Fact(r, "c_unlink", disk, s2, odd)
    <3>1. AllSettled(disk, s2, odd)
      BY <2>2, <2>3, SettledAll DEF Syncs, SameMoves
    <3> QED BY <3>1, SettledFact
  <2> QED BY <1>3, <1>9, <2>3, FlushAdvances
<1> QED BY <1>0, <1>4, <1>5, <1>7, <1>8, <1>9 DEF Unlist

LEMMA UnremoveAdvances ==
  ASSUME RecoveryInv, Alone = TRUE, NEW p \in Procs, Unremove(p) PROVE Advances(p)
<1> DEFINE r == proc[p]
           i == r.mine
           n == i.name
<1>0. Mine(p) = i /\ r.pc \in Open
  BY DEF Unremove, Mine, At, Open
<1>1. /\ i \in Txn /\ i # NoIntent /\ i.who = p /\ n \in Names /\ Mine(p) = i
      /\ disk.intent = i /\ safe.intent = i
      /\ r.lk = disk.before.lock /\ r.lk \in SUBSET Names /\ r.t0 \in Trust
      /\ \A m, l \in {disk, safe} :
           Pending(i, disk.before.lock, m.home, m.trash, l.lock, odd)
      /\ Discarding(r, r.pc, disk, safe, odd)
  BY <1>0, Held DEF Fact, At, Open, Mine
<1>2. i.op = "R"
  BY Disky DEF Unremove, At, IntentInv, Good, Fits, Removing
<1>3. \A d, s : Harmless(p, "recover", d, s, odd) /\ Fact(r, "recover", d, s, odd)
  BY NoFact DEF Harmless, Anywhere
<1>4. \A to \in {"m_fail", "m_resync"} : Fact(r, to, disk, safe, odd)
  BY <1>1, GivingUpFact DEF GivingUp
<1>5. CASE /\ At(p, "m_relock")
           /\ \E to \in {"m_unquar", "m_fail"} : SaveLock(p, r.lk, to, to)
  <2> DEFINE v == r.lk
  <2>1. /\ n \in odd.doubted
        /\ n \in odd.strayed \/ (disk.trash[p] # "none" /\ safe.trash[p] # "none")
    BY <1>1, <1>5 DEF Discarding, At
  <2>2. v \in SUBSET Names /\ v = disk.before.lock
    BY <1>1
  <2>3. PICK to \in {"m_unquar", "m_fail"} : SaveLock(p, v, to, to)
    BY <1>5
  <2> HIDE DEF v
  <2>4. Fitting(disk, safe, v, odd)
    BY <1>1, <1>2, <2>1, <2>2, TakenLockFits, Disky
  <2>5. ASSUME NEW d2, NEW s2, NEW o2, d2.before = disk.before, s2.intent = i,
               n \in o2.doubted
        PROVE  Fact(r, to, d2, s2, o2)
    <3>1. r.lk = d2.before.lock
      BY <1>1, <2>5
    <3> HIDE DEF r
    <3> QED BY <2>5, <3>1
        DEF Fact, Unwinding, Closing, Opening, Publishing, Discarding, Open
  <2>6. Fact(r, to, disk, safe, odd)
    BY <1>1, <2>1, <2>5
  <2>7. ASSUME NEW d2, NEW s2, Relocks(disk, v, d2), Syncs("data", d2, safe, s2)
        PROVE  Fact(r, to, d2, s2, odd)
    BY <1>1, <2>1, <2>5, <2>7 DEF Relocks, Syncs
  <2>8. ASSUME NEW o2, Grows(odd, o2), NEW d2, d2 = disk \/ Relocks(disk, v, d2)
        PROVE  Fact(r, to, d2, safe, o2)
    BY <1>1, <2>1, <2>5, <2>8 DEF Relocks, Grows
  <2> QED BY <2>2, <2>3, <2>4, <2>6, <2>7, <2>8, SaveAdvances DEF Harmless
<1>6. CASE /\ At(p, "m_unquar") /\ UNCHANGED <<safe, odd>>
           /\ \/ /\ disk.home[n] = "none" /\ disk.trash[p] # "none"
                 /\ disk' = Rename(disk, n, p, FALSE)
                 /\ Goto(p, "m_resync")
              \/ disk' = disk /\ (Goto(p, "m_fail") \/ Fault(p, "m_fail"))
  <2>1. n \in odd.strayed \union odd.doubted \/ (n \in disk.lock /\ n \in safe.lock)
    BY <1>1, <1>6 DEF Discarding, At
  <2>2. CASE /\ disk.home[n] = "none" /\ disk.trash[p] # "none"
             /\ disk' = Rename(disk, n, p, FALSE)
             /\ Goto(p, "m_resync")
    <3>1. MovesTo(disk, [disk.home EXCEPT ![n] = disk.trash[p]],
                  [disk.trash EXCEPT ![p] = "none"], disk')
      BY <1>1, <2>2, RenameCases
    <3>2. Consistent(disk', safe, odd)
      BY <1>1, <1>2, <2>1, <2>2, <3>1, BackConsistent
    <3>3. Fact(r, "m_resync", disk', safe, odd)
      BY <1>1, <3>1, GivingUpFact DEF GivingUp, MovesTo, Moves2
    <3> QED BY <1>6, <2>2, <3>2, <3>3, Goes, Disky DEF Advances
  <2>3. CASE disk' = disk /\ (Goto(p, "m_fail") \/ Fault(p, "m_fail"))
    BY <1>4, <1>6, <2>3, PlainAdvances, Itself DEF Harmless
  <2> QED BY <1>6, <2>2, <2>3
<1>7. CASE At(p, "m_resync") /\ odd' = odd /\ Flush(p, "data", "m_fail", "m_fail")
  <2>1. ASSUME NEW s2, Syncs("data", disk, safe, s2)
        PROVE  Fact(r, "m_fail", disk, s2, odd)
    BY <1>1, <2>1, GivingUpFact DEF GivingUp, Syncs
  <2> QED BY <1>4, <1>7, <2>1, FlushAdvances DEF Harmless
<1>8. CASE /\ At(p, "m_undo") /\ odd' = odd
           /\ Write(p, "trust", r.t0, "recover", "recover", "recover")
  BY <1>1, <1>3, <1>8, TrustAdvances
<1> QED BY <1>1, <1>5, <1>6, <1>7, <1>8 DEF Unremove

-----------------------------------------------------------------------------
(* The world.                                                                *)

(* After a power loss each of the three parts is what it was, or what was    *)
(* safe: all of them together are one of the mixes the invariant allows for. *)
AllAdvance ==
  /\ Consistent(disk', safe', odd')
  /\ \A p \in Procs : Fact(proc'[p], proc'[p].pc, disk', safe', odd')

LEMMA LossAdvances ==
  ASSUME RecoveryInv, Loss PROVE AllAdvance
<1>0. disk \in Disks /\ safe \in Disks /\ Consistent(disk, safe, odd) /\ odd' = odd
  BY Disky DEF Loss
<1>1. PICK gone \in SUBSET Unsafe :
        disk' = [f \in DOMAIN disk |-> IF f \in UNION gone THEN safe[f] ELSE disk[f]]
  BY DEF Loss
<1>2. safe' = disk'
  BY DEF Loss
<1>3. \A part \in gone : part \in {Moved, {"lock"}, Files.state}
  BY <1>1 DEF Unsafe
<1>4. DOMAIN disk = {"intent", "before", "trust", "lock", "home", "stage", "trash"}
  BY <1>0 DEF Disks
<1> DEFINE new == [f \in DOMAIN disk |-> IF f \in UNION gone THEN safe[f] ELSE disk[f]]
<1>5. /\ "home" \in UNION gone <=> Moved \in gone
      /\ "trash" \in UNION gone <=> Moved \in gone
      /\ "lock" \in UNION gone <=> {"lock"} \in gone
      /\ "intent" \in UNION gone <=> Files.state \in gone
      /\ "before" \in UNION gone <=> Files.state \in gone
  <2>1. ASSUME NEW f, NEW part \in {Moved, {"lock"}, Files.state}, f \in part,
               \A x \in {Moved, {"lock"}, Files.state} : f \in x => x = part
        PROVE  f \in UNION gone <=> part \in gone
    BY <1>3, <2>1
  <2>2. /\ Moved = {"home", "stage", "trash"}
        /\ Files.state = {"intent", "before", "trust"}
    BY DEF Moved, Files
  <2> QED BY <2>1, <2>2
<1>6. \E m \in {disk, safe} : SameMoves(m, disk')
  BY <1>1, <1>4, <1>5 DEF SameMoves
<1>7. \E l \in {disk, safe} : disk'.lock = l.lock
  BY <1>1, <1>4, <1>5
<1>8. \E t \in {disk, safe} : SameState(t, disk')
  BY <1>1, <1>4, <1>5 DEF SameState
<1>9. AllSound(disk', safe', odd')
  BY <1>0, <1>2, <1>6, <1>7, <1>8, AllSoundSame DEF Grows, Consistent
<1>10. Consistent(disk', safe', odd')
  BY <1>2, <1>9 DEF Consistent, LocksAgree, Kept, OneIntent
<1>11. ASSUME NEW p \in Procs PROVE Fact(proc'[p], proc'[p].pc, disk', safe', odd')
  <2>1. proc'[p] = IF Idle(p) THEN proc[p] ELSE Ended(proc[p])
    BY DEF Loss
  <2>2. CASE Idle(p)
    BY <2>1, <2>2, NoFact DEF Idle, Anywhere
  <2>3. CASE ~Idle(p)
    BY <2>1, <2>3, EndedFact
  <2> QED BY <2>2, <2>3
<1> QED BY <1>10, <1>11 DEF AllAdvance

(* A decision of the user, whatever command runs: the fsync that ends it     *)
(* makes the intent safe too.                                                *)
LEMMA StateSyncFact ==
  ASSUME NEW r, NEW to, NEW d, NEW s, NEW d2, NEW s2, NEW o, NEW o2, Grows(o, o2),
         Alike(d, d2), Syncs("state", d2, s, s2), Fact(r, to, d, s, o),
         to \in Open => d.intent = r.mine, to # "m_fail"
  PROVE  Fact(r, to, d2, s2, o2)
<1>1. AllSettled(d, s, o) => AllSettled(d2, s2, o2)
  <2>1. AllSettled(d, s, o) => AllSettled(d2, s2, o)
    BY SyncSettled
  <2> QED BY <2>1, SettledGrows DEF AllSettled
<1>2. /\ s2.home = s.home /\ s2.trash = s.trash /\ s2.lock = s.lock
      /\ s2.intent = d.intent
      /\ d2.home = d.home /\ d2.trash = d.trash /\ d2.lock = d.lock
      /\ d2.intent = d.intent /\ d2.before = d.before
  BY DEF Syncs, Alike
<1>3. Unwinding(r, to, d2, s2, o2)
  BY <1>1, <1>2 DEF Fact, Unwinding, Grows
<1>4. Closing(r, to, d2, s2, o2) /\ Opening(r, to, d2, s2, o2)
  BY <1>1, <1>2 DEF Fact, Closing, Opening
<1>5. Publishing(r, to, d2, s2, o2)
  BY <1>1, <1>2 DEF Fact, Publishing, Grows
<1>6. Discarding(r, to, d2, s2, o2)
  BY <1>1, <1>2 DEF Fact, Discarding, Grows
<1> QED BY <1>3, <1>4, <1>5, <1>6 DEF Fact

LEMMA DecideAdvances ==
  ASSUME RecoveryInv, Alone = TRUE, Decide PROVE AllAdvance
<1>1. PICK n \in Names, v \in {"on", "off"} :
        /\ disk' = [disk EXCEPT !.trust[n] = v]
        /\ odd' = IF Quiet THEN odd ELSE [odd EXCEPT !.overtaken = @ \union {n}]
  BY DEF Decide
<1>2. /\ safe' = Flushed(disk', "state") /\ proc' = proc
      /\ disk \in Disks /\ odd \in OddTypes
  BY Disky DEF Decide, IntentInv, Ghosts
<1>3. disk' \in Disks /\ Alike(disk, disk')
  <2>1. disk'.trust = [disk.trust EXCEPT ![n] = v] /\ Alike(disk, disk')
    BY <1>1, <1>2 DEF Disks, Alike
  <2>2. disk' = [disk EXCEPT !.trust = disk'.trust] /\ disk'.trust \in Trust
    BY <1>1, <1>2, <2>1, TrustSet DEF Disks
  <2> QED BY <1>2, <2>1, <2>2 DEF Disks
<1>4. Syncs("state", disk', safe, safe')
  BY <1>2, <1>3, FlushedSyncs, Disky
<1>5. Grows(odd, odd') /\ odd'.strayed = odd.strayed /\ odd'.doubted = odd.doubted
  BY <1>1, <1>2 DEF OddTypes, Grows
<1>6. Consistent(disk', safe', odd)
  BY <1>3, <1>4, SyncConsistent, Disky
<1>7. Consistent(disk', safe', odd')
  BY <1>5, <1>6, AlikeConsistent, Itself
<1>8. ASSUME NEW p \in Procs PROVE Fact(proc[p], proc[p].pc, disk', safe', odd')
  <2>1. /\ Fact(proc[p], proc[p].pc, disk, safe, odd) /\ proc[p].pc # "m_fail"
        /\ proc[p].pc \in Open => disk.intent = proc[p].mine
    BY Disky DEF RecoveryInv, IntentInv, Good, Process, Fits, Steps, Open, Undoing
  <2> QED BY <1>3, <1>4, <1>5, <2>1, StateSyncFact
<1> QED BY <1>2, <1>7, <1>8 DEF AllAdvance

(* The user deletes a directory while nothing runs.                          *)
LEMMA DeletedSound ==
  ASSUME NEW d, NEW l, NEW t, NEW m, NEW o, NEW o2, NEW n \in Names,
         d.home \in [Names -> Tree], Sound(d, l, t, o),
         m.home = [d.home EXCEPT ![n] = "none"], m.trash = d.trash,
         o2.strayed = o.strayed \union {n}, o2.doubted = o.doubted
  PROVE  Sound(m, l, t, o2)
<1>0. m.home[n] = "none" /\ \A k \in Names \ {n} : m.home[k] = d.home[k]
  OBVIOUS
<1>1. Settled(d.home, d.trash, l.lock, o) => Settled(m.home, m.trash, l.lock, o2)
  BY <1>0 DEF Settled, Whole
<1>2. ASSUME NEW i, NEW b, Pending(i, b, d.home, d.trash, l.lock, o)
      PROVE  Pending(i, b, m.home, m.trash, l.lock, o2)
  <2>1. i.op = "R" => m.home[i.name] = "none" \/ m.trash[i.who] = "none"
    <3>1. i.name \in Names \ {n} => m.home[i.name] = d.home[i.name]
      BY <1>0
    <3>2. i.name \notin Names => m.home[i.name] = d.home[i.name]
      OBVIOUS
    <3> QED BY <1>0, <1>2, <3>1, <3>2 DEF Pending
  <2> QED BY <1>0, <1>2, <2>1 DEF Pending, Added, Taken, Whole
<1> QED BY <1>1, <1>2 DEF Sound

LEMMA DeleteAdvances ==
  ASSUME RecoveryInv, Delete PROVE AllAdvance
<1>1. PICK n \in Names :
        /\ disk' = [disk EXCEPT !.home[n] = "none"]
        /\ odd' = [odd EXCEPT !.strayed = @ \union {n}]
  BY DEF Delete
<1>2. /\ safe' = Flushed(disk', "root") /\ proc' = proc /\ \A p \in Procs : Idle(p)
      /\ disk \in Disks /\ odd \in OddTypes
  BY Disky DEF Delete, IntentInv, Ghosts
<1>3. /\ disk'.home = [disk.home EXCEPT ![n] = "none"] /\ disk'.trash = disk.trash
      /\ disk'.lock = disk.lock /\ disk'.intent = disk.intent
      /\ disk'.before = disk.before
  BY <1>1, <1>2 DEF Disks
<1>4. disk' \in Disks
  BY <1>1, <1>2 DEF Disks, Tree
<1>5. Syncs("root", disk', safe, safe')
  BY <1>2, <1>4, FlushedSyncs, Disky
<1>6. odd'.strayed = odd.strayed \union {n} /\ odd'.doubted = odd.doubted
  BY <1>1, <1>2 DEF OddTypes
<1>7. \A m2 \in {disk', safe'} :
        m2.home = [disk.home EXCEPT ![n] = "none"] /\ m2.trash = disk.trash
  BY <1>3, <1>5 DEF Syncs
<1>8. ASSUME NEW m2 \in {disk', safe'}, NEW l2 \in {disk', safe'},
             NEW t2 \in {disk', safe'}
      PROVE  Sound(m2, l2, t2, odd')
  <2>1. PICK l \in {disk, safe} : l2.lock = l.lock
    BY <1>3, <1>5 DEF Syncs
  <2>2. PICK t \in {disk, safe} : SameState(t, t2)
    BY <1>3, <1>5 DEF Syncs, SameState
  <2>3. Sound(disk, l, t, odd)
    BY Disky DEF Consistent, AllSound
  <2>4. Sound(m2, l, t, odd')
    BY <1>6, <1>7, <2>3, Domains, DeletedSound
  <2>5. SameMoves(m2, m2) /\ Grows(odd', odd')
    BY DEF SameMoves, Grows
  <2> QED BY <2>1, <2>2, <2>4, <2>5, SoundSame
<1>9. AllSound(disk', safe', odd')
  BY <1>8 DEF AllSound
<1>10. LocksAgree(disk', safe', odd') /\ OneIntent(disk', safe')
  BY <1>3, <1>5, <1>6, Disky DEF Consistent, LocksAgree, OneIntent, Syncs
<1>11. Kept(disk', safe', odd')
  BY <1>5 DEF Kept, Syncs
<1>12. \A p \in Procs : Fact(proc'[p], proc'[p].pc, disk', safe', odd')
  BY <1>2, NoFact DEF Idle, Anywhere
<1> QED BY <1>9, <1>10, <1>11, <1>12 DEF AllAdvance, Consistent
-----------------------------------------------------------------------------
(* The theorems.                                                             *)

LEMMA RecoveryStart == Init => RecoveryInv
<1> SUFFICES ASSUME Init PROVE RecoveryInv
  OBVIOUS
<1>1. IntentInv
  BY IntentStart
<1>2. /\ disk.intent = NoIntent /\ safe = disk
      /\ \A q \in Procs : disk.trash[q] = "none"
      /\ \A n \in Names : /\ n \in disk.lock <=> disk.home[n] # "none"
                          /\ disk.home[n] # "part"
  BY DEF Init
<1>3. AllSound(disk, safe, odd)
  BY <1>2 DEF AllSound, Sound, Settled, Whole
<1>4. LocksAgree(disk, safe, odd) /\ Kept(disk, safe, odd) /\ OneIntent(disk, safe)
  BY <1>2 DEF LocksAgree, Kept, OneIntent
<1>5. ASSUME NEW p \in Procs PROVE Fact(proc[p], proc[p].pc, disk, safe, odd)
  <2>1. proc[p].pc = "fresh"
    BY DEF Init, Fresh
  <2> QED BY <2>1, NoFact DEF Anywhere
<1> QED BY <1>1, <1>3, <1>4, <1>5 DEF RecoveryInv, Consistent

LEMMA StepAdvances ==
  ASSUME RecoveryInv, Alone = TRUE, NEW p \in Procs, Step(p) PROVE Advances(p)
BY StartAdvances, RecoverAdvances, ForwardAdvances, BackAdvances, FinishAdvances,
   ClearAdvances, BeginAdvances, SwitchOffAdvances, StageAdvances, PublishAdvances,
   UnpublishAdvances, QuarantineAdvances, UnlistAdvances, UnremoveAdvances DEF Step

(* A step of p is p's alone, and when commands do not overlap nobody else is *)
(* in the middle of one.                                                     *)
Only(p) == \A q \in Procs \ {p} : proc'[q] = proc[q]

LEMMA CallsOnly ==
  ASSUME NEW p \in Procs, DOMAIN proc = Procs,
         NEW a, NEW b, NEW c, NEW d, NEW e, NEW f
  PROVE  /\ Goto(p, a) => Only(p)
         /\ Fault(p, a) => Only(p)
         /\ Flush(p, a, b, c) => Only(p)
         /\ Write(p, a, b, c, d, e) => Only(p)
         /\ SaveLock(p, a, b, c) => Only(p)
         /\ RmTree(p, a, b, c, d) => Only(p)
         /\ RmStage(p, a, b, c) => Only(p)
<1>1. \A to : (Goto(p, to) => Only(p)) /\ (Fault(p, to) => Only(p))
  BY DEF Goto, Fault, Only
<1> QED BY <1>1 DEF Flush, Write, SaveLock, RmTree, RmStage

LEMMA StepOnly ==
  ASSUME NEW p \in Procs, DOMAIN proc = Procs, Step(p) PROVE Only(p)
<1>1. CASE Start(p) \/ Recover(p)
  BY <1>1 DEF Start, Recover, Only
<1>2. CASE Forward(p) \/ Clear(p)
  BY <1>2, CallsOnly DEF Forward, Clear
<1>3. CASE Back(p)
  BY <1>3, CallsOnly DEF Back
<1>4. CASE Finish(p)
  BY <1>4, CallsOnly DEF Finish, Only
<1>5. CASE Begin(p)
  BY <1>5, CallsOnly DEF Begin
<1>6. CASE SwitchOff(p) \/ Stage(p)
  BY <1>6, CallsOnly DEF SwitchOff, Stage, Only
<1>7. CASE Publish(p) \/ Unpublish(p)
  BY <1>7, CallsOnly DEF Publish, Unpublish
<1>8. CASE Quarantine(p)
  BY <1>8, CallsOnly DEF Quarantine, Only
<1>9. CASE Unlist(p) \/ Unremove(p)
  BY <1>9, CallsOnly DEF Unlist, Unremove
<1> QED BY <1>1, <1>2, <1>3, <1>4, <1>5, <1>6, <1>7, <1>8, <1>9 DEF Step

LEMMA OthersIdle ==
  ASSUME RecoveryInv, Alone = TRUE, NEW p \in Procs, Step(p) \/ Kill(p),
         NEW q \in Procs \ {p}
  PROVE  proc'[q] = proc[q] /\ Idle(q)
<1>0. DOMAIN proc = Procs /\ IntentInv
  BY Disky DEF IntentInv
<1>1. Idle(q)
  <2>1. CASE Start(p)
    BY <2>1 DEF Start
  <2>2. CASE ~Idle(p)
    BY <1>0, <2>2, Others
  <2>3. CASE Idle(p) /\ ~Start(p)
    BY <2>3 DEF Step, Kill, Idle, At, Recover, Forward, Back, Finish, Clear, Begin,
       SwitchOff, Stage, Publish, Unpublish, Quarantine, Unlist, Unremove
  <2> QED BY <2>1, <2>2, <2>3
<1>2. proc'[q] = proc[q]
  BY <1>0, StepOnly DEF Only, Kill
<1> QED BY <1>1, <1>2

LEMMA KillAdvances ==
  ASSUME RecoveryInv, NEW p \in Procs, Kill(p) PROVE Advances(p)
<1>1. proc'[p] = Ended(proc[p])
  BY Disky DEF Kill, IntentInv
<1> QED BY <1>1, EndedFact, Disky DEF Kill, Advances

LEMMA RecoveryStep ==
  ASSUME Alone = TRUE, RecoveryInv, [Next]_vars PROVE RecoveryInv'
<1>1. IntentInv'
  BY IntentStep DEF RecoveryInv
<1>2. AllAdvance => RecoveryInv'
  BY <1>1 DEF RecoveryInv, AllAdvance
<1>3. ASSUME NEW p \in Procs, Step(p) \/ Kill(p) PROVE RecoveryInv'
  <2>1. Advances(p)
    BY <1>3, StepAdvances, KillAdvances
  <2>2. ASSUME NEW q \in Procs \ {p}
        PROVE  Fact(proc'[q], proc'[q].pc, disk', safe', odd')
    <3>1. proc'[q].pc \in Anywhere
      BY <1>3, OthersIdle DEF Idle, Anywhere
    <3> QED BY <3>1, NoFact
  <2> QED BY <1>2, <2>1, <2>2 DEF Advances, AllAdvance
<1>4. CASE Loss \/ Decide \/ Delete
  BY <1>2, <1>4, LossAdvances, DecideAdvances, DeleteAdvances
<1>5. CASE UNCHANGED vars
  BY <1>1, <1>5 DEF vars, RecoveryInv
<1> QED BY <1>3, <1>4, <1>5 DEF Next

(* Commands that do not overlap are done whole or not at all, whatever calls *)
(* fail, whenever they are killed or the power fails, and however often the  *)
(* recovery of what they left is itself interrupted: for any plugins and any *)
(* number of commands, failures and upsets (pkg_install, pkg_remove,         *)
(* pkg_txn_recover).                                                         *)
THEOREM DoneOrUndone == ASSUME Alone = TRUE PROVE Spec => []AllOrNothing
<1>1. Init => RecoveryInv
  BY RecoveryStart
<1>2. RecoveryInv /\ [Next]_vars => RecoveryInv'
  BY RecoveryStep
<1>3. RecoveryInv => AllOrNothing
  <2> SUFFICES ASSUME RecoveryInv, Quiet PROVE AllOrNothing
    BY DEF AllOrNothing
  <2>1. Settled(disk.home, disk.trash, disk.lock, odd)
    BY QuietSettled, Disky DEF Quiet, AllSettled
  <2> QED BY <2>1 DEF AllOrNothing, Settled, Whole
<1> QED BY <1>1, <1>2, <1>3, PTL DEF Spec

(* A recovery none of whose calls fails ends the transaction it finds, in    *)
(* whatever state an interrupted command, or an interrupted recovery, left   *)
(* the disk: a later command is refused only because a plugin that was being *)
(* removed had no directory to put back (pkg_txn_recover).                   *)
THEOREM AlwaysRecovers == ASSUME Alone = TRUE PROVE Spec => []RecoveryWorks
<1>1. Init => RecoveryInv
  BY RecoveryStart
<1>2. RecoveryInv /\ [Next]_vars => RecoveryInv'
  BY RecoveryStep
<1>3. RecoveryInv => RecoveryWorks
  BY DEF RecoveryInv, Fact, Unwinding, RecoveryWorks, At, Todo
<1> QED BY <1>1, <1>2, <1>3, PTL DEF Spec

-----------------------------------------------------------------------------
(* Who asked for what is live: the second invariant.  It rests on the first, *)
(* which says where the directories and the lock are, and adds the trust     *)
(* file, what the user asked for (a), and the calls that may still fail (w). *)

(* The plugins LiveOnlyAsked speaks of.                                      *)
Plain(o) == Names \ (o.overtaken \union o.doubted \union o.strayed)

Calm(home, trust, o, a) ==
  \A n \in Plain(o) : home[n] # "none" /\ trust[n] = "on" => n \in a

(* While i is open the copy b may come back, and so may the directory under  *)
(* removal; the plugin being installed is listed only when it is to be.      *)
Vouched(i, b, home, lock, trust, o, a) ==
  \A n \in Plain(o) :
    /\ n # i.name =>
         (home[n] # "none" /\ (trust[n] = "on" \/ b[n] = "on") => n \in a)
    /\ n = i.name /\ i.op = "R" => (trust[n] = "on" \/ b[n] = "on" => n \in a)
    /\ n = i.name /\ i.op = "I" =>
         /\ i.flag => n \in a
         /\ n \in lock /\ home[n] # "none" /\ trust[n] = "on" => n \in a

Trusted(m, l, t, o, a) ==
  /\ t.intent = NoIntent => Calm(m.home, t.trust, o, a)
  /\ t.intent # NoIntent =>
       Vouched(t.intent, t.before.trust, m.home, l.lock, t.trust, o, a)

(* As long as no call failed, not even the mixes are otherwise.              *)
Granted(d, s, o, a, w) ==
  /\ \A m, l, t \in {d, s} : Trusted(m, l, t, o, a)
  /\ w.faults = MaxFaults => \A m, t \in {d, s} : Calm(m.home, t.trust, o, a)

NowCalm(d, s, o, a) == \A m \in {d, s} : Calm(m.home, d.trust, o, a)

(* The trust the command read is the one it copied.                          *)
Copied(r, d, o) == \A k \in Names \ o.overtaken : d.before.trust[k] = r.t0[k]

(* What a command r knows of the trust at the label "to".                    *)
Heeds(r, to, d, s, o, a, w) ==
  LET n == r.mine.name IN
  /\ to = "r_trust" /\ r.todo.op = "I" => \A m \in {d, s} : m.home[r.todo.name] = "none"
  /\ to = "r_enable" => r.todo.op = "I" /\ r.todo.flag
  /\ to \in {"r_enable", "r_stage", "c_unlink", "i_on"} => NowCalm(d, s, o, a)
  /\ to = "i_on" => r.mine.flag
  /\ to \in {"b_intent", "load"} =>
       \A k \in Names \ o.overtaken : d.before.trust[k] = d.trust[k]
  /\ to \in (Open \union {"m_fail"}) \ {"load"} /\ ~(r.mine.op = "R" /\ r.mine.flag) =>
       Copied(r, d, o)
  /\ to \in {"i_publish", "i_sync", "i_lock"} =>
       n \in o.overtaken \/ \A t \in {d, s} : t.trust[n] # "on"
  /\ to \in {"i_relock", "i_unpub", "i_unsync", "i_undo"} => w.faults # MaxFaults
  /\ to \in {"i_unsync", "i_undo"} =>
       \A l \in {d, s} : n \in l.lock => n \in o.strayed \union o.doubted
  /\ to \in {"load", "off", "m_drop", "m_undo"} /\ r.mine.op = "R" => ~r.mine.flag

TrustInv ==
  /\ RecoveryInv
  /\ Granted(disk, safe, odd, asked, left)
  /\ \A p \in Procs : Heeds(proc[p], proc[p].pc, disk, safe, odd, asked, left)

Grants(p) ==
  /\ Granted(disk', safe', odd', asked', left')
  /\ Heeds(proc'[p], proc'[p].pc, disk', safe', odd', asked', left')

-----------------------------------------------------------------------------
(* Where control goes.                                                       *)

(* Labels at which nothing needs to be known of the trust.                   *)
Careless ==
  {"fresh", "over", "recover", "r_flush", "r_rmtrash", "r_rmsync", "r_drop",
   "r_rmdir", "r_rmdirsync", "r_back", "r_backroot", "r_backdata", "r_lock",
   "r_fail", "c_sync", "c_copies", "cleared", "pending", "b_copies", "i_stage",
   "i_check", "i_tidy", "i_drop", "m_load"}

LEMMA NoHeed ==
  ASSUME NEW r, NEW to \in Careless, NEW d, NEW s, NEW o, NEW a, NEW w
  PROVE  Heeds(r, to, d, s, o, a, w)
BY DEF Careless, Heeds, Open

LEMMA CalmHeeds ==
  ASSUME NEW r, NEW to \in {"r_stage", "c_unlink"}, NEW d, NEW s, NEW o, NEW a, NEW w,
         NowCalm(d, s, o, a)
  PROVE  Heeds(r, to, d, s, o, a, w)
BY DEF Heeds, Open

(* A removal keeps the trust it read for the ways out that write it.         *)
LEMMA RemovalHeeds ==
  ASSUME NEW r, NEW d, NEW s, NEW o, NEW a, NEW w,
         NEW to \in {"m_quar", "m_root", "m_data", "m_unquar", "m_lock", "m_drop",
                     "m_rmtrash", "m_rmsync", "m_relock", "m_resync", "m_undo", "m_fail"},
         r.mine.op = "R" /\ ~r.mine.flag => Copied(r, d, o),
         to \in {"m_drop", "m_undo"} => ~r.mine.flag, r.mine.op = "R"
  PROVE  Heeds(r, to, d, s, o, a, w)
BY DEF Heeds, Open

(* So does an install that is being given up.                                *)
LEMMA GivingUpHeeds ==
  ASSUME NEW r, NEW d, NEW s, NEW o, NEW a, NEW w, r.mine.op = "I",
         NEW to \in {"i_relock", "i_unpub", "i_unsync", "i_undo"},
         Copied(r, d, o), w.faults # MaxFaults,
         to \in {"i_unsync", "i_undo"} =>
           \A l \in {d, s} :
             r.mine.name \in l.lock => r.mine.name \in o.strayed \union o.doubted
  PROVE  Heeds(r, to, d, s, o, a, w)
BY DEF Heeds, Open

LEMMA SameHeeds ==
  ASSUME NEW r, NEW r2, NEW to, NEW d, NEW s, NEW o, NEW a, NEW w,
         r2.mine = r.mine, r2.todo = r.todo, r2.t0 = r.t0,
         Heeds(r, to, d, s, o, a, w)
  PROVE  Heeds(r2, to, d, s, o, a, w)
BY DEF Heeds, Copied

LEMMA MovingHeeds ==
  ASSUME NEW p, NEW r \in Process(p), NEW to, NEW d, NEW s, NEW o, NEW a, NEW w,
         Heeds(r, to, d, s, o, a, w)
  PROVE  Heeds(Moving(r, to), Moving(r, to).pc, d, s, o, a, w)
<1>0. ASSUME NEW pc, NEW call, Heeds(r, pc, d, s, o, a, w)
      PROVE  LET x == [r EXCEPT !.pc = pc]
                 y == [r EXCEPT !.pc = pc, !.call = call] IN
             Heeds(x, x.pc, d, s, o, a, w) /\ Heeds(y, y.pc, d, s, o, a, w)
  <2> DEFINE x == [r EXCEPT !.pc = pc]
             y == [r EXCEPT !.pc = pc, !.call = call]
  <2>1. /\ x.pc = pc /\ x.mine = r.mine /\ x.todo = r.todo /\ x.t0 = r.t0
        /\ y.pc = pc /\ y.mine = r.mine /\ y.todo = r.todo /\ y.t0 = r.t0
    BY DEF Process
  <2> HIDE DEF x, y
  <2>2. Heeds(x, pc, d, s, o, a, w) /\ Heeds(y, pc, d, s, o, a, w)
    BY <1>0, <2>1, SameHeeds
  <2> QED BY <2>1, <2>2 DEF x, y
<1>1. ASSUME NEW x, x.pc \in Careless PROVE Heeds(x, x.pc, d, s, o, a, w)
  BY <1>1, NoHeed
<1>2. \A x : Ended(x).pc \in Careless
  BY DEF Ended, Fresh, Careless
<1>3. CASE to \in {"over", "cleared"}
  <2>1. Recovered(r, TRUE).pc \in Careless
    <3> DEFINE q == [r EXCEPT !.call = "main", !.todo = NoIntent]
    <3>1. \/ \E x : Recovered(r, TRUE) = Ended(x)
          \/ Recovered(r, TRUE) = [q EXCEPT !.pc = "i_stage"]
          \/ Recovered(r, TRUE) = [q EXCEPT !.pc = "m_load"]
      BY DEF Recovered
    <3>2. /\ [q EXCEPT !.pc = "i_stage"].pc = "i_stage"
          /\ [q EXCEPT !.pc = "m_load"].pc = "m_load"
      BY DEF Process
    <3> QED BY <1>2, <3>1, <3>2 DEF Careless
  <2>2. Moving(r, to) = Recovered(r, TRUE) \/ \E x : Moving(r, to) = Ended(x)
    BY <1>3 DEF Moving
  <2> QED BY <1>1, <1>2, <2>1, <2>2
<1>4. \A l \in {"recover", "r_fail", "i_tidy"} : Heeds(r, l, d, s, o, a, w)
  BY NoHeed DEF Careless
<1>5. CASE to \in {"recover", "pending"}
  BY <1>0, <1>4, <1>5 DEF Moving
<1>6. CASE to = "m_fail"
  <2>1. ~r.mine.flag => Heeds(r, "m_undo", d, s, o, a, w)
    BY <1>6 DEF Heeds, Open
  <2> QED BY <1>0, <1>4, <1>6, <2>1 DEF Moving
<1>7. CASE to \notin {"over", "cleared", "recover", "pending", "m_fail"}
  BY <1>0, <1>7 DEF Moving
<1> QED BY <1>3, <1>5, <1>6, <1>7

LEMMA GoesHeeding ==
  ASSUME IntentInv, NEW p \in Procs, NEW to, NEW d, NEW s, NEW o, NEW a, NEW w,
         Goto(p, to) \/ Fault(p, to), Heeds(proc[p], to, d, s, o, a, w)
  PROVE  Heeds(proc'[p], proc'[p].pc, d, s, o, a, w)
<1> DEFINE r == [proc[p] EXCEPT !.hurt = TRUE]
<1>1. proc[p] \in Process(p) /\ DOMAIN proc = Procs
  BY DEF IntentInv, Good
<1>2. proc'[p] = Moving(proc[p], to) \/ proc'[p] = Moving(r, to)
  BY <1>1 DEF Goto, Fault
<1>3. /\ r \in Process(p) /\ r.mine = proc[p].mine /\ r.todo = proc[p].todo
      /\ r.t0 = proc[p].t0
  BY <1>1 DEF Process
<1> HIDE DEF r
<1>4. Heeds(r, to, d, s, o, a, w)
  BY <1>3, SameHeeds
<1> QED BY <1>1, <1>2, <1>3, <1>4, MovingHeeds

LEMMA Lefts ==
  ASSUME IntentInv, NEW p, NEW to
  PROVE  /\ Goto(p, to) => left' = left
         /\ Fault(p, to) => left'.faults # MaxFaults
BY PkgBounds DEF IntentInv, Ghosts, Counts, Goto, Fault

-----------------------------------------------------------------------------
(* The disks.                                                                *)

(* Fewer plugins are plain; fewer calls may fail.                            *)
Wanes(o, o2) == Grows(o, o2) /\ o.overtaken \subseteq o2.overtaken

Lower(w, w2) == w2.faults = MaxFaults => w.faults = MaxFaults

Thins(m, m2) == \A k \in Names : m2.home[k] # "none" => m.home[k] # "none"

SameTrust(t, t2) ==
  /\ t2.intent = t.intent /\ t2.trust = t.trust
  /\ t.intent = NoIntent \/ t2.before = t.before

LEMMA TrustedSame ==
  ASSUME NEW m, NEW l, NEW t, NEW m2, NEW l2, NEW t2, NEW o, NEW o2, NEW a,
         Wanes(o, o2), Thins(m, m2), l2.lock = l.lock, SameTrust(t, t2),
         Trusted(m, l, t, o, a)
  PROVE  Trusted(m2, l2, t2, o2, a)
<1>1. Plain(o2) \subseteq Plain(o) /\ Plain(o) \subseteq Names
  BY DEF Plain, Wanes, Grows
<1>2. Calm(m.home, t.trust, o, a) => Calm(m2.home, t.trust, o2, a)
  BY <1>1 DEF Calm, Thins
<1>3. ASSUME NEW i, NEW b, Vouched(i, b, m.home, l.lock, t.trust, o, a)
      PROVE  Vouched(i, b, m2.home, l.lock, t.trust, o2, a)
  BY <1>1, <1>3 DEF Vouched, Thins
<1> QED BY <1>2, <1>3 DEF Trusted, SameTrust

LEMMA CalmSame ==
  ASSUME NEW m, NEW m2, NEW trust, NEW o, NEW o2, NEW a,
         Wanes(o, o2), Thins(m, m2), Calm(m.home, trust, o, a)
  PROVE  Calm(m2.home, trust, o2, a)
<1>1. Plain(o2) \subseteq Plain(o) /\ Plain(o) \subseteq Names
  BY DEF Plain, Wanes, Grows
<1> QED BY <1>1 DEF Calm, Thins

(* Mixing what was there before, or less of it, grants nothing new.          *)
LEMMA GrantedMix ==
  ASSUME NEW d, NEW s, NEW d2, NEW s2, NEW o, NEW o2, NEW a, NEW w, NEW w2,
         Granted(d, s, o, a, w), Wanes(o, o2), Lower(w, w2),
         \A m2 \in {d2, s2} : \E m \in {d, s} : Thins(m, m2),
         \A l2 \in {d2, s2} : \E l \in {d, s} : l2.lock = l.lock,
         \A t2 \in {d2, s2} : \E t \in {d, s} : SameTrust(t, t2)
  PROVE  Granted(d2, s2, o2, a, w2)
<1>1. ASSUME NEW m2 \in {d2, s2}, NEW l2 \in {d2, s2}, NEW t2 \in {d2, s2}
      PROVE  Trusted(m2, l2, t2, o2, a)
  <2>1. PICK m \in {d, s} : Thins(m, m2)
    OBVIOUS
  <2>2. PICK l \in {d, s} : l2.lock = l.lock
    OBVIOUS
  <2>3. PICK t \in {d, s} : SameTrust(t, t2)
    OBVIOUS
  <2>4. Trusted(m, l, t, o, a)
    BY DEF Granted
  <2> QED BY <2>1, <2>2, <2>3, <2>4, TrustedSame
<1>2. ASSUME w2.faults = MaxFaults, NEW m2 \in {d2, s2}, NEW t2 \in {d2, s2}
      PROVE  Calm(m2.home, t2.trust, o2, a)
  <2>1. PICK m \in {d, s} : Thins(m, m2)
    OBVIOUS
  <2>2. PICK t \in {d, s} : SameTrust(t, t2)
    OBVIOUS
  <2>3. Calm(m.home, t.trust, o, a)
    BY <1>2 DEF Granted, Lower
  <2>4. Calm(m2.home, t.trust, o2, a)
    BY <2>1, <2>3, CalmSame
  <2> QED BY <2>2, <2>4 DEF SameTrust
<1> QED BY <1>1, <1>2 DEF Granted

LEMMA Oneself ==
  ASSUME NEW x PROVE Thins(x, x) /\ SameTrust(x, x) /\ Wanes(x, x) /\ Lower(x, x)
BY DEF Thins, SameTrust, Wanes, Grows, Lower

-----------------------------------------------------------------------------
(* The system calls.                                                         *)

LEMMA Trusty ==
  ASSUME TrustInv
  PROVE  /\ RecoveryInv /\ IntentInv /\ disk \in Disks /\ safe \in Disks
         /\ Granted(disk, safe, odd, asked, left)
BY Disky DEF TrustInv

(* A step that changes no disk.                                              *)
LEMMA StillGrants ==
  ASSUME TrustInv, NEW p \in Procs, NEW to, Goto(p, to) \/ Fault(p, to),
         disk' = disk, safe' = safe, Wanes(odd, odd'), asked' = asked,
         Heeds(proc[p], to, disk, safe, odd', asked, left')
  PROVE  Grants(p)
<1>1. Lower(left, left')
  BY Lefts, Trusty DEF Lower
<1>2. Granted(disk, safe, odd', asked, left')
  BY <1>1, GrantedMix, Oneself, Trusty
<1> QED BY <1>2, GoesHeeding, Trusty DEF Grants

(* A step whose disks mix what was there before.                             *)
LEMMA MixGrants ==
  ASSUME TrustInv, NEW p \in Procs, NEW to, Goto(p, to) \/ Fault(p, to),
         asked' = asked, Wanes(odd, odd'),
         \A m2 \in {disk', safe'} : \E m \in {disk, safe} : Thins(m, m2),
         \A l2 \in {disk', safe'} : \E l \in {disk, safe} : l2.lock = l.lock,
         \A t2 \in {disk', safe'} : \E t \in {disk, safe} : SameTrust(t, t2),
         Heeds(proc[p], to, disk', safe', odd', asked, left')
  PROVE  Grants(p)
<1>1. Lower(left, left')
  BY Lefts, Trusty DEF Lower
<1>2. Granted(disk', safe', odd', asked, left')
  BY <1>1, GrantedMix, Trusty
<1> QED BY <1>2, GoesHeeding, Trusty DEF Grants

(* d2 is d but for the staging directories.                                  *)
Resembles(d, d2) == Alike(d, d2) /\ d2.trust = d.trust

LEMMA SyncMixes ==
  ASSUME NEW d, NEW d2, NEW s, NEW s2, NEW dir \in {"root", "data", "state"},
         Resembles(d, d2), Syncs(dir, d2, s, s2) \/ s2 = s
  PROVE  /\ \A m2 \in {d2, s2} : \E m \in {d, s} : Thins(m, m2)
         /\ \A l2 \in {d2, s2} : \E l \in {d, s} : l2.lock = l.lock
         /\ \A t2 \in {d2, s2} : \E t \in {d, s} : SameTrust(t, t2)
BY DEF Resembles, Alike, Syncs, Thins, SameTrust

LEMMA FlushGrants ==
  ASSUME TrustInv, NEW p \in Procs, NEW dir \in {"root", "data", "state"},
         NEW good, NEW bad, Flush(p, dir, good, bad), odd' = odd, asked' = asked,
         \A s2 : Syncs(dir, disk, safe, s2) =>
                   Heeds(proc[p], good, disk, s2, odd, asked, left),
         \A w : w.faults # MaxFaults => Heeds(proc[p], bad, disk, safe, odd, asked, w)
  PROVE  Grants(p)
<1>0. Resembles(disk, disk) /\ Wanes(odd, odd')
  BY Oneself DEF Resembles, Alike
<1>1. CASE disk' = disk /\ safe' = Flushed(disk, dir) /\ Goto(p, good)
  <2>1. Syncs(dir, disk, safe, safe') /\ left' = left
    BY <1>1, FlushedSyncs, Lefts, Trusty
  <2> QED BY <1>0, <1>1, <2>1, SyncMixes, MixGrants
<1>2. CASE disk' = disk /\ safe' = safe /\ Fault(p, bad)
  <2>1. left'.faults # MaxFaults
    BY <1>2, Lefts, Trusty
  <2> QED BY <1>0, <1>2, <2>1, StillGrants
<1> QED BY <1>1, <1>2 DEF Flush

LEMMA RmStageGrants ==
  ASSUME TrustInv, NEW p \in Procs, NEW who, NEW good, NEW bad,
         RmStage(p, who, good, bad), odd' = odd, asked' = asked,
         \A d2, s2 : Resembles(disk, d2) /\ Syncs("root", d2, safe, s2) =>
                       Heeds(proc[p], good, d2, s2, odd, asked, left),
         \A d2, w : Resembles(disk, d2) /\ w.faults # MaxFaults =>
                      Heeds(proc[p], bad, d2, safe, odd, asked, w)
  PROVE  Grants(p)
<1> DEFINE new == [disk EXCEPT !.stage = @ \ {who}]
<1>0. /\ new \in Disks /\ Resembles(disk, new) /\ Resembles(disk, disk)
      /\ Wanes(odd, odd')
  BY Trusty, Oneself DEF Disks, Resembles, Alike
<1> HIDE DEF new
<1>1. CASE disk' = new /\ safe' = Flushed(new, "root") /\ Goto(p, good)
  <2>1. Syncs("root", new, safe, safe') /\ left' = left
    BY <1>0, <1>1, FlushedSyncs, Lefts, Trusty
  <2>2. Heeds(proc[p], good, disk', safe', odd', asked, left')
    BY <1>0, <1>1, <2>1
  <2> QED BY <1>0, <1>1, <2>1, <2>2, SyncMixes, MixGrants
<1>2. CASE disk' \in {disk, new} /\ safe' = safe /\ Fault(p, bad)
  <2>1. left'.faults # MaxFaults
    BY <1>2, Lefts, Trusty
  <2>2. Heeds(proc[p], bad, disk', safe', odd', asked, left')
    BY <1>0, <1>2, <2>1
  <2> QED BY <1>0, <1>2, <2>2, SyncMixes, MixGrants
<1> QED BY <1>1, <1>2 DEF RmStage, new

(* A new trust file, which would do with whatever a power loss leaves.       *)
Retrusts(d, v, d2) ==
  /\ d2.home = d.home /\ d2.trash = d.trash /\ d2.lock = d.lock
  /\ d2.intent = d.intent /\ d2.before = d.before /\ d2.trust = v

Suits(v, d, s, o, a) ==
  /\ \A m, l \in {d, s} :
       Trusted(m, l, [intent |-> d.intent, before |-> d.before, trust |-> v], o, a)

LEMMA TrustGranted ==
  ASSUME NEW d, NEW s, NEW v, NEW d2, NEW s2, NEW o, NEW a, NEW w, NEW w2,
         Granted(d, s, o, a, w), Retrusts(d, v, d2), Lower(w, w2),
         Syncs("state", d2, s, s2) \/ s2 = s, Suits(v, d, s, o, a),
         w2.faults = MaxFaults => \A m \in {d, s} : Calm(m.home, v, o, a)
  PROVE  Granted(d2, s2, o, a, w2)
<1> DEFINE t0 == [intent |-> d.intent, before |-> d.before, trust |-> v]
<1>1. \A m2 \in {d2, s2} : \E m \in {d, s} : m2.home = m.home
  BY DEF Retrusts, Syncs
<1>2. \A l2 \in {d2, s2} : \E l \in {d, s} : l2.lock = l.lock
  BY DEF Retrusts, Syncs
<1>3. \A t2 \in {d2, s2} : SameTrust(t0, t2) \/ t2 = s
  BY DEF Retrusts, Syncs, SameTrust
<1>4. t0.trust = v
  OBVIOUS
<1>5. \A m, l \in {d, s} : Trusted(m, l, t0, o, a)
  BY DEF Suits
<1> HIDE DEF t0
<1>6. ASSUME NEW m2 \in {d2, s2}, NEW l2 \in {d2, s2}, NEW t2 \in {d2, s2}
      PROVE  Trusted(m2, l2, t2, o, a)
  <2>1. PICK m \in {d, s} : m2.home = m.home
    BY <1>1
  <2>2. PICK l \in {d, s} : l2.lock = l.lock
    BY <1>2
  <2>3. Thins(m, m2) /\ Wanes(o, o)
    BY <2>1, Oneself DEF Thins
  <2>4. CASE SameTrust(t0, t2)
    BY <1>5, <2>2, <2>3, <2>4, TrustedSame
  <2>5. CASE t2 = s
    BY <2>2, <2>3, <2>5, Oneself, TrustedSame DEF Granted
  <2> QED BY <1>3, <2>4, <2>5
<1>7. ASSUME w2.faults = MaxFaults, NEW m2 \in {d2, s2}, NEW t2 \in {d2, s2}
      PROVE  Calm(m2.home, t2.trust, o, a)
  <2>1. PICK m \in {d, s} : m2.home = m.home
    BY <1>1
  <2>2. Calm(m.home, v, o, a) /\ Calm(m.home, s.trust, o, a)
    BY <1>7 DEF Granted, Lower
  <2>3. t2.trust = v \/ t2 = s
    BY <1>3, <1>4 DEF SameTrust
  <2> QED BY <2>1, <2>2, <2>3
<1> QED BY <1>6, <1>7 DEF Granted

LEMMA TrustGrants ==
  ASSUME TrustInv, NEW p \in Procs, NEW v \in Trust,
         NEW good, NEW lost, NEW unsure,
         Write(p, "trust", v, good, lost, unsure), odd' = odd, asked' = asked,
         Suits(v, disk, safe, odd, asked),
         left.faults = MaxFaults => \A m \in {disk, safe} : Calm(m.home, v, odd, asked),
         \A d2, s2 : Retrusts(disk, v, d2) /\ Syncs("state", d2, safe, s2) =>
                       Heeds(proc[p], good, d2, s2, odd, asked, left),
         \A w : w.faults # MaxFaults => Heeds(proc[p], lost, disk, safe, odd, asked, w),
         \A d2, w : Retrusts(disk, v, d2) /\ w.faults # MaxFaults =>
                      Heeds(proc[p], unsure, d2, safe, odd, asked, w)
  PROVE  Grants(p)
<1> DEFINE new == [disk EXCEPT !["trust"] = v]
<1>0. /\ new \in Disks /\ Retrusts(disk, v, new) /\ Wanes(odd, odd')
  BY Trusty, Oneself DEF Disks, Retrusts
<1> HIDE DEF new
<1>1. CASE disk' = new /\ safe' = Flushed(new, "state") /\ Goto(p, good)
  <2>1. Syncs("state", new, safe, safe') /\ left' = left
    BY <1>0, <1>1, FlushedSyncs, Lefts, Trusty
  <2>2. Heeds(proc[p], good, disk', safe', odd', asked, left')
    BY <1>0, <1>1, <2>1
  <2>3. Granted(disk', safe', odd', asked, left')
    BY <1>0, <1>1, <2>1, Oneself, TrustGranted, Trusty
  <2> QED BY <1>1, <2>2, <2>3, GoesHeeding, Trusty DEF Grants
<1>2. CASE disk' = disk /\ safe' = safe /\ Fault(p, lost)
  <2>1. left'.faults # MaxFaults
    BY <1>2, Lefts, Trusty
  <2> QED BY <1>0, <1>2, <2>1, StillGrants
<1>3. CASE disk' = new /\ safe' = safe /\ Fault(p, unsure)
  <2>1. left'.faults # MaxFaults
    BY <1>3, Lefts, Trusty
  <2>2. Heeds(proc[p], unsure, disk', safe', odd', asked, left')
    BY <1>0, <1>3, <2>1
  <2>3. Granted(disk', safe', odd', asked, left')
    BY <1>0, <1>3, <2>1, TrustGranted, Trusty DEF Lower
  <2> QED BY <1>3, <2>2, <2>3, GoesHeeding, Trusty DEF Grants
<1> QED BY <1>1, <1>2, <1>3 DEF Write, new, DirOf

(* A new lock.                                                               *)
Listable(v, d, s, o, a) == \A m, t \in {d, s} : Trusted(m, [lock |-> v], t, o, a)

LEMMA LockGranted ==
  ASSUME NEW d, NEW s, NEW v, NEW d2, NEW s2, NEW o, NEW o2, NEW a, NEW w, NEW w2,
         Granted(d, s, o, a, w), Relocks(d, v, d2), Lower(w, w2), Wanes(o, o2),
         Syncs("data", d2, s, s2) \/ s2 = s, Listable(v, d, s, o, a)
  PROVE  Granted(d2, s2, o2, a, w2)
<1> DEFINE l0 == [lock |-> v]
<1>1. \A m2 \in {d2, s2} : \E m \in {d, s} : Thins(m, m2)
  BY DEF Relocks, Syncs, Thins
<1>2. \A l2 \in {d2, s2} : l2.lock = l0.lock \/ l2.lock = s.lock
  BY DEF Relocks, Syncs
<1>3. \A t2 \in {d2, s2} : \E t \in {d, s} : SameTrust(t, t2)
  BY DEF Relocks, Syncs, SameTrust
<1>4. \A m, t \in {d, s} : Trusted(m, l0, t, o, a)
  BY DEF Listable
<1> HIDE DEF l0
<1>5. ASSUME NEW m2 \in {d2, s2}, NEW l2 \in {d2, s2}, NEW t2 \in {d2, s2}
      PROVE  Trusted(m2, l2, t2, o2, a)
  <2>1. PICK m \in {d, s} : Thins(m, m2)
    BY <1>1
  <2>2. PICK t \in {d, s} : SameTrust(t, t2)
    BY <1>3
  <2>3. Trusted(m, l0, t, o, a) /\ Trusted(m, s, t, o, a)
    BY <1>4 DEF Granted
  <2> QED BY <1>2, <2>1, <2>2, <2>3, TrustedSame
<1>6. ASSUME w2.faults = MaxFaults, NEW m2 \in {d2, s2}, NEW t2 \in {d2, s2}
      PROVE  Calm(m2.home, t2.trust, o2, a)
  <2>1. PICK m \in {d, s} : Thins(m, m2)
    BY <1>1
  <2>2. PICK t \in {d, s} : SameTrust(t, t2)
    BY <1>3
  <2>3. Calm(m.home, t.trust, o, a)
    BY <1>6 DEF Granted, Lower
  <2>4. Calm(m2.home, t.trust, o2, a)
    BY <2>1, <2>3, CalmSame
  <2> QED BY <2>2, <2>4 DEF SameTrust
<1> QED BY <1>5, <1>6 DEF Granted

LEMMA LockGrants ==
  ASSUME TrustInv, NEW p \in Procs, NEW v \in SUBSET Names, NEW good, NEW bad,
         \/ Write(p, "lock", v, good, bad, bad) /\ odd' = odd
         \/ /\ SaveLock(p, v, good, bad)
            /\ disk.lock = v => Heeds(proc[p], good, disk, safe, odd, asked, left),
         asked' = asked, Listable(v, disk, safe, odd, asked),
         \A d2, s2 : Relocks(disk, v, d2) /\ Syncs("data", d2, safe, s2) =>
                       Heeds(proc[p], good, d2, s2, odd, asked, left),
         \A d2, o2, w :
           /\ Wanes(odd, o2) /\ w.faults # MaxFaults
           /\ d2 = disk \/ Relocks(disk, v, d2)
           => Heeds(proc[p], bad, d2, safe, o2, asked, w)
  PROVE  Grants(p)
<1>1. CASE /\ disk.lock = v /\ UNCHANGED <<disk, safe, odd>> /\ Goto(p, good)
           /\ Heeds(proc[p], good, disk, safe, odd, asked, left)
  <2>1. left' = left /\ Wanes(odd, odd')
    BY <1>1, Lefts, Oneself, Trusty
  <2> QED BY <1>1, <2>1, StillGrants
<1>2. CASE /\ Write(p, "lock", v, good, bad, bad)
           /\ \/ odd' = IF left' = left THEN odd
                        ELSE [odd EXCEPT !.doubted = @ \union
                                ((disk.lock \ v) \union (v \ disk.lock))]
              \/ odd' = odd
  <2>1. odd \in OddTypes
    BY Trusty DEF IntentInv, Ghosts
  <2>2. Wanes(odd, odd') /\ (left' = left => odd' = odd)
    BY <1>2, <2>1 DEF Wanes, Grows, OddTypes
  <2>3. CASE /\ Relocks(disk, v, disk') /\ Syncs("data", disk', safe, safe')
             /\ Goto(p, good)
    <3>1. left' = left /\ odd' = odd
      BY <2>2, <2>3, Lefts, Trusty
    <3>2. Heeds(proc[p], good, disk', safe', odd', asked, left')
      BY <2>3, <3>1
    <3>3. Granted(disk', safe', odd', asked, left')
      BY <2>2, <2>3, <3>1, Oneself, LockGranted, Trusty
    <3> QED BY <2>3, <3>2, <3>3, GoesHeeding, Trusty DEF Grants
  <2>4. CASE disk' = disk /\ safe' = safe /\ Fault(p, bad)
    <3>1. left'.faults # MaxFaults
      BY <2>4, Lefts, Trusty
    <3> QED BY <2>2, <2>4, <3>1, StillGrants
  <2>5. CASE Relocks(disk, v, disk') /\ safe' = safe /\ Fault(p, bad)
    <3>1. left'.faults # MaxFaults
      BY <2>5, Lefts, Trusty
    <3>2. Heeds(proc[p], bad, disk', safe', odd', asked, left')
      BY <2>2, <2>5, <3>1
    <3>3. Granted(disk', safe', odd', asked, left')
      BY <2>2, <2>5, <3>1, LockGranted, Trusty DEF Lower
    <3> QED BY <2>5, <3>2, <3>3, GoesHeeding, Trusty DEF Grants
  <2> QED BY <1>2, <2>3, <2>4, <2>5, LockCases, Trusty
<1> QED BY <1>1, <1>2 DEF SaveLock

(* A directory emptied or gone.                                              *)
LEMMA MovesThin ==
  ASSUME NEW d, NEW s, NEW d2, Moves2(d, d2), Thins(d, d2)
  PROVE  /\ \A m2 \in {d2, s} : \E m \in {d, s} : Thins(m, m2)
         /\ \A l2 \in {d2, s} : \E l \in {d, s} : l2.lock = l.lock
         /\ \A t2 \in {d2, s} : \E t \in {d, s} : SameTrust(t, t2)
BY DEF Moves2, Thins, SameTrust

LEMMA ThinGrants ==
  ASSUME TrustInv, NEW p \in Procs, NEW to, Goto(p, to) \/ Fault(p, to),
         asked' = asked, odd' = odd, safe' = safe,
         Moves2(disk, disk'), Thins(disk, disk'),
         Heeds(proc[p], to, disk', safe, odd, asked, left')
  PROVE  Grants(p)
<1>1. Wanes(odd, odd')
  BY Oneself
<1> QED BY <1>1, MovesThin, MixGrants

LEMMA RmTreeGrants ==
  ASSUME TrustInv, NEW p \in Procs, NEW f, NEW k, NEW good, NEW bad,
         RmTree(p, f, k, good, bad), asked' = asked, odd' = odd,
         \/ f = "home" /\ k \in Names
         \/ f = "trash" /\ k \in Procs,
         \A d2 : Moves2(disk, d2) =>
                   /\ Heeds(proc[p], proc[p].pc, d2, safe, odd, asked, left)
                   /\ Heeds(proc[p], good, d2, safe, odd, asked, left),
         disk[f][k] = "none" => Heeds(proc[p], bad, disk, safe, odd, asked, left),
         \A w : w.faults # MaxFaults => Heeds(proc[p], bad, disk, safe, odd, asked, w)
  PROVE  Grants(p)
<1>1. safe' = safe
  BY DEF RmTree
<1>2. ASSUME disk[f][k] # "none", NEW v, disk' = [disk EXCEPT ![f][k] = v]
      PROVE  Moves2(disk, disk') /\ Thins(disk, disk')
  <2>1. disk \in Disks /\ disk.home \in [Names -> Tree]
    BY Trusty, Domains
  <2>2. CASE f = "home" /\ k \in Names
    <3>1. disk'.home = [disk.home EXCEPT ![k] = v]
      BY <1>2, <2>1, <2>2 DEF Disks
    <3>2. disk.home[k] # "none"
      BY <1>2, <2>2
    <3>3. Thins(disk, disk')
      BY <2>1, <3>1, <3>2 DEF Thins
    <3> QED BY <1>2, <2>1, <2>2, <3>3 DEF Disks, Moves2
  <2>3. CASE f = "trash" /\ k \in Procs
    <3>1. disk'.home = disk.home
      BY <1>2, <2>1, <2>3 DEF Disks
    <3> QED BY <1>2, <2>1, <2>3, <3>1 DEF Disks, Moves2, Thins
  <2> QED BY <2>2, <2>3
<1>3. CASE \/ /\ disk[f][k] = "whole" /\ disk' = [disk EXCEPT ![f][k] = "part"]
              /\ Goto(p, proc[p].pc)
           \/ /\ disk[f][k] = "part" /\ disk' = [disk EXCEPT ![f][k] = "none"]
              /\ Goto(p, good)
  <2>1. Moves2(disk, disk') /\ Thins(disk, disk') /\ left' = left
    BY <1>2, <1>3, Lefts, Trusty
  <2> QED BY <1>1, <1>3, <2>1, ThinGrants
<1>4. CASE disk[f][k] = "none" /\ disk' = disk /\ Goto(p, bad)
  <2>1. left' = left
    BY <1>4, Lefts, Trusty
  <2> QED BY <1>1, <1>4, <2>1, StillGrants, Oneself
<1>5. CASE disk' = disk /\ Fault(p, bad)
  <2>1. left'.faults # MaxFaults
    BY <1>5, Lefts, Trusty
  <2> QED BY <1>1, <1>5, <2>1, StillGrants, Oneself
<1> QED BY <1>3, <1>4, <1>5 DEF RmTree

-----------------------------------------------------------------------------
(* What may be written.                                                      *)

LEMMA PlainNot ==
  ASSUME NEW o, NEW k \in Plain(o)
  PROVE  k \in Names /\ k \notin o.overtaken /\ k \notin o.doubted /\ k \notin o.strayed
BY DEF Plain

LEMMA Vouches ==
  ASSUME TrustInv, disk.intent # NoIntent
  PROVE  /\ \A m, l \in {disk, safe} :
              Vouched(disk.intent, disk.before.trust, m.home, l.lock, disk.trust,
                      odd, asked)
         /\ \A m, l, t \in {disk, safe} : t.intent = disk.intent =>
              Vouched(t.intent, t.before.trust, m.home, l.lock, t.trust, odd, asked)
BY Trusty DEF Granted, Trusted

(* What is vouched for is calm, but for a plugin that is there, enabled and  *)
(* not listed.                                                               *)
LEMMA VouchedCalm ==
  ASSUME NEW i, NEW b, NEW home, NEW lock, NEW trust, NEW o, NEW a,
         Vouched(i, b, home, lock, trust, o, a),
         i.name \in Plain(o) =>
           \/ i.op = "R"
           \/ i.op = "I" /\ (\/ i.flag \/ i.name \in lock \/ home[i.name] = "none"
                             \/ trust[i.name] # "on")
  PROVE  Calm(home, trust, o, a)
BY DEF Vouched, Calm

(* A trust file that enables nothing the transaction does not allow for.     *)
LEMMA NewSuits ==
  ASSUME TrustInv, NEW i, disk.intent = i, i # NoIntent, NEW v,
         \A k \in Plain(odd) \ {i.name} :
           v[k] = "on" => disk.trust[k] = "on" \/ disk.before.trust[k] = "on",
         i.name \in Plain(odd) /\ v[i.name] = "on" =>
           \/ /\ i.op = "R"
              /\ disk.trust[i.name] = "on" \/ disk.before.trust[i.name] = "on"
           \/ /\ i.op = "I"
              /\ i.flag \/ \A m, l \in {disk, safe} :
                             m.home[i.name] = "none" \/ i.name \notin l.lock
  PROVE  Suits(v, disk, safe, odd, asked)
<1> DEFINE b == disk.before.trust
           t0 == [intent |-> disk.intent, before |-> disk.before, trust |-> v]
<1>1. ASSUME NEW m \in {disk, safe}, NEW l \in {disk, safe}
      PROVE  Vouched(i, b, m.home, l.lock, v, odd, asked)
  <2>1. Vouched(i, b, m.home, l.lock, disk.trust, odd, asked)
    BY Vouches
  <2> QED BY <2>1 DEF Vouched
<1>2. t0.intent = i /\ t0.before.trust = b /\ t0.trust = v
  OBVIOUS
<1> HIDE DEF t0
<1>3. \A m, l \in {disk, safe} : Trusted(m, l, t0, odd, asked)
  BY <1>1, <1>2 DEF Trusted
<1> QED BY <1>3 DEF Suits, t0

LEMMA NewCalm ==
  ASSUME TrustInv, NEW i, disk.intent = i, i # NoIntent, NEW v,
         \A k \in Plain(odd) \ {i.name} :
           v[k] = "on" => disk.trust[k] = "on" \/ disk.before.trust[k] = "on",
         i.name \in Plain(odd) /\ v[i.name] = "on" =>
           \/ /\ i.op = "R"
              /\ disk.trust[i.name] = "on" \/ disk.before.trust[i.name] = "on"
           \/ /\ i.op = "I"
              /\ i.flag \/ \A m \in {disk, safe} : m.home[i.name] = "none"
  PROVE  \A m \in {disk, safe} : Calm(m.home, v, odd, asked)
<1>1. ASSUME NEW m \in {disk, safe} PROVE Calm(m.home, v, odd, asked)
  <2>1. Vouched(i, disk.before.trust, m.home, disk.lock, disk.trust, odd, asked)
    BY Vouches
  <2> QED BY <2>1 DEF Vouched, Calm
<1> QED BY <1>1

LEMMA RetrustCalm ==
  ASSUME NEW d, NEW s, NEW v, NEW d2, NEW s2, NEW o, NEW a,
         Retrusts(d, v, d2), Syncs("state", d2, s, s2) \/ s2 = s,
         \A m \in {d, s} : Calm(m.home, v, o, a)
  PROVE  NowCalm(d2, s2, o, a)
BY DEF Retrusts, Syncs, NowCalm

LEMMA SyncCalm ==
  ASSUME NEW d, NEW s, NEW d2, NEW s2, NEW o, NEW a, NEW dir,
         d2.home = d.home, d2.trust = d.trust,
         Syncs(dir, d2, s, s2) \/ s2 = s, NowCalm(d, s, o, a)
  PROVE  NowCalm(d2, s2, o, a)
BY DEF Syncs, NowCalm

(* A lock that lists no more than the transaction allows for.                *)
LEMMA NewListable ==
  ASSUME TrustInv, NEW i, disk.intent = i, i # NoIntent, safe.intent \in {i, NoIntent},
         NEW v,
         \/ i.op # "I" \/ i.name \notin v \/ i.name \notin Plain(odd)
         \/ \A t \in {disk, safe} : t.trust[i.name] # "on"
  PROVE  Listable(v, disk, safe, odd, asked)
<1> DEFINE l0 == [lock |-> v]
<1>0. l0.lock = v
  OBVIOUS
<1> HIDE DEF l0
<1>1. ASSUME NEW m \in {disk, safe}, NEW t \in {disk, safe}
      PROVE  Trusted(m, l0, t, odd, asked)
  <2>1. Trusted(m, disk, t, odd, asked)
    BY Trusty DEF Granted
  <2>2. CASE t.intent = i
    <3>1. Vouched(i, t.before.trust, m.home, disk.lock, t.trust, odd, asked)
      BY <2>1, <2>2 DEF Trusted
    <3>2. Vouched(i, t.before.trust, m.home, v, t.trust, odd, asked)
      BY <3>1 DEF Vouched
    <3> QED BY <1>0, <2>2, <3>2 DEF Trusted
  <2>3. CASE t.intent = NoIntent
    BY <2>1, <2>3 DEF Trusted
  <2> QED BY <2>2, <2>3
<1> QED BY <1>1 DEF Listable, l0

(* The directory that comes back is that of a plugin the user may have       *)
(* enabled, or it is not enabled.                                            *)
LEMMA BackGranted ==
  ASSUME TrustInv, NEW i \in Txn, disk.intent = i, i.op = "R",
         safe.intent \in {i, NoIntent}, disk.trash[i.who] # "none", NEW d2,
         MovesTo(disk, [disk.home EXCEPT ![i.name] = disk.trash[i.who]],
                 [disk.trash EXCEPT ![i.who] = "none"], d2)
  PROVE  Granted(d2, safe, odd, asked, left)
<1> DEFINE n == i.name
<1>1. n \in Names /\ i.who \in Procs /\ i # NoIntent
  BY DEF Txn, NoIntent
<1>2. Moves2(disk, d2) /\ \A k \in Names \ {n} : d2.home[k] = disk.home[k]
  BY <1>1, Domains, Trusty DEF MovesTo
<1>3. safe.intent = i
  <2>1. Sound(disk, disk, safe, odd)
    BY Disky, Trusty DEF Consistent, AllSound
  <2> QED BY <1>1, <2>1 DEF Sound, Settled
<1>4. \A m, l, t \in {disk, safe} :
        Vouched(i, t.before.trust, m.home, l.lock, t.trust, odd, asked)
  BY <1>1, <1>3, Vouches
<1>5. \A m, l, t \in {d2, safe} :
        Vouched(i, t.before.trust, m.home, l.lock, t.trust, odd, asked)
  <2>1. ASSUME NEW m \in {d2, safe}, NEW l \in {d2, safe}, NEW t \in {d2, safe}
        PROVE  Vouched(i, t.before.trust, m.home, l.lock, t.trust, odd, asked)
    <3>1. PICK t1 \in {disk, safe} : t1.before = t.before /\ t1.trust = t.trust
      BY <1>2 DEF Moves2
    <3>2. PICK m1 \in {disk, safe} : \A k \in Names \ {n} : m.home[k] = m1.home[k]
      BY <1>2
    <3>3. Vouched(i, t.before.trust, m1.home, disk.lock, t.trust, odd, asked)
      BY <1>4, <3>1
    <3> QED BY <3>2, <3>3, PlainNot DEF Vouched
  <2> QED BY <2>1
<1>6. \A t \in {d2, safe} : t.intent = i
  BY <1>2, <1>3 DEF Moves2
<1>7. \A m, t \in {d2, safe} : Calm(m.home, t.trust, odd, asked)
  BY <1>5, VouchedCalm
<1> QED BY <1>1, <1>5, <1>6, <1>7 DEF Granted, Trusted

(* Only the state files change.                                              *)
LEMMA StateGranted ==
  ASSUME NEW d, NEW s, NEW d2, NEW s2, NEW o, NEW a, NEW w,
         Restates(d, d2), Restates(s, s2),
         \A m, l \in {d, s}, t \in {d2, s2} : Trusted(m, l, t, o, a),
         w.faults = MaxFaults =>
           \A m \in {d, s}, t \in {d2, s2} : Calm(m.home, t.trust, o, a)
  PROVE  Granted(d2, s2, o, a, w)
<1>1. \A m2 \in {d2, s2} : \E m \in {d, s} : m2.home = m.home
  BY DEF Restates
<1>2. \A l2 \in {d2, s2} : \E l \in {d, s} : l2.lock = l.lock
  BY DEF Restates
<1>3. ASSUME NEW m2 \in {d2, s2}, NEW l2 \in {d2, s2}, NEW t \in {d2, s2}
      PROVE  Trusted(m2, l2, t, o, a)
  <2>1. PICK m \in {d, s} : m2.home = m.home
    BY <1>1
  <2>2. PICK l \in {d, s} : l2.lock = l.lock
    BY <1>2
  <2> QED BY <2>1, <2>2 DEF Trusted
<1> QED BY <1>1, <1>3 DEF Granted

-----------------------------------------------------------------------------
(* The recovery.                                                             *)

LEMMA RecoverGrants ==
  ASSUME TrustInv, NEW p \in Procs, Recover(p) PROVE Grants(p)
<1>1. UNCHANGED <<disk, safe, asked, odd, left>>
  BY DEF Recover
<1>2. proc[p] \in Process(p) /\ DOMAIN proc = Procs
  BY Trusty DEF IntentInv, Good
<1>3. proc'[p].pc \in Careless
  <2>1. CASE disk.intent = NoIntent
    <3> DEFINE r == proc[p]
               q == [r EXCEPT !.call = "main", !.todo = NoIntent]
    <3>1. proc'[p] = Recovered(r, TRUE)
      BY <1>2, <2>1 DEF Recover
    <3>2. \/ \E x : Recovered(r, TRUE) = Ended(x)
          \/ Recovered(r, TRUE) = [q EXCEPT !.pc = "i_stage"]
          \/ Recovered(r, TRUE) = [q EXCEPT !.pc = "m_load"]
      BY DEF Recovered
    <3>3. /\ [q EXCEPT !.pc = "i_stage"].pc = "i_stage"
          /\ [q EXCEPT !.pc = "m_load"].pc = "m_load"
      BY <1>2 DEF Process
    <3>4. \A x : Ended(x).pc = "over"
      BY DEF Ended, Fresh
    <3> QED BY <3>1, <3>2, <3>3, <3>4 DEF Careless
  <2>2. CASE disk.intent # NoIntent
    <3>1. proc'[p].pc = Decision(disk.intent)
      BY <1>2, <2>2 DEF Recover, Process
    <3>2. disk.intent.op \in {"I", "R"}
      BY <2>2, Disky, Trusty DEF Txn
    <3> QED BY <3>1, <3>2, DecisionCases DEF Careless
  <2> QED BY <2>1, <2>2
<1> QED BY <1>1, <1>3, NoHeed, Trusty DEF Grants

LEMMA ForwardGrants ==
  ASSUME TrustInv, Alone = TRUE, NEW p \in Procs, Forward(p) PROVE Grants(p)
<1> DEFINE r == proc[p]
           i == r.todo
           n == i.name
<1>0. odd' = odd /\ asked' = asked /\ Todo(p) = i /\ r.pc \in Undoing
  BY DEF Forward, Todo, At, Undoing
<1>1. /\ i \in Txn /\ disk.intent = i /\ i # NoIntent
      /\ n \in Names /\ i.who \in Procs /\ i.op \in {"I", "R"}
      /\ Unwinding(r, r.pc, disk, safe, odd)
      /\ Heeds(r, r.pc, disk, safe, odd, asked, left)
  BY <1>0, Known, Trusty DEF Fact, TrustInv
<1>2. ASSUME NEW to \in {"r_rmtrash", "r_drop", "r_rmsync", "r_fail"},
             NEW d, NEW s, NEW o, NEW w
      PROVE  Heeds(r, to, d, s, o, asked, w)
  BY NoHeed DEF Careless
<1>3. disk.trust \in Trust
  BY Trusty DEF Disks
<1>4. ASSUME i.op = "R" PROVE NowCalm(disk, safe, odd, asked)
  BY <1>1, <1>4, Vouches, VouchedCalm DEF NowCalm
<1>5. CASE /\ At(p, "r_flush")
           /\ Flush(p, "data", IF i.op = "R" THEN "r_rmtrash"
                               ELSE IF i.flag THEN "r_enable" ELSE "r_stage", "r_fail")
  <2>1. ASSUME i.op = "I", NEW s2, Syncs("data", disk, safe, s2)
        PROVE  NowCalm(disk, s2, odd, asked)
    <3>1. n \in disk.lock
      BY <1>1, <1>5, <2>1 DEF Unwinding, At
    <3>2. Calm(disk.home, disk.trust, odd, asked)
      BY <1>1, <2>1, <3>1, Vouches, VouchedCalm
    <3> QED BY <2>1, <3>2 DEF Syncs, NowCalm
  <2>2. ASSUME i.op = "I", NEW s2, Syncs("data", disk, safe, s2)
        PROVE  /\ Heeds(r, "r_stage", disk, s2, odd, asked, left)
               /\ i.flag => Heeds(r, "r_enable", disk, s2, odd, asked, left)
    <3>1. NowCalm(disk, s2, odd, asked)
      BY <2>1, <2>2
    <3> HIDE DEF r
    <3> QED BY <2>2, <3>1 DEF Heeds, Open
  <2> QED BY <1>0, <1>1, <1>2, <1>5, <2>2, FlushGrants
<1>6. CASE /\ At(p, "r_enable")
           /\ Write(p, "trust", [disk.trust EXCEPT ![n] = "on"], "r_stage",
                    "r_fail", "r_fail")
  <2> DEFINE v == [disk.trust EXCEPT ![n] = "on"]
  <2>1. i.op = "I" /\ i.flag
    BY <1>1, <1>6 DEF Heeds, At
  <2>2. v \in Trust /\ \A k \in Names \ {n} : v[k] = disk.trust[k]
    BY <1>3, TrustSet DEF Trust
  <2>3. v \in Trust /\ \A k \in Plain(odd) \ {n} : v[k] = "on" => disk.trust[k] = "on"
    BY <2>2, PlainNot
  <2> HIDE DEF v
  <2>4. Suits(v, disk, safe, odd, asked)
    BY <1>1, <2>1, <2>3, NewSuits
  <2>5. \A m \in {disk, safe} : Calm(m.home, v, odd, asked)
    BY <1>1, <2>1, <2>3, NewCalm
  <2>6. ASSUME NEW d2, NEW s2, Retrusts(disk, v, d2), Syncs("state", d2, safe, s2)
        PROVE  Heeds(r, "r_stage", d2, s2, odd, asked, left)
    BY <2>5, <2>6, RetrustCalm, CalmHeeds
  <2> QED BY <1>0, <1>2, <1>6, <2>3, <2>4, <2>5, <2>6, TrustGrants DEF v
<1>7. CASE /\ At(p, "r_rmtrash") /\ RmTree(p, "trash", i.who, "r_rmsync", "r_fail")
  BY <1>0, <1>1, <1>2, <1>7, RmTreeGrants DEF At
<1>8. CASE /\ \/ At(p, "r_rmtrash") /\ disk.trash[i.who] = "none"
              \/ At(p, "r_rmsync")
           /\ Flush(p, "data", IF i.flag THEN "c_unlink" ELSE "r_drop", "r_fail")
  <2>1. i.op = "R"
    BY <1>1, <1>8 DEF Unwinding, At
  <2>2. ASSUME NEW s2, Syncs("data", disk, safe, s2)
        PROVE  Heeds(r, "c_unlink", disk, s2, odd, asked, left)
    BY <1>4, <2>1, <2>2, SyncCalm, CalmHeeds
  <2> QED BY <1>0, <1>2, <1>8, <2>2, FlushGrants
<1>9. CASE /\ At(p, "r_drop")
           /\ Write(p, "trust", [disk.trust EXCEPT ![n] = "unset"],
                    "c_unlink", "r_fail", "r_fail")
  <2> DEFINE v == [disk.trust EXCEPT ![n] = "unset"]
  <2>2. v \in Trust /\ v[n] # "on" /\ \A k \in Names \ {n} : v[k] = disk.trust[k]
    BY <1>1, <1>3, TrustSet DEF Trust
  <2>3. \A k \in Plain(odd) \ {n} : v[k] = "on" => disk.trust[k] = "on"
    BY <2>2, PlainNot
  <2> HIDE DEF v
  <2>4. Suits(v, disk, safe, odd, asked)
    BY <1>1, <2>2, <2>3, NewSuits
  <2>5. \A m \in {disk, safe} : Calm(m.home, v, odd, asked)
    BY <1>1, <2>2, <2>3, NewCalm
  <2>6. ASSUME NEW d2, NEW s2, Retrusts(disk, v, d2), Syncs("state", d2, safe, s2)
        PROVE  Heeds(r, "c_unlink", d2, s2, odd, asked, left)
    BY <2>5, <2>6, RetrustCalm, CalmHeeds
  <2> QED BY <1>0, <1>2, <1>9, <2>2, <2>4, <2>5, <2>6, TrustGrants DEF v
<1> QED BY <1>0, <1>5, <1>6, <1>7, <1>8, <1>9 DEF Forward

LEMMA BackGrants ==
  ASSUME TrustInv, Alone = TRUE, NEW p \in Procs, Back(p) PROVE Grants(p)
<1> DEFINE r == proc[p]
           i == r.todo
           n == i.name
<1>0. asked' = asked /\ Todo(p) = i /\ r.pc \in Undoing
  BY DEF Back, Todo, At, Undoing
<1>1. /\ i \in Txn /\ disk.intent = i /\ i # NoIntent
      /\ n \in Names /\ i.who \in Procs /\ i.op \in {"I", "R"}
      /\ disk.before # NoCopy /\ disk.before.lock \in SUBSET Names
      /\ disk.before.trust \in Trust
      /\ Pending(i, disk.before.lock, disk.home, disk.trash, disk.lock, odd)
      /\ safe.intent \in {i, NoIntent}
      /\ Unwinding(r, r.pc, disk, safe, odd)
      /\ Heeds(r, r.pc, disk, safe, odd, asked, left)
  BY <1>0, Known, Trusty DEF Fact, TrustInv
<1>2. ASSUME NEW to \in {"r_rmdir", "r_rmdirsync", "r_lock", "r_backroot",
                         "r_backdata", "r_fail"},
             NEW d, NEW s, NEW o, NEW w
      PROVE  Heeds(r, to, d, s, o, asked, w)
  BY NoHeed DEF Careless
<1>3. CASE /\ At(p, "r_rmdir") /\ odd' = odd
           /\ RmTree(p, "home", n, "r_rmdirsync", "r_fail")
  BY <1>0, <1>1, <1>2, <1>3, RmTreeGrants DEF At
<1>4. CASE /\ odd' = odd
           /\ \/ At(p, "r_rmdirsync") /\ Flush(p, "root", "r_lock", "r_fail")
              \/ At(p, "r_backroot") /\ Flush(p, "root", "r_backdata", "r_fail")
              \/ At(p, "r_backdata") /\ Flush(p, "data", "r_lock", "r_fail")
  BY <1>0, <1>2, <1>4, FlushGrants
<1>5. CASE UNCHANGED <<disk, safe, odd>> /\ (Goto(p, "r_fail") \/ Fault(p, "r_fail"))
  BY <1>0, <1>2, <1>5, StillGrants, Oneself
<1>6. CASE /\ At(p, "r_back") /\ UNCHANGED <<safe, odd>> /\ disk.trash[i.who] # "none"
           /\ disk' = Rename(disk, n, i.who, FALSE) /\ Goto(p, "r_backroot")
  <2>1. i.op = "R"
    BY <1>1, <1>6 DEF Unwinding, At
  <2>2. Granted(disk', safe, odd, asked, left)
    BY <1>1, <1>6, <2>1, RenameCases, BackGranted, Trusty
  <2>3. left' = left
    BY <1>6, Lefts, Trusty
  <2>4. Heeds(r, "r_backroot", disk', safe', odd', asked', left')
    BY <1>0, <1>2
  <2>5. Heeds(proc'[p], proc'[p].pc, disk', safe', odd', asked', left')
    BY <1>6, <2>4, GoesHeeding, Trusty
  <2> QED BY <1>0, <1>6, <2>2, <2>3, <2>5 DEF Grants
<1>7. CASE /\ At(p, "r_lock") /\ odd' = odd
           /\ Write(p, "lock", disk.before.lock, "r_trust", "r_fail", "r_fail")
  <2> DEFINE v == disk.before.lock
  <2>1. i.op = "I" <=> disk.home[n] = "none"
    BY <1>1, <1>7 DEF Unwinding, At
  <2>2. i.op = "I" /\ n \in Plain(odd) => n \notin v
    BY <1>1, PlainNot DEF Pending, Added
  <2>3. Listable(v, disk, safe, odd, asked)
    BY <1>1, <2>2, NewListable
  <2>4. ASSUME NEW d2, NEW s2, Relocks(disk, v, d2), Syncs("data", d2, safe, s2)
        PROVE  Heeds(r, "r_trust", d2, s2, odd, asked, left)
    <3>1. d2.home = disk.home /\ s2.home = disk.home
      BY <2>4 DEF Relocks, Syncs
    <3> HIDE DEF r
    <3> QED BY <2>1, <3>1 DEF Heeds, Open
  <2> QED BY <1>0, <1>1, <1>2, <1>7, <2>3, <2>4, LockGrants
<1>8. CASE /\ At(p, "r_trust") /\ odd' = odd
           /\ Write(p, "trust", disk.before.trust,
                    IF i.op = "I" THEN "r_stage" ELSE "c_unlink", "r_fail", "r_fail")
  <2> DEFINE v == disk.before.trust
  <2>1. i.op = "I" => \A m \in {disk, safe} : m.home[n] = "none"
    BY <1>1, <1>8 DEF Heeds, At
  <2>2. Suits(v, disk, safe, odd, asked)
    BY <1>1, <2>1, NewSuits
  <2>3. \A m \in {disk, safe} : Calm(m.home, v, odd, asked)
    BY <1>1, <2>1, NewCalm
  <2>4. ASSUME NEW d2, NEW s2, Retrusts(disk, v, d2), Syncs("state", d2, safe, s2),
               NEW to \in {"r_stage", "c_unlink"}
        PROVE  Heeds(r, to, d2, s2, odd, asked, left)
    BY <2>3, <2>4, RetrustCalm, CalmHeeds
  <2> QED BY <1>0, <1>1, <1>2, <1>8, <2>2, <2>3, <2>4, TrustGrants
<1> QED BY <1>0, <1>3, <1>4, <1>5, <1>6, <1>7, <1>8 DEF Back

LEMMA FinishGrants ==
  ASSUME TrustInv, NEW p \in Procs, Finish(p) PROVE Grants(p)
<1>0. odd' = odd /\ asked' = asked
  BY DEF Finish
<1>1. CASE At(p, "r_stage") /\ RmStage(p, Todo(p).who, "c_unlink", "r_fail")
  <2>1. NowCalm(disk, safe, odd, asked)
    BY <1>1 DEF TrustInv, Heeds, At
  <2>2. ASSUME NEW d2, NEW s2, Resembles(disk, d2), Syncs("root", d2, safe, s2)
        PROVE  Heeds(proc[p], "c_unlink", d2, s2, odd, asked, left)
    <3>1. NowCalm(d2, s2, odd, asked)
      BY <2>1, <2>2, SyncCalm DEF Resembles, Alike
    <3> QED BY <3>1, CalmHeeds
  <2>3. \A d2, w : Heeds(proc[p], "r_fail", d2, safe, odd, asked, w)
    BY NoHeed DEF Careless
  <2> QED BY <1>0, <1>1, <2>2, <2>3, RmStageGrants
<1>2. CASE /\ UNCHANGED <<disk, safe, left>>
           /\ proc' = [proc EXCEPT ![p] = Recovered(@, FALSE)]
  <2>1. proc'[p] = Ended(proc[p])
    BY <1>2, Trusty DEF Recovered, IntentInv
  <2>2. proc'[p].pc \in Careless
    BY <2>1 DEF Ended, Fresh, Careless
  <2> QED BY <1>0, <1>2, <2>2, NoHeed, Trusty DEF Grants
<1> QED BY <1>1, <1>2 DEF Finish

LEMMA ClearGrants ==
  ASSUME TrustInv, NEW p \in Procs, Clear(p) PROVE Grants(p)
<1> DEFINE r == proc[p]
<1>0. odd' = odd /\ asked' = asked
  BY DEF Clear
<1>1. ASSUME NEW to \in {"c_sync", "c_copies", "cleared", "pending"},
             NEW d, NEW s, NEW o, NEW w
      PROVE  Heeds(r, to, d, s, o, asked, w)
  BY NoHeed DEF Careless
<1>2. CASE /\ At(p, "c_unlink") /\ safe' = safe
           /\ disk' = [disk EXCEPT !.intent = NoIntent] /\ Goto(p, "c_sync")
  <2>1. NowCalm(disk, safe, odd, asked)
    BY <1>2 DEF TrustInv, Heeds, At
  <2>2. /\ Restates(disk, disk') /\ Restates(safe, safe)
        /\ disk'.intent = NoIntent /\ disk'.trust = disk.trust
    BY <1>2, Trusty DEF Disks, Restates
  <2>3. \A m, l \in {disk, safe}, t \in {disk', safe} : Trusted(m, l, t, odd, asked)
    BY <2>1, <2>2, Trusty DEF Granted, Trusted, NowCalm
  <2>4. left.faults = MaxFaults =>
          \A m \in {disk, safe}, t \in {disk', safe} : Calm(m.home, t.trust, odd, asked)
    BY <2>2, Trusty DEF Granted
  <2>5. Granted(disk', safe, odd, asked, left)
    BY <2>2, <2>3, <2>4, StateGranted
  <2>6. left' = left /\ Heeds(proc'[p], proc'[p].pc, disk', safe', odd', asked', left')
    BY <1>0, <1>1, <1>2, GoesHeeding, Lefts, Trusty
  <2> QED BY <1>0, <1>2, <2>5, <2>6 DEF Grants
<1>3. CASE At(p, "c_sync") /\ Flush(p, "state", "c_copies", "pending")
  BY <1>0, <1>1, <1>3, FlushGrants
<1>4. CASE /\ At(p, "c_copies") /\ safe' = safe
           /\ disk' = [disk EXCEPT !.before = NoCopy] /\ Goto(p, "cleared")
  <2>1. disk.intent = NoIntent
    BY <1>4, Trusty DEF RecoveryInv, Fact, Closing, At
  <2>2. Thins(disk, disk') /\ SameTrust(disk, disk') /\ disk'.lock = disk.lock
    BY <1>4, <2>1, Trusty DEF Disks, Thins, SameTrust
  <2>3. Thins(safe, safe) /\ SameTrust(safe, safe) /\ Wanes(odd, odd)
    BY Oneself
  <2> QED BY <1>0, <1>1, <1>4, <2>2, <2>3, MixGrants
<1>5. CASE UNCHANGED <<disk, safe>> /\ (Fault(p, "pending") \/ Fault(p, "cleared"))
  BY <1>0, <1>1, <1>5, StillGrants, Oneself
<1> QED BY <1>2, <1>3, <1>4, <1>5 DEF Clear

-----------------------------------------------------------------------------
(* The start of a command.                                                   *)

LEMMA StartGrants ==
  ASSUME TrustInv, NEW p \in Procs, Start(p) PROVE Grants(p)
<1>1. proc[p] \in Process(p) /\ DOMAIN proc = Procs
  BY Trusty DEF IntentInv, Good
<1>2. proc'[p].pc = "recover"
  BY <1>1 DEF Start, Process
<1>3. Heeds(proc'[p], proc'[p].pc, disk, safe, odd, asked, left)
  BY <1>2, NoHeed DEF Careless
<1> QED BY <1>3, Trusty DEF Start, Grants

LEMMA StageGrants ==
  ASSUME TrustInv, NEW p \in Procs, Stage(p) PROVE Grants(p)
<1>0. /\ safe' = safe /\ odd' = odd /\ asked' = asked
      /\ proc[p] \in Process(p) /\ DOMAIN proc = Procs
  BY Trusty DEF Stage, IntentInv, Good
<1>1. ASSUME NEW to \in {"over", "b_copies", "i_drop", "i_check"},
             NEW r, NEW d, NEW s, NEW o, NEW w
      PROVE  Heeds(r, to, d, s, o, asked, w)
  BY NoHeed DEF Careless
<1>2. CASE /\ proc' = [proc EXCEPT ![p].lk = disk.lock, ![p].pc = "i_check"]
           /\ disk' = [disk EXCEPT !.stage = @ \union {p}] /\ left' = left
  <2>1. proc'[p].pc = "i_check"
    BY <1>0, <1>2 DEF Process
  <2>2. Resembles(disk, disk')
    BY <1>2, Trusty DEF Disks, Resembles, Alike
  <2>3. Granted(disk', safe, odd, asked, left)
    BY <2>2, SyncMixes, GrantedMix, Oneself, Trusty
  <2>4. Heeds(proc'[p], proc'[p].pc, disk', safe, odd, asked, left)
    BY <1>1, <2>1
  <2> QED BY <1>0, <1>2, <2>3, <2>4 DEF Grants
<1>3. CASE disk' = disk /\ \E to \in {"over", "b_copies", "i_drop"} :
                             Goto(p, to) \/ Fault(p, to)
  BY <1>0, <1>1, <1>3, StillGrants, Oneself
<1> QED BY <1>2, <1>3 DEF Stage

LEMMA PublishHeeds ==
  ASSUME NEW r, NEW d, NEW s, NEW o, NEW a, NEW w, r.mine.op = "I",
         NEW to \in {"i_publish", "i_sync", "i_lock"}, Copied(r, d, o),
         r.mine.name \in o.overtaken \/ \A t \in {d, s} : t.trust[r.mine.name] # "on"
  PROVE  Heeds(r, to, d, s, o, a, w)
BY DEF Heeds, Open

LEMMA CopiesGrant ==
  ASSUME TrustInv, NEW p \in Procs, At(p, "b_copies"), odd' = odd, asked' = asked,
         NEW bad \in {"i_drop", "over"},
         Write(p, "before", [trust |-> disk.trust, lock |-> disk.lock], "b_intent",
               bad, bad)
  PROVE  Grants(p)
<1> DEFINE c == [trust |-> disk.trust, lock |-> disk.lock]
           new == [disk EXCEPT !["before"] = c]
<1>0. disk.intent = NoIntent
  BY Trusty DEF RecoveryInv, Fact, Opening, At
<1>1. /\ new \in Disks /\ new.before.trust = new.trust
      /\ Thins(disk, new) /\ new.lock = disk.lock /\ SameTrust(disk, new)
  BY <1>0, Trusty DEF Disks, Thins, SameTrust
<1> HIDE DEF new
<1>2. \A d, w : Heeds(proc[p], bad, d, safe, odd, asked, w)
  BY NoHeed DEF Careless
<1>3. Thins(safe, safe) /\ SameTrust(safe, safe) /\ Wanes(odd, odd)
  BY Oneself
<1>4. CASE disk' = new /\ safe' = Flushed(new, "state") /\ Goto(p, "b_intent")
  <2>1. Syncs("state", new, safe, safe')
    BY <1>1, <1>4, FlushedSyncs, Trusty
  <2>2. Thins(safe, safe') /\ safe'.lock = safe.lock /\ SameTrust(disk, safe')
    BY <1>0, <1>1, <2>1 DEF Thins, Syncs, SameTrust
  <2>3. Heeds(proc[p], "b_intent", disk', safe', odd', asked, left')
    BY <1>1, <1>4 DEF Heeds, Open
  <2> QED BY <1>1, <1>3, <1>4, <2>2, <2>3, MixGrants
<1>5. CASE disk' = disk /\ safe' = safe /\ Fault(p, bad)
  BY <1>2, <1>5, StillGrants, Oneself
<1>6. CASE disk' = new /\ safe' = safe /\ Fault(p, bad)
  BY <1>1, <1>2, <1>3, <1>6, MixGrants
<1> QED BY <1>4, <1>5, <1>6 DEF Write, new, DirOf

(* What the user asked for changes with the intent: a plugin that is about   *)
(* to be installed is not there yet, one that is about to be removed is.     *)
LEMMA BegunTrusted ==
  ASSUME TrustInv, NEW p \in Procs, At(p, "b_intent"), NEW i, i = proc[p].mine,
         NEW a, \A k \in Names \ {i.name} : k \in a <=> k \in asked,
         i.op = "R" => a = asked, i.op = "I" /\ i.flag => i.name \in a
  PROVE  /\ \A m, t \in {disk, safe} : Calm(m.home, t.trust, odd, a)
         /\ \A m, l \in {disk, safe} :
              Vouched(i, disk.before.trust, m.home, l.lock, disk.trust, odd, a)
<1> DEFINE n == i.name
<1>1. /\ disk.intent = NoIntent /\ safe.intent = NoIntent /\ i.op \in {"I", "R"}
      /\ i.op = "I" => disk.home[n] = "none"
      /\ i.op = "R" => n \in disk.lock
      /\ \A k \in Names \ odd.overtaken : disk.before.trust[k] = disk.trust[k]
  <2>1. /\ Opening(proc[p], "b_intent", disk, safe, odd)
        /\ Heeds(proc[p], "b_intent", disk, safe, odd, asked, left)
    BY Trusty DEF TrustInv, RecoveryInv, Fact, At
  <2>2. i.op \in {"I", "R", "L"} /\ i.op # "L"
    BY Trusty DEF IntentInv, Good, Process, Commands, Fits, Changing, At
  <2> QED BY <2>1, <2>2 DEF Opening, Heeds
<1>2. AllSettled(disk, safe, odd)
  BY <1>1, QuietSettled, Disky, Trusty
<1>3. \A m, t \in {disk, safe} : Calm(m.home, t.trust, odd, asked)
  BY <1>1, Trusty DEF Granted, Trusted
<1>4. ASSUME n \in Plain(odd)
      PROVE  /\ n \in Names
             /\ i.op = "I" => \A m \in {disk, safe} : m.home[n] = "none"
             /\ i.op = "R" => disk.home[n] # "none"
  BY <1>1, <1>2, <1>4, PlainNot DEF AllSettled, Settled, Whole
<1>5. ASSUME NEW m \in {disk, safe}, NEW t \in {disk, safe}
      PROVE  Calm(m.home, t.trust, odd, a)
  BY <1>1, <1>3, <1>4, PlainNot DEF Calm
<1>6. ASSUME NEW m \in {disk, safe}, NEW l \in {disk, safe}
      PROVE  Vouched(i, disk.before.trust, m.home, l.lock, disk.trust, odd, a)
  <2>1. Calm(m.home, disk.trust, odd, asked) /\ Calm(disk.home, disk.trust, odd, asked)
    BY <1>3
  <2>2. \A k \in Plain(odd) : disk.before.trust[k] = disk.trust[k]
    BY <1>1, PlainNot
  <2> QED BY <1>1, <1>4, <2>1, <2>2, PlainNot DEF Calm, Vouched
<1> QED BY <1>5, <1>6

LEMMA BeginGrants ==
  ASSUME TrustInv, NEW p \in Procs, Begin(p) PROVE Grants(p)
<1> DEFINE r == proc[p]
           i == r.mine
           n == i.name
           bad == IF i.op = "I" THEN "i_drop" ELSE "over"
           good == IF i.op = "R" /\ i.flag THEN "m_quar" ELSE "load"
           new == [disk EXCEPT !["intent"] = i]
<1>0. odd' = odd /\ Mine(p) = i /\ bad \in {"i_drop", "over"}
  BY DEF Begin, Mine
<1>1. CASE /\ At(p, "b_copies") /\ asked' = asked
           /\ Write(p, "before", [trust |-> disk.trust, lock |-> disk.lock],
                    "b_intent", bad, bad)
  BY <1>0, <1>1, CopiesGrant
<1>2. CASE /\ At(p, "b_intent") /\ Write(p, "intent", i, good, bad, bad)
           /\ asked' = IF i.op = "R" THEN asked
                       ELSE IF i.flag THEN asked \union {n} ELSE asked \ {n}
  <2>1. /\ i \in Txn /\ i # NoIntent /\ n \in Names
        /\ disk.intent = NoIntent /\ safe.intent = NoIntent
        /\ \A k \in Names \ odd.overtaken : disk.before.trust[k] = disk.trust[k]
    <3>1. /\ Opening(r, "b_intent", disk, safe, odd)
          /\ Heeds(r, "b_intent", disk, safe, odd, asked, left)
      BY <1>2, Trusty DEF TrustInv, RecoveryInv, Fact, At
    <3>2. i \in [op : {"I", "R", "L"}, name : Names, flag : BOOLEAN, who : {p}]
          /\ i.op # "L"
      BY <1>2, Trusty DEF IntentInv, Good, Process, Commands, Fits, Changing, At
    <3>3. i \in Txn /\ n \in Names
      BY <3>2 DEF Txn
    <3>4. i # NoIntent
      BY <3>3 DEF Txn, NoIntent
    <3> QED BY <3>1, <3>3, <3>4 DEF Opening, Heeds
  <2>2. /\ \A k \in Names \ {n} : k \in asked' <=> k \in asked
        /\ i.op = "R" => asked' = asked
        /\ i.op = "I" /\ i.flag => n \in asked'
    BY <1>2
  <2>3. /\ \A m, t \in {disk, safe} : Calm(m.home, t.trust, odd, asked')
        /\ \A m, l \in {disk, safe} :
             Vouched(i, disk.before.trust, m.home, l.lock, disk.trust, odd, asked')
    BY <1>2, <2>2, BegunTrusted
  <2>4. /\ new \in Disks /\ new.intent = i /\ new.before = disk.before
        /\ new.trust = disk.trust /\ Restates(disk, new)
    BY <2>1, Trusty DEF Disks, Restates
  <2> HIDE DEF new
  <2>5. ASSUME NEW d2, NEW s2, Restates(disk, d2), Restates(safe, s2), NEW w,
               \A t \in {d2, s2} :
                 \/ t.intent = NoIntent /\ \E x \in {disk, safe} : t.trust = x.trust
                 \/ t.intent = i /\ t.before = disk.before /\ t.trust = disk.trust
        PROVE  Granted(d2, s2, odd, asked', w)
    <3>1. \A m \in {disk, safe}, t \in {d2, s2} : Calm(m.home, t.trust, odd, asked')
      BY <2>3, <2>5
    <3>2. \A m, l \in {disk, safe}, t \in {d2, s2} : Trusted(m, l, t, odd, asked')
      BY <2>1, <2>3, <2>5, <3>1 DEF Trusted
    <3> QED BY <2>5, <3>1, <3>2, StateGranted
  <2>6. \A d, w : Heeds(r, bad, d, safe, odd, asked', w)
    BY NoHeed DEF Careless
  <2>7. CASE disk' = new /\ safe' = Flushed(new, "state") /\ Goto(p, good)
    <3>1. Syncs("state", new, safe, safe')
      BY <2>4, <2>7, FlushedSyncs, Trusty
    <3>2. Restates(safe, safe')
      BY <3>1 DEF Syncs, Restates
    <3>3. Granted(disk', safe', odd, asked', left')
      BY <2>4, <2>5, <2>7, <3>1, <3>2 DEF Syncs
    <3>4. Heeds(r, good, disk', safe', odd, asked', left')
      <4>1. CASE i.op = "R" /\ i.flag
        BY <4>1, RemovalHeeds
      <4>2. CASE ~(i.op = "R" /\ i.flag)
        <5>1. \A k \in Names \ odd.overtaken : disk'.before.trust[k] = disk'.trust[k]
          BY <2>1, <2>4, <2>7
        <5> HIDE DEF r
        <5>2. Heeds(r, "load", disk', safe', odd, asked', left')
          BY <4>2, <5>1 DEF Heeds, Open
        <5> QED BY <4>2, <5>2
      <4> QED BY <4>1, <4>2
    <3> QED BY <1>0, <2>7, <3>3, <3>4, GoesHeeding, Trusty DEF Grants
  <2>8. CASE (disk' = disk \/ disk' = new) /\ safe' = safe /\ Fault(p, bad)
    <3>1. Restates(disk, disk') /\ Restates(safe, safe)
      BY <2>4, <2>8 DEF Restates
    <3>2. Granted(disk', safe', odd, asked', left')
      BY <2>1, <2>4, <2>5, <2>8, <3>1
    <3>3. Heeds(r, bad, disk', safe', odd, asked', left')
      BY <2>6, <2>8
    <3> QED BY <1>0, <2>8, <3>2, <3>3, GoesHeeding, Trusty DEF Grants
  <2> QED BY <1>2, <2>7, <2>8 DEF Write, new, DirOf
<1> QED BY <1>0, <1>1, <1>2 DEF Begin

(* The trust as the command read it, with one plugin not enabled, enables    *)
(* nothing but what the copy does.                                           *)
LEMMA OffSuits ==
  ASSUME TrustInv, Alone = TRUE, NEW p \in Procs, proc[p].pc \in Open,
         Copied(proc[p], disk, odd), NEW x \in {"off", "unset"}
  PROVE  LET v == [proc[p].t0 EXCEPT ![proc[p].mine.name] = x] IN
         /\ v \in Trust /\ Suits(v, disk, safe, odd, asked)
         /\ \A m \in {disk, safe} : Calm(m.home, v, odd, asked)
         /\ v[proc[p].mine.name] # "on"
<1> DEFINE i == proc[p].mine
           v == [proc[p].t0 EXCEPT ![i.name] = x]
<1>1. /\ disk.intent = i /\ i # NoIntent /\ i.name \in Names
      /\ proc[p].t0 \in Trust /\ v \in Trust
  BY Held, Trusty
<1>2. v[i.name] # "on" /\ \A k \in Names \ {i.name} : v[k] = proc[p].t0[k]
  BY <1>1 DEF Trust
<1>3. \A k \in Plain(odd) \ {i.name} : v[k] = "on" => disk.before.trust[k] = "on"
  BY <1>2, PlainNot DEF Copied
<1> HIDE DEF v
<1>4. Suits(v, disk, safe, odd, asked)
  BY <1>1, <1>2, <1>3, NewSuits
<1>5. \A m \in {disk, safe} : Calm(m.home, v, odd, asked)
  BY <1>1, <1>2, <1>3, NewCalm
<1> QED BY <1>1, <1>2, <1>4, <1>5 DEF v

LEMMA SwitchOffGrants ==
  ASSUME TrustInv, Alone = TRUE, NEW p \in Procs, SwitchOff(p) PROVE Grants(p)
<1> DEFINE r == proc[p]
           i == r.mine
           n == i.name
<1>0. odd' = odd /\ asked' = asked /\ Mine(p) = i /\ r.pc \in Open
  BY DEF SwitchOff, Mine, At, Open
<1>1. /\ i.op \in {"I", "R"} /\ n \in Names
      /\ Opening(r, r.pc, disk, safe, odd)
      /\ Heeds(r, r.pc, disk, safe, odd, asked, left)
  BY <1>0, Held, Trusty DEF Fact, TrustInv
<1>2. CASE /\ At(p, "load") /\ UNCHANGED <<disk, safe, left>>
           /\ proc' = [proc EXCEPT ![p].t0 = disk.trust, ![p].pc = "off"]
  <2>1. r \in Process(p) /\ DOMAIN proc = Procs
    BY Trusty DEF IntentInv, Good
  <2>2. proc'[p].pc = "off" /\ proc'[p].mine = i /\ proc'[p].t0 = disk.trust
    BY <1>2, <2>1 DEF Process
  <2>3. /\ \A k \in Names \ odd.overtaken : disk.before.trust[k] = disk.trust[k]
        /\ i.op = "R" => ~i.flag
    BY <1>1, <1>2 DEF Heeds, At
  <2>4. Heeds(proc'[p], "off", disk, safe, odd, asked, left)
    <3> HIDE DEF r
    <3> QED BY <2>2, <2>3 DEF Heeds, Open, Copied
  <2> QED BY <1>0, <1>2, <2>2, <2>4, Trusty DEF Grants
<1>3. CASE At(p, "off")
  <2> DEFINE v == [r.t0 EXCEPT ![n] = "off"]
  <2>1. Copied(r, disk, odd) /\ (i.op = "R" => ~i.flag)
    BY <1>1, <1>3 DEF Heeds, Open, At
  <2>2. /\ v \in Trust /\ Suits(v, disk, safe, odd, asked)
        /\ \A m \in {disk, safe} : Calm(m.home, v, odd, asked)
        /\ v[n] # "on"
    BY <1>0, <2>1, OffSuits
  <2>3. \A d2 : Retrusts(disk, v, d2) => Copied(r, d2, odd)
    BY <2>1 DEF Copied, Retrusts
  <2>4. \A w : /\ Heeds(r, "i_tidy", disk, safe, odd, asked, w)
              /\ Heeds(r, "recover", disk, safe, odd, asked, w)
    BY NoHeed DEF Careless
  <2> HIDE DEF v
  <2>5. CASE i.op = "I" /\ Write(p, "trust", v, "i_publish", "i_tidy", "i_undo")
    <3>1. ASSUME NEW d2, NEW s2, Retrusts(disk, v, d2), Syncs("state", d2, safe, s2)
          PROVE  Heeds(r, "i_publish", d2, s2, odd, asked, left)
      <4>1. \A t \in {d2, s2} : t.trust[n] # "on"
        BY <2>2, <3>1 DEF Retrusts, Syncs
      <4> QED BY <2>3, <2>5, <3>1, <4>1, PublishHeeds
    <3>2. ASSUME NEW d2, NEW w, Retrusts(disk, v, d2), w.faults # MaxFaults
          PROVE  Heeds(r, "i_undo", d2, safe, odd, asked, w)
      <4>1. disk.home[n] = "none" /\ AllSettled(disk, safe, odd)
        BY <1>1, <1>3, <2>5 DEF Opening, At
      <4>2. \A l \in {disk, safe} : n \in l.lock => n \in odd.strayed
        BY <1>1, <4>1 DEF AllSettled, Settled, Whole
      <4>3. \A l \in {d2, safe} : n \in l.lock => n \in odd.strayed \union odd.doubted
        BY <3>2, <4>2 DEF Retrusts
      <4> QED BY <2>3, <2>5, <3>2, <4>3, GivingUpHeeds
    <3> QED BY <1>0, <2>2, <2>4, <2>5, <3>1, <3>2, TrustGrants
  <2>6. CASE i.op # "I" /\ Write(p, "trust", v, "m_quar", "recover", "m_undo")
    <3>1. ASSUME NEW d2, NEW s2, NEW w, Retrusts(disk, v, d2),
                 NEW to \in {"m_quar", "m_undo"}
          PROVE  Heeds(r, to, d2, s2, odd, asked, w)
      BY <1>1, <2>1, <2>3, <2>6, <3>1, RemovalHeeds
    <3> QED BY <1>0, <2>2, <2>4, <2>6, <3>1, TrustGrants
  <2> QED BY <1>0, <1>3, <2>5, <2>6 DEF SwitchOff, At, v
<1> QED BY <1>0, <1>2, <1>3 DEF SwitchOff

-----------------------------------------------------------------------------
(* Installing.                                                               *)

LEMMA CopiedSame ==
  ASSUME NEW r, NEW d, NEW d2, NEW o, NEW o2, Copied(r, d, o),
         d2.before = d.before, Wanes(o, o2)
  PROVE  Copied(r, d2, o2)
<1>1. o.overtaken \subseteq o2.overtaken
  BY DEF Wanes
<1>2. \A k \in Names \ o.overtaken : d2.before.trust[k] = r.t0[k]
  BY DEF Copied
<1> QED BY <1>1, <1>2 DEF Copied

(* The plugin whose directory is put in place is not enabled.                *)
LEMMA PutGranted ==
  ASSUME TrustInv, NEW i \in Txn, disk.intent = i, safe.intent = i, i.op = "I",
         i.name \in odd.overtaken \/ \A t \in {disk, safe} : t.trust[i.name] # "on",
         NEW d2, Moves2(disk, d2), \A k \in Names \ {i.name} : d2.home[k] = disk.home[k]
  PROVE  Granted(d2, safe, odd, asked, left)
<1> DEFINE n == i.name
<1>1. i # NoIntent
  BY DEF Txn, NoIntent
<1>2. \A m, l, t \in {disk, safe} :
        Vouched(i, t.before.trust, m.home, l.lock, t.trust, odd, asked)
  BY <1>1, Vouches
<1>3. ASSUME NEW m \in {d2, safe}, NEW l \in {d2, safe}, NEW t \in {d2, safe}
      PROVE  /\ Vouched(i, t.before.trust, m.home, l.lock, t.trust, odd, asked)
             /\ Calm(m.home, t.trust, odd, asked)
  <2>1. PICK t1 \in {disk, safe} : t1.before = t.before /\ t1.trust = t.trust
    BY DEF Moves2
  <2>2. PICK m1 \in {disk, safe} : \A k \in Names \ {n} : m.home[k] = m1.home[k]
    OBVIOUS
  <2>3. Vouched(i, t.before.trust, m1.home, disk.lock, t.trust, odd, asked)
    BY <1>2, <2>1
  <2>4. n \in Plain(odd) => t.trust[n] # "on"
    BY <2>1, PlainNot
  <2>5. Vouched(i, t.before.trust, m.home, l.lock, t.trust, odd, asked)
    BY <2>2, <2>3, <2>4, PlainNot DEF Vouched
  <2> QED BY <2>4, <2>5, VouchedCalm
<1>4. \A t \in {d2, safe} : t.intent = i
  BY DEF Moves2
<1> QED BY <1>1, <1>3, <1>4 DEF Granted, Trusted

LEMMA PublishGrants ==
  ASSUME TrustInv, Alone = TRUE, NEW p \in Procs, Publish(p) PROVE Grants(p)
<1> DEFINE r == proc[p]
           i == r.mine
           n == i.name
<1>0. asked' = asked /\ Mine(p) = i /\ r.pc \in Open
  BY DEF Publish, Mine, At, Open
<1>1. /\ i \in Txn /\ i # NoIntent /\ n \in Names
      /\ disk.intent = i /\ safe.intent = i
      /\ r.lk = disk.before.lock /\ r.lk \in SUBSET Names
      /\ r.t0 \in Trust /\ [r.t0 EXCEPT ![n] = "on"] \in Trust
      /\ Opening(r, r.pc, disk, safe, odd)
      /\ Heeds(r, r.pc, disk, safe, odd, asked, left)
  BY <1>0, Held, Trusty DEF Fact, TrustInv
<1>2. i.op = "I"
  BY Trusty DEF Publish, At, IntentInv, Good, Fits, Installing
<1>3. Copied(r, disk, odd)
  BY <1>0, <1>1, <1>2 DEF Publish, At, Heeds, Open
<1>4. ASSUME At(p, "i_publish") \/ At(p, "i_sync") \/ At(p, "i_lock")
      PROVE  n \in odd.overtaken \/ \A t \in {disk, safe} : t.trust[n] # "on"
  BY <1>1, <1>4 DEF Heeds, At
<1>5. CASE /\ At(p, "i_publish") /\ UNCHANGED <<safe, odd>>
           /\ \/ /\ disk.home[n] = "none"
                 /\ disk' = [disk EXCEPT !.home[n] = "whole"]
                 /\ Goto(p, "i_sync")
              \/ disk.home[n] # "none" /\ disk' = disk /\ Goto(p, "i_undo")
              \/ disk' = disk /\ Fault(p, "i_undo")
  <2>1. disk.home[n] = "none" /\ AllSettled(disk, safe, odd)
    BY <1>1, <1>2, <1>5 DEF Opening, At
  <2>2. CASE disk' = [disk EXCEPT !.home[n] = "whole"] /\ Goto(p, "i_sync")
    <3>1. /\ Moves2(disk, disk')
          /\ \A k \in Names \ {n} : disk'.home[k] = disk.home[k]
      BY <2>2, Trusty DEF Disks, Moves2
    <3>2. Granted(disk', safe, odd, asked, left)
      BY <1>1, <1>2, <1>4, <1>5, <3>1, PutGranted
    <3>3. Copied(r, disk', odd)
      BY <1>3, <3>1, CopiedSame, Oneself DEF Moves2
    <3>4. Heeds(r, "i_sync", disk', safe, odd, asked, left)
      BY <1>2, <1>4, <1>5, <3>1, <3>3, PublishHeeds DEF Moves2
    <3>5. left' = left
      BY <2>2, Lefts, Trusty
    <3>6. Heeds(proc'[p], proc'[p].pc, disk', safe, odd, asked, left)
      BY <2>2, <3>4, GoesHeeding, Trusty
    <3> QED BY <1>0, <1>5, <3>2, <3>5, <3>6 DEF Grants
  <2>3. CASE disk' = disk /\ Fault(p, "i_undo")
    <3>1. \A l \in {disk, safe} : n \in l.lock => n \in odd.strayed \union odd.doubted
      BY <1>1, <2>1 DEF AllSettled, Settled, Whole
    <3>2. left'.faults # MaxFaults
      BY <2>3, Lefts, Trusty
    <3>3. Heeds(r, "i_undo", disk, safe, odd, asked, left')
      BY <1>2, <1>3, <3>1, <3>2, GivingUpHeeds
    <3> QED BY <1>0, <1>5, <2>3, <3>3, StillGrants, Oneself
  <2> QED BY <1>5, <2>1, <2>2, <2>3
<1>6. CASE At(p, "i_sync") /\ odd' = odd /\ RmStage(p, p, "i_lock", "i_unpub")
  <2>1. ASSUME NEW d2, Resembles(disk, d2)
        PROVE  Copied(r, d2, odd) /\ d2.trust = disk.trust
    BY <1>3, <2>1, CopiedSame, Oneself DEF Resembles, Alike
  <2>2. ASSUME NEW d2, NEW s2, Resembles(disk, d2), Syncs("root", d2, safe, s2)
        PROVE  Heeds(r, "i_lock", d2, s2, odd, asked, left)
    <3>1. n \in odd.overtaken \/ \A t \in {d2, s2} : t.trust[n] # "on"
      BY <1>4, <1>6, <2>1, <2>2 DEF Syncs
    <3> QED BY <1>2, <2>1, <2>2, <3>1, PublishHeeds
  <2>3. ASSUME NEW d2, NEW w, Resembles(disk, d2), w.faults # MaxFaults
        PROVE  Heeds(r, "i_unpub", d2, safe, odd, asked, w)
    BY <1>2, <2>1, <2>3, GivingUpHeeds
  <2> QED BY <1>0, <1>6, <2>2, <2>3, RmStageGrants
<1>7. CASE /\ At(p, "i_lock")
           /\ SaveLock(p, r.lk \union {n}, IF i.flag THEN "i_on" ELSE "c_unlink",
                       "i_unpub")
  <2> DEFINE v == r.lk \union {n}
             good == IF i.flag THEN "i_on" ELSE "c_unlink"
  <2>1. v \in SUBSET Names
    BY <1>1
  <2> HIDE DEF v
  <2>2. Listable(v, disk, safe, odd, asked)
    BY <1>1, <1>4, <1>7, NewListable, PlainNot
  <2>3. NowCalm(disk, safe, odd, asked)
    <3>1. \A m \in {disk, safe} :
            Vouched(i, disk.before.trust, m.home, disk.lock, disk.trust, odd, asked)
      BY <1>1, Vouches
    <3>2. n \in Plain(odd) => disk.trust[n] # "on"
      BY <1>4, <1>7, PlainNot
    <3> QED BY <1>2, <3>1, <3>2, VouchedCalm DEF NowCalm
  <2>4. ASSUME NEW d2, NEW s2, NowCalm(d2, s2, odd, asked), Copied(r, d2, odd)
        PROVE  Heeds(r, good, d2, s2, odd, asked, left)
    <3>1. CASE i.flag
      <4>1. Heeds(r, "i_on", d2, s2, odd, asked, left)
        <5> HIDE DEF r
        <5> QED BY <2>4, <3>1 DEF Heeds, Open
      <4> QED BY <3>1, <4>1
    <3>2. CASE ~i.flag
      BY <2>4, <3>2, CalmHeeds
    <3> QED BY <3>1, <3>2
  <2>5. ASSUME NEW d2, NEW s2, Relocks(disk, v, d2), Syncs("data", d2, safe, s2)
        PROVE  Heeds(r, good, d2, s2, odd, asked, left)
    <3>1. NowCalm(d2, s2, odd, asked)
      BY <2>3, <2>5, SyncCalm DEF Relocks
    <3>2. Copied(r, d2, odd)
      BY <1>3, <2>5, CopiedSame, Oneself DEF Relocks
    <3> QED BY <2>4, <3>1, <3>2
  <2>6. ASSUME NEW d2, NEW o2, NEW w, Wanes(odd, o2), w.faults # MaxFaults,
               d2 = disk \/ Relocks(disk, v, d2)
        PROVE  Heeds(r, "i_unpub", d2, safe, o2, asked, w)
    <3>1. Copied(r, d2, o2)
      BY <1>3, <2>6, CopiedSame DEF Relocks
    <3> QED BY <1>2, <2>6, <3>1, GivingUpHeeds
  <2> HIDE DEF good
  <2> QED BY <1>0, <1>3, <1>7, <2>1, <2>2, <2>3, <2>4, <2>5, <2>6, LockGrants
      DEF v, good
<1>8. CASE /\ At(p, "i_on") /\ odd' = odd
           /\ Write(p, "trust", [r.t0 EXCEPT ![n] = "on"], "c_unlink",
                    "i_relock", "i_relock")
  <2> DEFINE v == [r.t0 EXCEPT ![n] = "on"]
  <2>1. i.flag
    BY <1>1, <1>8 DEF Heeds, At
  <2>2. v \in Trust /\ \A k \in Names \ {n} : v[k] = r.t0[k]
    BY <1>1 DEF Trust
  <2>3. \A k \in Plain(odd) \ {n} : v[k] = "on" => disk.before.trust[k] = "on"
    BY <1>3, <2>2, PlainNot DEF Copied
  <2> HIDE DEF v
  <2>4. Suits(v, disk, safe, odd, asked)
    BY <1>1, <1>2, <2>1, <2>3, NewSuits
  <2>5. \A m \in {disk, safe} : Calm(m.home, v, odd, asked)
    BY <1>1, <1>2, <2>1, <2>3, NewCalm
  <2>6. ASSUME NEW d2, NEW s2, Retrusts(disk, v, d2), Syncs("state", d2, safe, s2)
        PROVE  Heeds(r, "c_unlink", d2, s2, odd, asked, left)
    BY <2>5, <2>6, RetrustCalm, CalmHeeds
  <2>7. ASSUME NEW d2, NEW w, w.faults # MaxFaults, d2 = disk \/ Retrusts(disk, v, d2)
        PROVE  Heeds(r, "i_relock", d2, safe, odd, asked, w)
    <3>1. Copied(r, d2, odd)
      BY <1>3, <2>7, CopiedSame, Oneself DEF Retrusts
    <3> QED BY <1>2, <2>7, <3>1, GivingUpHeeds
  <2> QED BY <1>0, <1>8, <2>2, <2>4, <2>5, <2>6, <2>7, TrustGrants DEF v
<1> QED BY <1>0, <1>5, <1>6, <1>7, <1>8 DEF Publish

LEMMA UnpublishGrants ==
  ASSUME TrustInv, Alone = TRUE, NEW p \in Procs, Unpublish(p) PROVE Grants(p)
<1> DEFINE r == proc[p]
           i == r.mine
           n == i.name
<1>0. asked' = asked /\ Mine(p) = i
  BY DEF Unpublish, Mine
<1>1. ASSUME NEW to \in {"i_relock", "i_unpub", "i_unsync", "i_undo"}, At(p, to)
      PROVE  /\ i \in Txn /\ i # NoIntent /\ n \in Names /\ i.op = "I"
             /\ disk.intent = i /\ safe.intent = i
             /\ r.lk = disk.before.lock /\ r.lk \in SUBSET Names /\ r.t0 \in Trust
             /\ Pending(i, disk.before.lock, disk.home, disk.trash, disk.lock, odd)
             /\ Publishing(r, to, disk, safe, odd)
             /\ Heeds(r, to, disk, safe, odd, asked, left)
             /\ Copied(r, disk, odd) /\ left.faults # MaxFaults
  <2>1. r.pc \in Open /\ r.pc = to
    BY <1>1 DEF At, Open
  <2>2. i.op = "I"
    BY <2>1, Trusty DEF IntentInv, Good, Fits, Installing
  <2>3. Heeds(r, to, disk, safe, odd, asked, left)
    BY <2>1 DEF TrustInv
  <2>4. Copied(r, disk, odd) /\ left.faults # MaxFaults
    BY <2>1, <2>2, <2>3 DEF Heeds, Open
  <2> QED BY <2>1, <2>2, <2>3, <2>4, Held, Trusty DEF Fact
<1>2. ASSUME NEW to \in {"recover", "over", "i_tidy"}, NEW d, NEW s, NEW o, NEW w
      PROVE  Heeds(r, to, d, s, o, asked, w)
  BY NoHeed DEF Careless
<1>3. CASE At(p, "i_relock") /\ SaveLock(p, r.lk, "i_unpub", "i_unpub")
  <2> DEFINE v == r.lk
  <2>1. n \in Plain(odd) => n \notin v
    BY <1>1, <1>3, PlainNot DEF Pending, Added
  <2>2. Listable(v, disk, safe, odd, asked)
    BY <1>1, <1>3, <2>1, NewListable
  <2>3. ASSUME NEW d2, NEW s2, NEW o2, NEW w, Wanes(odd, o2), w.faults # MaxFaults,
               d2.before = disk.before
        PROVE  Heeds(r, "i_unpub", d2, s2, o2, asked, w)
    <3>1. Copied(r, d2, o2)
      BY <1>1, <1>3, <2>3, CopiedSame
    <3> QED BY <1>1, <1>3, <2>3, <3>1, GivingUpHeeds
  <2>4. \A d2, s2 : Relocks(disk, v, d2) /\ Syncs("data", d2, safe, s2) =>
                      Heeds(r, "i_unpub", d2, s2, odd, asked, left)
    BY <1>1, <1>3, <2>3, Oneself DEF Relocks
  <2>5. \A d2, o2, w : /\ Wanes(odd, o2) /\ w.faults # MaxFaults
                       /\ d2 = disk \/ Relocks(disk, v, d2)
                       => Heeds(r, "i_unpub", d2, safe, o2, asked, w)
    BY <2>3 DEF Relocks
  <2>6. Heeds(r, "i_unpub", disk, safe, odd, asked, left)
    BY <1>1, <1>3, <2>3, Oneself
  <2> QED BY <1>0, <1>1, <1>3, <2>2, <2>4, <2>5, <2>6, LockGrants
<1>4. CASE /\ At(p, "i_unpub") /\ odd' = odd
           /\ RmTree(p, "home", n, "i_unsync", "i_undo")
  <2>1. \A l \in {disk, safe} : n \in l.lock => n \in odd.strayed \union odd.doubted
    BY <1>1, <1>4 DEF Publishing
  <2>2. ASSUME NEW d2, NEW w, w.faults # MaxFaults, d2 = disk \/ Moves2(disk, d2),
               NEW to \in {"i_unpub", "i_unsync", "i_undo"}
        PROVE  Heeds(r, to, d2, safe, odd, asked, w)
    <3>1. Copied(r, d2, odd)
      BY <1>1, <1>4, <2>2, CopiedSame, Oneself DEF Moves2
    <3>2. \A l \in {d2, safe} : n \in l.lock => n \in odd.strayed \union odd.doubted
      BY <2>1, <2>2 DEF Moves2
    <3> QED BY <1>1, <1>4, <2>2, <3>1, <3>2, GivingUpHeeds
  <2> QED BY <1>0, <1>1, <1>4, <2>2, RmTreeGrants DEF At
<1>5. CASE At(p, "i_unsync") /\ odd' = odd /\ Flush(p, "root", "i_undo", "i_undo")
  <2>1. \A l \in {disk, safe} : n \in l.lock => n \in odd.strayed \union odd.doubted
    BY <1>1, <1>5 DEF Heeds
  <2>2. ASSUME NEW s2, NEW w, w.faults # MaxFaults,
               s2 = safe \/ Syncs("root", disk, safe, s2)
        PROVE  Heeds(r, "i_undo", disk, s2, odd, asked, w)
    <3>1. \A l \in {disk, s2} : n \in l.lock => n \in odd.strayed \union odd.doubted
      BY <2>1, <2>2 DEF Syncs
    <3> QED BY <1>1, <1>5, <2>2, <3>1, GivingUpHeeds
  <2> QED BY <1>0, <1>1, <1>5, <2>2, FlushGrants
<1>6. CASE /\ At(p, "i_undo") /\ odd' = odd
           /\ Write(p, "trust", r.t0, "i_tidy", "i_tidy", "i_tidy")
  <2>1. \A l \in {disk, safe} : n \in l.lock => n \in odd.strayed \union odd.doubted
    BY <1>1, <1>6 DEF Heeds
  <2>2. \A k \in Plain(odd) \ {n} : r.t0[k] = "on" => disk.before.trust[k] = "on"
    BY <1>1, <1>6, PlainNot DEF Copied
  <2>3. n \in Plain(odd) => \A l \in {disk, safe} : n \notin l.lock
    BY <2>1, PlainNot
  <2>4. Suits(r.t0, disk, safe, odd, asked)
    BY <1>1, <1>6, <2>2, <2>3, NewSuits
  <2> QED BY <1>0, <1>1, <1>2, <1>6, <2>4, TrustGrants
<1>7. CASE /\ odd' = odd
           /\ RmStage(p, p, "recover", "recover") \/ RmStage(p, p, "over", "over")
  BY <1>0, <1>2, <1>7, RmStageGrants
<1>8. CASE UNCHANGED <<disk, safe, odd>> /\ Goto(p, "recover")
  BY <1>0, <1>2, <1>8, StillGrants, Oneself
<1> QED BY <1>0, <1>3, <1>4, <1>5, <1>6, <1>7, <1>8 DEF Unpublish

-----------------------------------------------------------------------------
(* Removing.                                                                 *)

(* What a removal relies on inside its transaction.                          *)
LEMMA HeldRemoving ==
  ASSUME TrustInv, Alone = TRUE, NEW p \in Procs, proc[p].pc \in Open,
         proc[p].mine.op = "R"
  PROVE  LET r == proc[p]
             i == r.mine IN
         /\ i \in Txn /\ i # NoIntent /\ i.name \in Names /\ i.who = p
         /\ disk.intent = i /\ safe.intent = i
         /\ r.lk \in SUBSET Names /\ r.t0 \in Trust
         /\ ~i.flag /\ r.pc # "load" => Copied(r, disk, odd)
         /\ \A m, t \in {disk, safe} : Calm(m.home, t.trust, odd, asked)
         /\ Discarding(r, r.pc, disk, safe, odd)
         /\ Heeds(r, r.pc, disk, safe, odd, asked, left)
<1> DEFINE r == proc[p]
           i == r.mine
<1>1. /\ i \in Txn /\ i # NoIntent /\ i.name \in Names /\ i.who = p
      /\ disk.intent = i /\ safe.intent = i
      /\ r.lk \in SUBSET Names /\ r.t0 \in Trust
      /\ Discarding(r, r.pc, disk, safe, odd)
  BY Held, Trusty DEF Fact
<1>2. Heeds(r, r.pc, disk, safe, odd, asked, left)
  BY DEF TrustInv
<1>3. ~i.flag /\ r.pc # "load" => Copied(r, disk, odd)
  BY <1>2 DEF Heeds
<1>4. \A m, t \in {disk, safe} : Calm(m.home, t.trust, odd, asked)
  BY <1>1, Vouches, VouchedCalm
<1> QED BY <1>1, <1>2, <1>3, <1>4

LEMMA QuarantineGrants ==
  ASSUME TrustInv, Alone = TRUE, NEW p \in Procs, Quarantine(p) PROVE Grants(p)
<1> DEFINE r == proc[p]
           i == r.mine
           n == i.name
<1>0. asked' = asked /\ odd' = odd /\ Mine(p) = i
  BY DEF Quarantine, Mine
<1>1. i.op = "R" /\ r \in Process(p) /\ DOMAIN proc = Procs
  BY Trusty DEF Quarantine, At, IntentInv, Good, Fits, Removing
<1>2. ASSUME r.pc \in {"m_quar", "m_root", "m_data"}
      PROVE  /\ i \in Txn /\ n \in Names /\ i.who = p
             /\ ~i.flag => Copied(r, disk, odd)
  <2>1. r.pc \in Open /\ r.pc # "load"
    BY <1>2 DEF Open
  <2> QED BY <1>1, <2>1, HeldRemoving
<1>3. ASSUME r.pc \in {"m_quar", "m_root", "m_data"}, NEW d2, NEW s2, NEW w,
             d2.before = disk.before,
             NEW to \in {"m_lock", "m_root", "m_data", "m_unquar", "m_fail"}
      PROVE  Heeds(r, to, d2, s2, odd, asked, w)
  <2>1. ~i.flag => Copied(r, d2, odd)
    BY <1>2, <1>3, CopiedSame, Oneself
  <2> QED BY <1>1, <1>3, <2>1, RemovalHeeds
<1>4. CASE /\ At(p, "m_load") /\ UNCHANGED <<disk, safe, left>>
           /\ proc' = [proc EXCEPT ![p] =
                 IF n \in disk.lock THEN [@ EXCEPT !.lk = disk.lock, !.pc = "b_copies"]
                                    ELSE Ended(@)]
  <2>1. proc'[p].pc \in Careless
    BY <1>1, <1>4 DEF Process, Ended, Fresh, Careless
  <2> QED BY <1>0, <1>4, <2>1, NoHeed, Trusty DEF Grants
<1>5. CASE /\ At(p, "m_quar") /\ safe' = safe
           /\ \/ disk.home[n] = "none" /\ disk' = disk /\ Goto(p, "m_lock")
              \/ disk.home[n] # "none" /\ disk' = disk /\ Fault(p, "m_fail")
  BY <1>0, <1>3, <1>5, StillGrants, Oneself DEF At
<1>6. CASE /\ At(p, "m_quar") /\ safe' = safe
           /\ disk' = Rename(disk, n, p, TRUE) /\ Goto(p, "m_root")
  <2>1. MovesTo(disk, [disk.home EXCEPT ![n] = "none"],
                [disk.trash EXCEPT ![p] = disk.home[n]], disk')
    BY <1>2, <1>6, RenameCases, Trusty DEF At
  <2>2. Moves2(disk, disk') /\ Thins(disk, disk')
    BY <1>2, <1>6, <2>1, Domains, Trusty DEF At, MovesTo, Thins
  <2>3. Heeds(r, "m_root", disk', safe, odd, asked, left')
    BY <1>3, <1>6, <2>2 DEF At, Moves2
  <2> QED BY <1>0, <1>6, <2>2, <2>3, ThinGrants
<1>7. CASE \/ At(p, "m_root") /\ Flush(p, "root", "m_data", "m_unquar")
           \/ At(p, "m_data") /\ Flush(p, "data", "m_lock", "m_unquar")
  BY <1>0, <1>3, <1>7, FlushGrants DEF At
<1> QED BY <1>0, <1>4, <1>5, <1>6, <1>7 DEF Quarantine

LEMMA UnlistGrants ==
  ASSUME TrustInv, Alone = TRUE, NEW p \in Procs, Unlist(p) PROVE Grants(p)
<1> DEFINE r == proc[p]
           i == r.mine
           n == i.name
<1>0. asked' = asked /\ Mine(p) = i /\ r.pc \in Open /\ r.pc # "load"
  BY DEF Unlist, Mine, At, Open
<1>1. i.op = "R"
  BY Trusty DEF Unlist, At, IntentInv, Good, Fits, Removing
<1>2. /\ i \in Txn /\ i # NoIntent /\ n \in Names
      /\ disk.intent = i /\ safe.intent = i /\ r.lk \in SUBSET Names
      /\ ~i.flag => Copied(r, disk, odd)
      /\ NowCalm(disk, safe, odd, asked)
      /\ Heeds(r, r.pc, disk, safe, odd, asked, left)
  BY <1>0, <1>1, HeldRemoving DEF NowCalm
<1>3. ASSUME NEW d2, NEW s2, NEW o2, NEW w, d2.before = disk.before, Wanes(odd, o2),
             NEW to \in {"m_drop", "m_rmtrash", "m_rmsync", "m_relock"},
             to = "m_drop" => ~i.flag
      PROVE  Heeds(r, to, d2, s2, o2, asked, w)
  <2>1. ~i.flag => Copied(r, d2, o2)
    BY <1>2, <1>3, CopiedSame
  <2> QED BY <1>1, <1>3, <2>1, RemovalHeeds
<1>4. ASSUME NEW d, NEW s, NEW w PROVE Heeds(r, "recover", d, s, odd, asked, w)
  BY NoHeed DEF Careless
<1>5. Wanes(odd, odd)
  BY Oneself
<1>6. CASE /\ At(p, "m_lock")
           /\ SaveLock(p, r.lk \ {n}, IF i.flag THEN "m_rmtrash" ELSE "m_drop",
                       "m_relock")
  <2> DEFINE v == r.lk \ {n}
             good == IF i.flag THEN "m_rmtrash" ELSE "m_drop"
  <2>1. v \in SUBSET Names /\ Listable(v, disk, safe, odd, asked)
    BY <1>1, <1>2, NewListable
  <2>2. good \in {"m_rmtrash", "m_drop"} /\ (good = "m_drop" => ~i.flag)
    OBVIOUS
  <2> HIDE DEF v, good
  <2>3. /\ Heeds(r, good, disk, safe, odd, asked, left)
        /\ \A d2, s2 : Relocks(disk, v, d2) /\ Syncs("data", d2, safe, s2) =>
                         Heeds(r, good, d2, s2, odd, asked, left)
    BY <1>3, <1>5, <2>2 DEF Relocks
  <2>4. \A d2, o2, w : /\ Wanes(odd, o2) /\ w.faults # MaxFaults
                       /\ d2 = disk \/ Relocks(disk, v, d2)
                       => Heeds(r, "m_relock", d2, safe, o2, asked, w)
    BY <1>3 DEF Relocks
  <2> QED BY <1>0, <1>6, <2>1, <2>3, <2>4, LockGrants DEF v, good
<1>7. CASE /\ At(p, "m_drop") /\ odd' = odd
           /\ Write(p, "trust", [r.t0 EXCEPT ![n] = "unset"], "m_rmtrash",
                    "recover", "recover")
  <2> DEFINE v == [r.t0 EXCEPT ![n] = "unset"]
  <2>1. ~i.flag
    BY <1>1, <1>2, <1>7 DEF Heeds, At
  <2>2. /\ v \in Trust /\ Suits(v, disk, safe, odd, asked)
        /\ \A m \in {disk, safe} : Calm(m.home, v, odd, asked)
    BY <1>0, <1>2, <2>1, OffSuits
  <2>3. \A d2, s2 : Retrusts(disk, v, d2) =>
                      Heeds(r, "m_rmtrash", d2, s2, odd, asked, left)
    BY <1>3, <1>5 DEF Retrusts
  <2> HIDE DEF v
  <2> QED BY <1>0, <1>4, <1>7, <2>2, <2>3, TrustGrants DEF v
<1>8. CASE /\ At(p, "m_rmtrash") /\ odd' = odd
           /\ RmTree(p, "trash", p, "m_rmsync", "recover")
  <2>1. ASSUME NEW d2, Moves2(disk, d2), NEW to \in {"m_rmtrash", "m_rmsync"}
        PROVE  Heeds(r, to, d2, safe, odd, asked, left)
    BY <1>3, <1>5, <2>1 DEF Moves2
  <2> QED BY <1>0, <1>4, <1>8, <2>1, RmTreeGrants DEF At
<1>9. CASE /\ At(p, "m_rmtrash") /\ UNCHANGED <<disk, safe, odd>>
           /\ Goto(p, "c_unlink")
  <2>1. Heeds(r, "c_unlink", disk, safe, odd, asked, left')
    BY <1>2, CalmHeeds
  <2> QED BY <1>0, <1>5, <1>9, <2>1, StillGrants
<1>10. CASE /\ At(p, "m_rmsync") /\ odd' = odd
            /\ Flush(p, "data", "c_unlink", "recover")
  <2>1. ASSUME NEW s2, Syncs("data", disk, safe, s2)
        PROVE  Heeds(r, "c_unlink", disk, s2, odd, asked, left)
    BY <1>2, <2>1, SyncCalm, CalmHeeds
  <2> QED BY <1>0, <1>4, <1>10, <2>1, FlushGrants
<1> QED BY <1>0, <1>6, <1>7, <1>8, <1>9, <1>10 DEF Unlist

LEMMA UnremoveGrants ==
  ASSUME TrustInv, Alone = TRUE, NEW p \in Procs, Unremove(p) PROVE Grants(p)
<1> DEFINE r == proc[p]
           i == r.mine
           n == i.name
<1>0. asked' = asked /\ Mine(p) = i /\ r.pc \in Open /\ r.pc # "load"
  BY DEF Unremove, Mine, At, Open
<1>1. i.op = "R"
  BY Trusty DEF Unremove, At, IntentInv, Good, Fits, Removing
<1>2. /\ i \in Txn /\ i # NoIntent /\ n \in Names /\ i.who = p
      /\ disk.intent = i /\ safe.intent = i /\ r.lk \in SUBSET Names
      /\ r.t0 \in Trust /\ (~i.flag => Copied(r, disk, odd))
      /\ Heeds(r, r.pc, disk, safe, odd, asked, left)
  BY <1>0, <1>1, HeldRemoving
<1>3. ASSUME NEW d2, NEW s2, NEW o2, NEW w, d2.before = disk.before, Wanes(odd, o2),
             NEW to \in {"m_unquar", "m_resync", "m_fail"}
      PROVE  Heeds(r, to, d2, s2, o2, asked, w)
  <2>1. ~i.flag => Copied(r, d2, o2)
    BY <1>2, <1>3, CopiedSame
  <2> QED BY <1>1, <1>3, <2>1, RemovalHeeds
<1>4. ASSUME NEW d, NEW s, NEW w PROVE Heeds(r, "recover", d, s, odd, asked, w)
  BY NoHeed DEF Careless
<1>5. Wanes(odd, odd)
  BY Oneself
<1>6. CASE /\ At(p, "m_relock")
           /\ \E to \in {"m_unquar", "m_fail"} : SaveLock(p, r.lk, to, to)
  <2> DEFINE v == r.lk
  <2>1. PICK to \in {"m_unquar", "m_fail"} : SaveLock(p, v, to, to)
    BY <1>6
  <2>2. v \in SUBSET Names /\ Listable(v, disk, safe, odd, asked)
    BY <1>1, <1>2, NewListable
  <2> HIDE DEF v
  <2>3. /\ Heeds(r, to, disk, safe, odd, asked, left)
        /\ \A d2, s2 : Relocks(disk, v, d2) /\ Syncs("data", d2, safe, s2) =>
                         Heeds(r, to, d2, s2, odd, asked, left)
    BY <1>3, <1>5 DEF Relocks
  <2>4. \A d2, o2, w : /\ Wanes(odd, o2) /\ w.faults # MaxFaults
                       /\ d2 = disk \/ Relocks(disk, v, d2)
                       => Heeds(r, to, d2, safe, o2, asked, w)
    BY <1>3 DEF Relocks
  <2> QED BY <1>0, <2>1, <2>2, <2>3, <2>4, LockGrants
<1>7. CASE /\ UNCHANGED <<disk, safe, odd>>
           /\ Goto(p, "m_fail") \/ Fault(p, "m_fail")
  BY <1>0, <1>3, <1>5, <1>7, StillGrants
<1>8. CASE /\ UNCHANGED <<safe, odd>> /\ disk.trash[p] # "none"
           /\ disk' = Rename(disk, n, p, FALSE) /\ Goto(p, "m_resync")
  <2>1. MovesTo(disk, [disk.home EXCEPT ![n] = disk.trash[p]],
                [disk.trash EXCEPT ![p] = "none"], disk')
    BY <1>2, <1>8, RenameCases, Trusty
  <2>2. Granted(disk', safe, odd, asked, left)
    BY <1>1, <1>2, <1>8, <2>1, BackGranted
  <2>3. Heeds(r, "m_resync", disk', safe, odd, asked, left')
    BY <1>3, <1>5, <2>1 DEF MovesTo, Moves2
  <2>4. left' = left /\ Heeds(proc'[p], proc'[p].pc, disk', safe, odd, asked, left')
    BY <1>8, <2>3, GoesHeeding, Lefts, Trusty
  <2> QED BY <1>0, <1>8, <2>2, <2>4 DEF Grants
<1>9. CASE At(p, "m_resync") /\ odd' = odd /\ Flush(p, "data", "m_fail", "m_fail")
  BY <1>0, <1>3, <1>5, <1>9, FlushGrants
<1>10. CASE /\ At(p, "m_undo") /\ odd' = odd
            /\ Write(p, "trust", r.t0, "recover", "recover", "recover")
  <2>1. Copied(r, disk, odd)
    BY <1>1, <1>2, <1>10 DEF Heeds, At
  <2>2. \A k \in Plain(odd) : r.t0[k] = "on" => disk.before.trust[k] = "on"
    BY <2>1, PlainNot DEF Copied
  <2>3. Suits(r.t0, disk, safe, odd, asked)
    BY <1>1, <1>2, <2>2, NewSuits
  <2>4. \A m \in {disk, safe} : Calm(m.home, r.t0, odd, asked)
    BY <1>1, <1>2, <2>2, NewCalm
  <2> QED BY <1>0, <1>2, <1>4, <1>10, <2>3, <2>4, TrustGrants
<1> QED BY <1>0, <1>2, <1>6, <1>7, <1>8, <1>9, <1>10 DEF Unremove

-----------------------------------------------------------------------------
(* The world.                                                                *)

LEMMA StepGrants ==
  ASSUME TrustInv, Alone = TRUE, NEW p \in Procs, Step(p) PROVE Grants(p)
BY StartGrants, RecoverGrants, ForwardGrants, BackGrants, FinishGrants, ClearGrants,
   BeginGrants, SwitchOffGrants, StageGrants, PublishGrants, UnpublishGrants,
   QuarantineGrants, UnlistGrants, UnremoveGrants DEF Step

LEMMA OverHeeds ==
  ASSUME NEW r, NEW d, NEW s, NEW o, NEW a, NEW w
  PROVE  Heeds(Ended(r), Ended(r).pc, d, s, o, a, w)
<1>1. Ended(r).pc \in Careless
  BY DEF Ended, Fresh, Careless
<1> QED BY <1>1, NoHeed

LEMMA KillGrants ==
  ASSUME TrustInv, NEW p \in Procs, Kill(p) PROVE Grants(p)
<1>1. proc'[p] = Ended(proc[p])
  BY Trusty DEF Kill, IntentInv
<1>2. Granted(disk', safe', odd', asked', left')
  BY Trusty DEF Kill
<1> QED BY <1>1, <1>2, OverHeeds DEF Grants

AllGrant ==
  /\ Granted(disk', safe', odd', asked', left')
  /\ \A p \in Procs : Heeds(proc'[p], proc'[p].pc, disk', safe', odd', asked', left')

LEMMA UpsetSpares == ASSUME TrustInv, Upset PROVE left'.faults = left.faults
<1>1. left \in Counts
  BY Trusty DEF IntentInv, Ghosts
<1> QED BY <1>1 DEF Upset, Counts

LEMMA IdleHeeds ==
  ASSUME NEW p \in Procs, Idle(p), NEW d, NEW s, NEW o, NEW a, NEW w
  PROVE  Heeds(proc[p], proc[p].pc, d, s, o, a, w)
<1>1. proc[p].pc \in Careless
  BY DEF Idle, Careless
<1> QED BY <1>1, NoHeed

LEMMA LossGrants ==
  ASSUME TrustInv, Loss PROVE AllGrant
<1>0. /\ disk \in Disks /\ safe \in Disks /\ odd' = odd /\ asked' = asked
      /\ Granted(disk, safe, odd, asked, left)
  BY Trusty DEF Loss
<1>1. PICK gone \in SUBSET Unsafe :
        disk' = [f \in DOMAIN disk |-> IF f \in UNION gone THEN safe[f] ELSE disk[f]]
  BY DEF Loss
<1>2. safe' = disk'
  BY DEF Loss
<1>3. \A part \in gone : part \in {Moved, {"lock"}, Files.state}
  BY <1>1 DEF Unsafe
<1>4. DOMAIN disk = {"intent", "before", "trust", "lock", "home", "stage", "trash"}
  BY <1>0 DEF Disks
<1>5. /\ "intent" \in UNION gone <=> Files.state \in gone
      /\ "before" \in UNION gone <=> Files.state \in gone
      /\ "trust" \in UNION gone <=> Files.state \in gone
  <2>1. ASSUME NEW f, NEW part \in {Moved, {"lock"}, Files.state}, f \in part,
               \A x \in {Moved, {"lock"}, Files.state} : f \in x => x = part
        PROVE  f \in UNION gone <=> part \in gone
    BY <1>3, <2>1
  <2>2. /\ Moved = {"home", "stage", "trash"}
        /\ Files.state = {"intent", "before", "trust"}
    BY DEF Moved, Files
  <2> QED BY <2>1, <2>2
<1>6. \E m \in {disk, safe} : disk'.home = m.home
  BY <1>1, <1>4
<1>7. \E l \in {disk, safe} : disk'.lock = l.lock
  BY <1>1, <1>4
<1>8. \E t \in {disk, safe} : SameTrust(t, disk')
  BY <1>1, <1>4, <1>5 DEF SameTrust
<1>9. \E m \in {disk, safe} : Thins(m, disk')
  BY <1>6 DEF Thins
<1>10. Lower(left, left') /\ Wanes(odd, odd')
  <2>1. Upset
    BY DEF Loss
  <2> QED BY <1>0, <2>1, UpsetSpares, Oneself DEF Lower
<1>11. Granted(disk', safe', odd', asked', left')
  BY <1>0, <1>2, <1>7, <1>8, <1>9, <1>10, GrantedMix
<1>12. ASSUME NEW p \in Procs
       PROVE  Heeds(proc'[p], proc'[p].pc, disk', safe', odd', asked', left')
  <2>1. proc'[p] = IF Idle(p) THEN proc[p] ELSE Ended(proc[p])
    BY DEF Loss
  <2> QED BY <2>1, IdleHeeds, OverHeeds
<1> QED BY <1>11, <1>12 DEF AllGrant

LEMMA DeleteGrants ==
  ASSUME TrustInv, Delete PROVE AllGrant
<1>1. PICK n \in Names :
        /\ disk' = [disk EXCEPT !.home[n] = "none"]
        /\ odd' = [odd EXCEPT !.strayed = @ \union {n}]
  BY DEF Delete
<1>2. /\ safe' = Flushed(disk', "root") /\ proc' = proc /\ asked' = asked
      /\ \A p \in Procs : Idle(p)
      /\ disk \in Disks /\ safe \in Disks /\ odd \in OddTypes
      /\ Granted(disk, safe, odd, asked, left)
  BY Trusty DEF Delete, IntentInv, Ghosts
<1>3. /\ disk'.home = [disk.home EXCEPT ![n] = "none"] /\ disk' \in Disks
      /\ disk'.lock = disk.lock /\ SameTrust(disk, disk')
  BY <1>1, <1>2 DEF Disks, Tree, SameTrust
<1>4. Syncs("root", disk', safe, safe')
  BY <1>2, <1>3, FlushedSyncs
<1>5. Thins(disk, disk')
  BY <1>2, <1>3, Domains DEF Thins
<1>6. /\ Thins(disk, safe') /\ safe'.lock = safe.lock /\ SameTrust(safe, safe')
  BY <1>4, <1>5 DEF Syncs, Thins, SameTrust
<1>7. Wanes(odd, odd')
  BY <1>1, <1>2 DEF OddTypes, Wanes, Grows
<1>8. Lower(left, left')
  <2>1. Upset
    BY DEF Delete
  <2> QED BY <2>1, UpsetSpares DEF Lower
<1>9. Granted(disk', safe', odd', asked', left')
  BY <1>2, <1>3, <1>5, <1>6, <1>7, <1>8, GrantedMix
<1> QED BY <1>2, <1>9, IdleHeeds DEF AllGrant

-----------------------------------------------------------------------------
(* A decision of the user, about n.                                          *)

(* d2 is d but for the trust of n, and so is what is asked.                  *)
Decides(n, d, d2, a, a2) ==
  /\ d2.home = d.home /\ d2.lock = d.lock /\ d2.intent = d.intent
  /\ d2.before = d.before
  /\ \A k \in Names \ {n} : d2.trust[k] = d.trust[k] /\ (k \in a <=> k \in a2)

(* While a transaction is open, n is no longer plain.                        *)
Overtakes(n, o, o2) ==
  /\ o2.strayed = o.strayed /\ o2.doubted = o.doubted
  /\ o2.overtaken = o.overtaken \union {n}

LEMMA OvertakenHeeds ==
  ASSUME NEW r, NEW to, NEW d, NEW d2, NEW s, NEW s2, NEW o, NEW o2, NEW a, NEW a2,
         NEW w, NEW w2, NEW n,
         Heeds(r, to, d, s, o, a, w), Decides(n, d, d2, a, a2), Overtakes(n, o, o2),
         Syncs("state", d2, s, s2), s2.trust = d2.trust, w2.faults = w.faults,
         r.mine.name \in Names
  PROVE  Heeds(r, to, d2, s2, o2, a2, w2)
<1>0. /\ d2.home = d.home /\ s2.home = s.home /\ d2.lock = d.lock /\ s2.lock = s.lock
      /\ d2.before = d.before
  BY DEF Decides, Syncs
<1>1. NowCalm(d, s, o, a) => NowCalm(d2, s2, o2, a2)
  <2> SUFFICES ASSUME NowCalm(d, s, o, a), NEW m2 \in {d2, s2}, NEW k \in Plain(o2),
                      m2.home[k] # "none", d2.trust[k] = "on"
               PROVE  k \in a2
    BY DEF NowCalm, Calm
  <2>1. k \in Plain(o) /\ k # n /\ k \in Names
    BY DEF Plain, Overtakes
  <2>2. PICK m \in {d, s} : m2.home = m.home
    BY <1>0
  <2>3. k \in a
    BY <2>1, <2>2 DEF NowCalm, Calm, Decides
  <2> QED BY <2>1, <2>3 DEF Decides
<1>2. \A k \in Names \ o2.overtaken :
        k \in Names \ o.overtaken /\ k # n /\ d2.trust[k] = d.trust[k]
  BY DEF Overtakes, Decides
<1>3. Copied(r, d, o) => Copied(r, d2, o2)
  BY <1>0, <1>2 DEF Copied
<1>4. r.mine.name \in o2.overtaken
      \/ (r.mine.name \notin o.overtaken /\ d2.trust[r.mine.name] = d.trust[r.mine.name])
  BY <1>2 DEF Overtakes
<1>5. o.overtaken \subseteq o2.overtaken /\ o2.strayed = o.strayed /\ o2.doubted = o.doubted
  BY DEF Overtakes
<1> QED BY <1>0, <1>1, <1>2, <1>3, <1>4, <1>5 DEF Heeds

LEMMA OvertakenGranted ==
  ASSUME NEW d, NEW d2, NEW s, NEW s2, NEW o, NEW o2, NEW a, NEW a2, NEW w, NEW w2, NEW n,
         Granted(d, s, o, a, w), Decides(n, d, d2, a, a2), Overtakes(n, o, o2),
         Syncs("state", d2, s, s2), s2.trust = d2.trust, w2.faults = w.faults
  PROVE  Granted(d2, s2, o2, a2, w2)
<1>0. Plain(o2) \subseteq Plain(o) /\ n \notin Plain(o2) /\ Plain(o2) \subseteq Names
  BY DEF Plain, Overtakes
<1>1. ASSUME NEW m2 \in {d2, s2}
      PROVE  \E m \in {d, s} : m2.home = m.home
  BY DEF Decides, Syncs
<1>2. ASSUME NEW l2 \in {d2, s2}
      PROVE  \E l \in {d, s} : l2.lock = l.lock
  BY DEF Decides, Syncs
<1>3. ASSUME NEW t2 \in {d2, s2}
      PROVE  /\ t2.intent = d.intent
             /\ d.intent # NoIntent => t2.before = d.before
             /\ \A k \in Plain(o2) : t2.trust[k] = d.trust[k] /\ (k \in a <=> k \in a2)
  BY <1>0 DEF Decides, Syncs
<1>4. ASSUME NEW m2 \in {d2, s2}, NEW t2 \in {d2, s2}, NEW m \in {d, s},
             m2.home = m.home, Calm(m.home, d.trust, o, a)
      PROVE  Calm(m2.home, t2.trust, o2, a2)
  BY <1>0, <1>3, <1>4 DEF Calm
<1>5. ASSUME NEW m2 \in {d2, s2}, NEW l2 \in {d2, s2}, NEW t2 \in {d2, s2}
      PROVE  Trusted(m2, l2, t2, o2, a2)
  <2>1. PICK m \in {d, s} : m2.home = m.home
    BY <1>1
  <2>2. PICK l \in {d, s} : l2.lock = l.lock
    BY <1>2
  <2>3. Trusted(m, l, d, o, a)
    BY DEF Granted
  <2>4. CASE d.intent = NoIntent
    BY <1>3, <1>4, <2>1, <2>3, <2>4 DEF Trusted
  <2>5. CASE d.intent # NoIntent
    <3>1. Vouched(d.intent, d.before.trust, m.home, l.lock, d.trust, o, a)
      BY <2>3, <2>5 DEF Trusted
    <3>2. Vouched(d.intent, d.before.trust, m2.home, l2.lock, t2.trust, o2, a2)
      BY <1>0, <1>3, <2>1, <2>2, <3>1 DEF Vouched
    <3>3. t2.intent = d.intent /\ t2.before = d.before
      BY <1>3, <2>5
    <3> QED BY <2>5, <3>2, <3>3 DEF Trusted
  <2> QED BY <2>4, <2>5
<1>6. ASSUME w2.faults = MaxFaults, NEW m2 \in {d2, s2}, NEW t2 \in {d2, s2}
      PROVE  Calm(m2.home, t2.trust, o2, a2)
  <2>1. PICK m \in {d, s} : m2.home = m.home
    BY <1>1
  <2>2. Calm(m.home, d.trust, o, a)
    BY <1>6 DEF Granted
  <2> QED BY <1>4, <2>1, <2>2
<1> QED BY <1>5, <1>6 DEF Granted

LEMMA DecideGrants ==
  ASSUME TrustInv, Decide PROVE AllGrant
<1>1. PICK n \in Names, v \in {"on", "off"} :
        /\ disk' = [disk EXCEPT !.trust[n] = v]
        /\ asked' = IF v = "on" THEN asked \union {n} ELSE asked \ {n}
        /\ odd' = IF Quiet THEN odd ELSE [odd EXCEPT !.overtaken = @ \union {n}]
  BY DEF Decide
<1>2. /\ safe' = Flushed(disk', "state") /\ proc' = proc
      /\ disk \in Disks /\ safe \in Disks /\ odd \in OddTypes
      /\ Granted(disk, safe, odd, asked, left)
      /\ left'.faults = left.faults
  <2>1. Upset
    BY DEF Decide
  <2>2. safe' = Flushed(disk', "state") /\ proc' = proc
    BY DEF Decide
  <2>3. disk \in Disks /\ safe \in Disks /\ odd \in OddTypes
    BY Trusty DEF IntentInv, Ghosts
  <2> QED BY <2>1, <2>2, <2>3, Trusty, UpsetSpares
<1>3. /\ disk'.trust = [disk.trust EXCEPT ![n] = v] /\ disk' \in Disks
      /\ disk'.home = disk.home /\ disk'.lock = disk.lock
      /\ disk'.intent = disk.intent /\ disk'.before = disk.before
  <2>1. /\ disk'.trust = [disk.trust EXCEPT ![n] = v]
        /\ disk'.home = disk.home /\ disk'.lock = disk.lock
        /\ disk'.intent = disk.intent /\ disk'.before = disk.before
    BY <1>1, <1>2 DEF Disks
  <2>2. disk' = [disk EXCEPT !.trust = disk'.trust] /\ disk'.trust \in Trust
    BY <1>1, <1>2, <2>1, TrustSet DEF Disks
  <2> QED BY <1>2, <2>1, <2>2 DEF Disks
<1>4. Syncs("state", disk', safe, safe') /\ safe'.trust = disk'.trust
  BY <1>2, <1>3, FlushedSyncs DEF Syncs
<1>5. disk'.trust[n] = v /\ \A k \in Names \ {n} : disk'.trust[k] = disk.trust[k]
  <2>1. disk.trust \in [Names -> {"unset", "off", "on"}]
    BY <1>2 DEF Disks, Trust
  <2> QED BY <1>3, <2>1
<1>6. Decides(n, disk, disk', asked, asked')
  BY <1>1, <1>3, <1>5 DEF Decides
<1>7. CASE Quiet
  <2>1. odd' = odd /\ disk.intent = NoIntent /\ \A p \in Procs : Idle(p)
    BY <1>1, <1>7 DEF Quiet
  <2>2. ASSUME NEW m2 \in {disk', safe'}, NEW t2 \in {disk', safe'}
        PROVE  t2.intent = NoIntent /\ Calm(m2.home, t2.trust, odd', asked')
    <3>1. PICK m \in {disk, safe} : m2.home = m.home
      BY <1>3, <1>4 DEF Syncs
    <3>2. Calm(m.home, disk.trust, odd, asked)
      BY <1>2, <2>1 DEF Granted, Trusted
    <3>3. t2.trust = disk'.trust /\ t2.intent = NoIntent
      BY <1>3, <1>4, <2>1 DEF Syncs
    <3>4. ASSUME NEW k \in Plain(odd), m2.home[k] # "none", disk'.trust[k] = "on"
          PROVE  k \in asked'
      <4>1. CASE k = n
        BY <1>1, <1>5, <3>4, <4>1
      <4>2. CASE k # n
        <5>1. k \in Names \ {n}
          BY <4>2 DEF Plain
        <5> QED BY <1>1, <1>5, <3>1, <3>2, <3>4, <5>1 DEF Calm
      <4> QED BY <4>1, <4>2
    <3> QED BY <2>1, <3>3, <3>4 DEF Calm
  <2>3. Granted(disk', safe', odd', asked', left')
    BY <2>2 DEF Granted, Trusted
  <2> QED BY <1>2, <2>1, <2>3, IdleHeeds DEF AllGrant
<1>8. CASE ~Quiet
  <2>1. Overtakes(n, odd, odd')
    BY <1>1, <1>2, <1>8 DEF OddTypes, Overtakes
  <2>2. Granted(disk', safe', odd', asked', left')
    BY <1>2, <1>4, <1>6, <2>1, OvertakenGranted
  <2>3. ASSUME NEW p \in Procs
        PROVE  Heeds(proc[p], proc[p].pc, disk', safe', odd', asked', left')
    <3>1. Heeds(proc[p], proc[p].pc, disk, safe, odd, asked, left)
      BY DEF TrustInv
    <3>2. proc[p].mine.name \in Names
      <4>1. proc[p] \in Process(p)
        BY Trusty DEF IntentInv, Good
      <4> QED BY <4>1 DEF Process, Commands
    <3> QED BY <1>2, <1>4, <1>6, <2>1, <3>1, <3>2, OvertakenHeeds
  <2> QED BY <1>2, <2>2, <2>3 DEF AllGrant
<1> QED BY <1>7, <1>8

-----------------------------------------------------------------------------
(* The theorem.                                                              *)

LEMMA TrustStart == Init => TrustInv
<1> SUFFICES ASSUME Init PROVE TrustInv
  OBVIOUS
<1>1. RecoveryInv
  BY RecoveryStart
<1>2. /\ disk.intent = NoIntent /\ safe = disk
      /\ asked = {n \in Names : disk.trust[n] = "on"}
  BY DEF Init
<1>3. Calm(disk.home, disk.trust, odd, asked)
  BY <1>2 DEF Calm, Plain
<1>4. Granted(disk, safe, odd, asked, left)
  BY <1>2, <1>3 DEF Granted, Trusted
<1>5. \A p \in Procs : Idle(p)
  BY DEF Init, Fresh, Idle
<1> QED BY <1>1, <1>4, <1>5, IdleHeeds DEF TrustInv

LEMMA TrustStep ==
  ASSUME Alone = TRUE, TrustInv, [Next]_vars PROVE TrustInv'
<1>1. RecoveryInv'
  BY RecoveryStep, Trusty
<1>2. AllGrant => TrustInv'
  BY <1>1 DEF TrustInv, AllGrant
<1>3. ASSUME NEW p \in Procs, Step(p) \/ Kill(p) PROVE TrustInv'
  <2>1. Grants(p)
    BY <1>3, StepGrants, KillGrants
  <2>2. ASSUME NEW q \in Procs \ {p}
        PROVE  Heeds(proc'[q], proc'[q].pc, disk', safe', odd', asked', left')
    <3>1. proc'[q] = proc[q] /\ Idle(q)
      BY <1>3, OthersIdle, Trusty
    <3> QED BY <3>1, IdleHeeds
  <2> QED BY <1>2, <2>1, <2>2 DEF Grants, AllGrant
<1>4. CASE Loss \/ Decide \/ Delete
  BY <1>2, <1>4, LossGrants, DecideGrants, DeleteGrants
<1>5. CASE UNCHANGED vars
  BY <1>1, <1>5 DEF vars, TrustInv
<1> QED BY <1>3, <1>4, <1>5 DEF Next

(* No plugin is there and enabled that the user did not ask for: while no    *)
(* call has failed this is so at every moment, so that an editor that starts *)
(* in the middle of a command, or after a power loss, loads nothing new; and *)
(* whatever failed, it is so again once the transaction is over (pkg_install *)
(* and pkg_remove switch the plugin off first, pkg_txn_recover puts back the *)
(* trust that was there).                                                    *)
THEOREM OnlyAskedIsLive == ASSUME Alone = TRUE PROVE Spec => []LiveOnlyAsked
<1>1. Init => TrustInv
  BY TrustStart
<1>2. TrustInv /\ [Next]_vars => TrustInv'
  BY TrustStep
<1>3. TrustInv => LiveOnlyAsked
  <2> SUFFICES ASSUME TrustInv, left.faults = MaxFaults \/ Quiet PROVE LiveOnlyAsked
    BY DEF LiveOnlyAsked
  <2>1. Calm(disk.home, disk.trust, odd, asked)
    BY Trusty DEF Granted, Trusted, Quiet
  <2> QED BY <2>1 DEF Calm, Plain, LiveOnlyAsked
<1> QED BY <1>1, <1>2, <1>3, PTL DEF Spec

=============================================================================
