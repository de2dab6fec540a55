--------------------------- MODULE PkgTransaction ---------------------------
(***************************************************************************)
(* The transactions of `yew pkg` (src/src/mod/plug/pkg.c): installing and  *)
(* removing a plugin change three things that no single system call can   *)
(* change together, the plugin's directory, plugins.lock and trust.fl.    *)
(* Each command therefore writes an intent with copies of the two files    *)
(* first, and the next command, whatever it is, rolls what an interrupted  *)
(* one left behind forward or back before it does anything itself.         *)
(*                                                                         *)
(* A process runs one command, a system call at a time; any call may fail, *)
(* the process may be killed between two calls, and the power may fail.    *)
(* disk is what the running system sees, safe what a power loss leaves.    *)
(***************************************************************************)
EXTENDS Naturals

CONSTANTS
  Names,       \* the plugins
  Procs,       \* the processes, numbered in the order in which they start; each
               \* runs one command, so that they bound the commands
  Alone,       \* TRUE: a command starts only when no other one is running
  MaxFaults,   \* bound on system calls that fail
  MaxUpsets    \* bound on power losses and what the user does beside `yew pkg`

ASSUME PkgBounds ==
  /\ Names # {} /\ Procs \subseteq Nat /\ Alone \in BOOLEAN
  /\ MaxFaults \in Nat /\ MaxUpsets \in Nat

VARIABLES
  disk,    \* the files and directories as the running system sees them
  safe,    \* the same as a power loss would leave them
  proc,    \* one record for each process
  asked,   \* ghost: the plugins the user last asked to have enabled
  odd,     \* ghost: names whose story is unusual, see OddTypes
  left     \* the failures and the upsets still to come

vars == <<disk, safe, proc, asked, odd, left>>

NoIntent == [op |-> "none"]
NoCopy   == [missing |-> TRUE]

(* The intent file "2 op enable ... name aux": aux names the staging or    *)
(* trash directory, here by the process that made it.                      *)
Txn == [op : {"I", "R"}, name : Names, flag : BOOLEAN, who : Procs]

Tree == {"none", "part", "whole"}
Trust == [Names -> {"unset", "off", "on"}]

(* home: the plugin root's directories; stage: the .pkg-tmp directories;   *)
(* trash: the .pkg-trash directories; before: pkg.trust.before and         *)
(* pkg.lock.before.                                                        *)
Disks ==
  [intent : Txn \union {NoIntent},
   before : [trust : Trust, lock : SUBSET Names] \union {NoCopy},
   trust  : Trust,
   lock   : SUBSET Names,
   home   : [Names -> Tree],
   stage  : SUBSET Procs,
   trash  : [Procs -> Tree]]

(* What fsync of a directory makes safe.  A directory that moves between   *)
(* the plugin root and the data directory is one record of the journal:    *)
(* the first fsync of either makes the move safe.                          *)
Moved == {"home", "stage", "trash"}
Files == [root |-> Moved, data |-> Moved \union {"lock"},
          state |-> {"intent", "before", "trust"}]
DirOf == [lock |-> "data", trust |-> "state", intent |-> "state", before |-> "state"]

Flushed(d, dir) == [f \in DOMAIN safe |-> IF f \in Files[dir] THEN d[f] ELSE safe[f]]

Idle(p)    == proc[p].pc \in {"fresh", "over"}
At(p, pc)  == proc[p].pc = pc
Mine(p)    == proc[p].mine
Todo(p)    == proc[p].todo
Quiet      == disk.intent = NoIntent /\ \A p \in Procs : Idle(p)

-----------------------------------------------------------------------------
(* A step of process p leads to pc; a step that fails also spends a fault. *)

Fresh(p) ==
  [pc |-> "fresh", call |-> "first", hurt |-> FALSE,
   mine |-> [op |-> "L", name |-> CHOOSE n \in Names : TRUE, flag |-> FALSE, who |-> p],
   todo |-> NoIntent, lk |-> {}, t0 |-> [n \in Names |-> "unset"]]

(* The process forgets what it knew when it ends. *)
Ended(r) == [Fresh(r.mine.who) EXCEPT !.pc = "over"]

(* yew_pkg_main dispatches after a recovery that worked, and returns 3     *)
(* after one that did not; pkg_install and pkg_remove call it again last.  *)
Recovered(r, ok) ==
  CASE r.call = "last" \/ ~ok -> Ended(r)
    [] OTHER -> LET q == [r EXCEPT !.call = "main", !.todo = NoIntent] IN
                CASE q.mine.op = "I" -> [q EXCEPT !.pc = "i_stage"]
                  [] q.mine.op = "R" -> [q EXCEPT !.pc = "m_load"]
                  [] OTHER           -> Ended(q)

(* Where control goes: most names are steps, the others stand for leaving  *)
(* a function.                                                             *)
Moving(r, to) ==
  CASE to = "over"    -> Ended(r)
    [] to = "recover" -> [r EXCEPT !.pc = "recover", !.call = "last"]
    [] to = "cleared" -> IF r.call = "main" THEN Ended(r) ELSE Recovered(r, TRUE)
    [] to = "pending" -> IF r.call # "main" THEN [r EXCEPT !.pc = "r_fail"]
                         ELSE IF r.mine.op = "I" THEN [r EXCEPT !.pc = "i_tidy"]
                         ELSE [r EXCEPT !.pc = "recover", !.call = "last"]
    [] to = "m_fail"  -> IF r.mine.flag THEN [r EXCEPT !.pc = "recover", !.call = "last"]
                         ELSE [r EXCEPT !.pc = "m_undo"]
    [] OTHER          -> [r EXCEPT !.pc = to]

Goto(p, to) ==
  /\ proc' = [proc EXCEPT ![p] = Moving(@, to)]
  /\ UNCHANGED left

Fault(p, to) ==
  /\ left.faults > 0
  /\ left' = [left EXCEPT !.faults = @ - 1]
  /\ proc' = [proc EXCEPT ![p] = Moving([@ EXCEPT !.hurt = TRUE], to)]

(* pkg_fsync_dir *)
Flush(p, dir, good, bad) ==
  /\ UNCHANGED disk
  /\ \/ safe' = Flushed(disk, dir) /\ Goto(p, good)
     \/ UNCHANGED safe /\ Fault(p, bad)

(* yew_file_write_atomic_result: write and fsync a temporary file, rename  *)
(* it into place, fsync the directory.  It fails before the rename (to     *)
(* lost) or after it (to unsure).                                          *)
Write(p, f, v, good, lost, unsure) ==
  LET new == [disk EXCEPT ![f] = v] IN
  \/ disk' = new /\ safe' = Flushed(new, DirOf[f]) /\ Goto(p, good)
  \/ UNCHANGED <<disk, safe>> /\ Fault(p, lost)
  \/ disk' = new /\ UNCHANGED safe /\ Fault(p, unsure)

(* yew_pkg_lock_save: nothing is written when the file is as it should be. *)
SaveLock(p, v, good, bad) ==
  \/ disk.lock = v /\ UNCHANGED <<disk, safe, odd>> /\ Goto(p, good)
  \/ /\ disk.lock # v
     /\ Write(p, "lock", v, good, bad, bad)
     /\ odd' = IF left' = left THEN odd
               ELSE [odd EXCEPT !.doubted = @ \union
                       ((disk.lock \ v) \union (v \ disk.lock))]

(* yew_rmtree empties a directory before it removes it, and may stop half  *)
(* way; a directory that is not there is an error.                         *)
RmTree(p, f, k, good, bad) ==
  /\ UNCHANGED safe
  /\ \/ disk[f][k] = "whole" /\ disk' = [disk EXCEPT ![f][k] = "part"] /\ Goto(p, proc[p].pc)
     \/ disk[f][k] = "part" /\ disk' = [disk EXCEPT ![f][k] = "none"] /\ Goto(p, good)
     \/ disk[f][k] = "none" /\ UNCHANGED disk /\ Goto(p, bad)
     \/ disk[f][k] # "none" /\ UNCHANGED disk /\ Fault(p, bad)

(* pkg_remove_path_sync, of a staging directory: its content matters to    *)
(* nobody, so it goes in one step.                                         *)
RmStage(p, who, good, bad) ==
  LET new == [disk EXCEPT !.stage = @ \ {who}] IN
  \/ disk' = new /\ safe' = Flushed(new, "root") /\ Goto(p, good)
  \/ disk' \in {disk, new} /\ UNCHANGED safe /\ Fault(p, bad)

(* rename of a plugin directory to or from the trash of process q. *)
Rename(d, n, q, there) ==
  IF there THEN [d EXCEPT !.trash[q] = d.home[n], !.home[n] = "none"]
           ELSE [d EXCEPT !.home[n] = d.trash[q], !.trash[q] = "none"]

-----------------------------------------------------------------------------
(* pkg_txn_recover. *)

(* A bug to tell from the code: the entry alone decides. *)
EntryDecides(i) ==
  LET entry == i.name \in disk.lock IN
  CASE i.op = "I" /\ entry   -> "r_flush"
    [] i.op = "R" /\ ~entry  -> "r_flush"
    [] i.op = "I" /\ ~entry  -> "r_rmdir"
    [] i.op = "R" /\ entry /\ disk.home[i.name] = "none" -> "r_back"
    [] OTHER                 -> "r_lock"

Decision(i) ==
  LET entry == i.name \in disk.lock
      there == disk.home[i.name] # "none" IN
  CASE i.op = "I" /\ entry /\ there   -> "r_flush"
    [] i.op = "R" /\ ~entry /\ ~there -> "r_flush"
    [] i.op = "I" /\ ~entry /\ there  -> "r_rmdir"
    [] i.op = "R" /\ entry /\ ~there  -> "r_back"
    [] OTHER                          -> "r_lock"

Recover(p) ==
  /\ At(p, "recover")
  /\ proc' = [proc EXCEPT ![p] =
        IF disk.intent = NoIntent THEN Recovered(@, TRUE)
        ELSE [@ EXCEPT !.todo = disk.intent, !.pc = Decision(disk.intent)]]
  /\ UNCHANGED <<disk, safe, asked, odd, left>>

Forward(p) ==
  LET i == Todo(p) IN
  /\ UNCHANGED <<asked, odd>>
  /\ \/ /\ At(p, "r_flush")
        /\ Flush(p, "data", IF i.op = "R" THEN "r_rmtrash"
                            ELSE IF i.flag THEN "r_enable" ELSE "r_stage", "r_fail")
     \/ /\ At(p, "r_enable")
        /\ Write(p, "trust", [disk.trust EXCEPT ![i.name] = "on"], "r_stage", "r_fail", "r_fail")
     \/ /\ At(p, "r_rmtrash") /\ disk.trash[i.who] # "none"
        /\ RmTree(p, "trash", i.who, "r_rmsync", "r_fail")
     \/ /\ \/ At(p, "r_rmtrash") /\ disk.trash[i.who] = "none"
           \/ At(p, "r_rmsync")
        /\ Flush(p, "data", IF i.flag THEN "c_unlink" ELSE "r_drop", "r_fail")
     \/ /\ At(p, "r_drop")
        /\ Write(p, "trust", [disk.trust EXCEPT ![i.name] = "unset"], "c_unlink", "r_fail", "r_fail")

Back(p) ==
  LET i == Todo(p)
      after == IF i.op = "I" THEN "r_stage" ELSE "c_unlink" IN
  /\ UNCHANGED asked
  /\ \/ /\ At(p, "r_rmdir") /\ UNCHANGED odd
        /\ RmTree(p, "home", i.name, "r_rmdirsync", "r_fail")
     \/ /\ At(p, "r_rmdirsync") /\ UNCHANGED odd
        /\ Flush(p, "root", "r_lock", "r_fail")
     \/ /\ At(p, "r_back") /\ UNCHANGED <<safe, odd>>
        /\ \/ /\ disk.trash[i.who] # "none"
              /\ disk' = Rename(disk, i.name, i.who, FALSE)
              /\ Goto(p, "r_backroot")
           \/ UNCHANGED disk /\ disk.trash[i.who] = "none" /\ Goto(p, "r_fail")
           \/ UNCHANGED disk /\ disk.trash[i.who] # "none" /\ Fault(p, "r_fail")
     \/ /\ At(p, "r_backroot") /\ UNCHANGED odd
        /\ Flush(p, "root", "r_backdata", "r_fail")
     \/ /\ At(p, "r_backdata") /\ UNCHANGED odd
        /\ Flush(p, "data", "r_lock", "r_fail")
     \/ /\ At(p, "r_lock") /\ disk.before # NoCopy /\ UNCHANGED odd
        /\ Write(p, "lock", disk.before.lock, "r_trust", "r_fail", "r_fail")
     \/ /\ At(p, "r_trust") /\ disk.before # NoCopy /\ UNCHANGED odd
        /\ Write(p, "trust", disk.before.trust, after, "r_fail", "r_fail")
     \/ /\ proc[p].pc \in {"r_lock", "r_trust"} /\ disk.before = NoCopy
        /\ Goto(p, "r_fail") /\ UNCHANGED <<disk, safe, odd>>

(* The staging directory the intent names, then the end of a recovery that *)
(* did not work.                                                           *)
Finish(p) ==
  /\ UNCHANGED <<asked, odd>>
  /\ \/ At(p, "r_stage") /\ RmStage(p, Todo(p).who, "c_unlink", "r_fail")
     \/ /\ At(p, "r_fail") /\ UNCHANGED <<disk, safe, left>>
        /\ proc' = [proc EXCEPT ![p] = Recovered(@, FALSE)]

(* A bug to tell from the code: the copies go before the intent. *)
CopiesFirst(p) ==
  /\ UNCHANGED <<asked, odd>>
  /\ \/ /\ At(p, "c_unlink") /\ UNCHANGED safe
        /\ \/ disk' = [disk EXCEPT !.before = NoCopy] /\ Goto(p, "c_copies")
           \/ UNCHANGED disk /\ Fault(p, "pending")
     \/ /\ At(p, "c_copies") /\ UNCHANGED safe
        /\ \/ disk' = [disk EXCEPT !.intent = NoIntent] /\ Goto(p, "c_sync")
           \/ UNCHANGED disk /\ Fault(p, "pending")
     \/ At(p, "c_sync") /\ Flush(p, "state", "cleared", "pending")

(* pkg_txn_clear; the two copies go last and may stay. *)
Clear(p) ==
  /\ UNCHANGED <<asked, odd>>
  /\ \/ /\ At(p, "c_unlink") /\ UNCHANGED safe
        /\ \/ disk' = [disk EXCEPT !.intent = NoIntent] /\ Goto(p, "c_sync")
           \/ UNCHANGED disk /\ Fault(p, "pending")
     \/ At(p, "c_sync") /\ Flush(p, "state", "c_copies", "pending")
     \/ /\ At(p, "c_copies") /\ UNCHANGED safe
        /\ \/ disk' = [disk EXCEPT !.before = NoCopy] /\ Goto(p, "cleared")
           \/ UNCHANGED disk /\ Fault(p, "cleared")

-----------------------------------------------------------------------------
(* yew_pkg_main: a command starts with the recovery.  "L" stands for the   *)
(* commands that change nothing (list, and doctor without an option).      *)
Start(p) ==
  /\ At(p, "fresh")
  /\ \A q \in Procs : q < p => ~At(q, "fresh")
  /\ Alone => \A q \in Procs : Idle(q)
  /\ \E op \in {"I", "R", "L"}, n \in Names, flag \in BOOLEAN :
       /\ op = "L" => ~flag
       /\ proc' = [proc EXCEPT ![p].pc = "recover",
                     ![p].mine = [op |-> op, name |-> n, flag |-> flag, who |-> p]]
  /\ UNCHANGED <<disk, safe, asked, odd, left>>

(* A bug to tell from the code: the result of writing the intent is not    *)
(* looked at.                                                              *)
Unchecked(p) ==
  LET m == Mine(p)
      bad == IF m.op = "I" THEN "i_drop" ELSE "over" IN
  /\ UNCHANGED odd
  /\ \/ /\ At(p, "b_copies") /\ UNCHANGED asked
        /\ Write(p, "before", [trust |-> disk.trust, lock |-> disk.lock], "b_intent", bad, bad)
     \/ /\ At(p, "b_intent")
        /\ Write(p, "intent", m,
                 IF m.op = "R" /\ m.flag THEN "m_quar" ELSE "load", "load", "load")
        /\ asked' = IF m.op = "R" THEN asked
                    ELSE IF m.flag THEN asked \union {m.name} ELSE asked \ {m.name}

(* pkg_txn_begin.  The copies are one step: nobody reads them while there  *)
(* is no intent.                                                           *)
Begin(p) ==
  LET m == Mine(p)
      bad == IF m.op = "I" THEN "i_drop" ELSE "over" IN
  /\ UNCHANGED odd
  /\ \/ /\ At(p, "b_copies") /\ UNCHANGED asked
        /\ Write(p, "before", [trust |-> disk.trust, lock |-> disk.lock], "b_intent", bad, bad)
     \/ /\ At(p, "b_intent")
        /\ Write(p, "intent", m,
                 IF m.op = "R" /\ m.flag THEN "m_quar" ELSE "load", bad, bad)
        /\ asked' = IF m.op = "R" THEN asked
                    ELSE IF m.flag THEN asked \union {m.name} ELSE asked \ {m.name}

(* A bug to tell from the code: an install leaves the trust as it finds it. *)
OffWhenRemoved(p) ==
  LET m == Mine(p) IN
  /\ UNCHANGED <<asked, odd>>
  /\ \/ /\ At(p, "load")
        /\ proc' = [proc EXCEPT ![p].t0 = disk.trust, ![p].pc = "off"]
        /\ UNCHANGED <<disk, safe, left>>
     \/ /\ At(p, "off")
        /\ IF m.op = "I"
           THEN Goto(p, "i_publish") /\ UNCHANGED <<disk, safe>>
           ELSE Write(p, "trust", [proc[p].t0 EXCEPT ![m.name] = "off"],
                      "m_quar", "recover", "m_undo")

(* Both commands then switch the plugin off, keeping the trust they found. *)
SwitchOff(p) ==
  LET m == Mine(p) IN
  /\ UNCHANGED <<asked, odd>>
  /\ \/ /\ At(p, "load")
        /\ proc' = [proc EXCEPT ![p].t0 = disk.trust, ![p].pc = "off"]
        /\ UNCHANGED <<disk, safe, left>>
     \/ /\ At(p, "off")
        /\ IF m.op = "I"
           THEN Write(p, "trust", [proc[p].t0 EXCEPT ![m.name] = "off"],
                      "i_publish", "i_tidy", "i_undo")
           ELSE Write(p, "trust", [proc[p].t0 EXCEPT ![m.name] = "off"],
                      "m_quar", "recover", "m_undo")

(* pkg_install up to its transaction: the lock is read, the repository is  *)
(* cloned into a staging directory (git, outside this model, may fail).    *)
Stage(p) ==
  LET n == Mine(p).name IN
  /\ UNCHANGED <<safe, asked, odd>>
  /\ \/ /\ At(p, "i_stage")
        /\ \/ /\ proc' = [proc EXCEPT ![p].lk = disk.lock, ![p].pc = "i_check"]
              /\ disk' = [disk EXCEPT !.stage = @ \union {p}]
              /\ UNCHANGED left
           \/ UNCHANGED disk /\ Fault(p, "over")
     \/ /\ At(p, "i_check") /\ UNCHANGED disk
        /\ \/ Goto(p, IF disk.home[n] = "none" THEN "b_copies" ELSE "i_drop")
           \/ Fault(p, "i_drop")

Publish(p) ==
  LET n == Mine(p).name
      lk == proc[p].lk IN
  /\ UNCHANGED asked
  /\ \/ /\ At(p, "i_publish") /\ UNCHANGED <<safe, odd>>
        /\ \/ /\ disk.home[n] = "none"
              /\ disk' = [disk EXCEPT !.home[n] = "whole"]
              /\ Goto(p, "i_sync")
           \/ disk.home[n] # "none" /\ UNCHANGED disk /\ Goto(p, "i_undo")
           \/ UNCHANGED disk /\ Fault(p, "i_undo")
     \/ At(p, "i_sync") /\ UNCHANGED odd /\ RmStage(p, p, "i_lock", "i_unpub")
     \/ /\ At(p, "i_lock")
        /\ SaveLock(p, lk \union {n}, IF Mine(p).flag THEN "i_on" ELSE "c_unlink", "i_unpub")
     \/ /\ At(p, "i_on") /\ UNCHANGED odd
        /\ Write(p, "trust", [proc[p].t0 EXCEPT ![n] = "on"], "c_unlink", "i_relock", "i_relock")

(* The ways out of an install that failed; what fails here is reported and *)
(* left to the recovery.                                                   *)
Unpublish(p) ==
  /\ UNCHANGED asked
  /\ \/ At(p, "i_relock") /\ SaveLock(p, proc[p].lk, "i_unpub", "i_unpub")
     \/ /\ At(p, "i_unpub") /\ UNCHANGED odd
        /\ RmTree(p, "home", Mine(p).name, "i_unsync", "i_undo")
     \/ At(p, "i_unsync") /\ UNCHANGED odd /\ Flush(p, "root", "i_undo", "i_undo")
     \/ /\ At(p, "i_undo") /\ UNCHANGED odd
        /\ Write(p, "trust", proc[p].t0, "i_tidy", "i_tidy", "i_tidy")
     \/ /\ At(p, "i_tidy") /\ p \in disk.stage /\ UNCHANGED odd
        /\ RmStage(p, p, "recover", "recover")
     \/ /\ At(p, "i_tidy") /\ p \notin disk.stage /\ UNCHANGED <<disk, safe, odd>>
        /\ Goto(p, "recover")
     \/ At(p, "i_drop") /\ UNCHANGED odd /\ RmStage(p, p, "over", "over")

(* pkg_remove: the directory goes to the trash, the entry out of the lock, *)
(* the policy out of the trust, the trash away.                            *)
Quarantine(p) ==
  LET n == Mine(p).name IN
  /\ UNCHANGED <<asked, odd>>
  /\ \/ /\ At(p, "m_load") /\ UNCHANGED <<disk, safe, left>>
        /\ proc' = [proc EXCEPT ![p] =
              IF n \in disk.lock THEN [@ EXCEPT !.lk = disk.lock, !.pc = "b_copies"]
                                 ELSE Ended(@)]
     \/ /\ At(p, "m_quar") /\ UNCHANGED safe
        /\ \/ disk.home[n] = "none" /\ UNCHANGED disk /\ Goto(p, "m_lock")
           \/ /\ disk.home[n] # "none"
              /\ disk' = Rename(disk, n, p, TRUE)
              /\ Goto(p, "m_root")
           \/ disk.home[n] # "none" /\ UNCHANGED disk /\ Fault(p, "m_fail")
     \/ At(p, "m_root") /\ Flush(p, "root", "m_data", "m_unquar")
     \/ At(p, "m_data") /\ Flush(p, "data", "m_lock", "m_unquar")

Unlist(p) ==
  LET n == Mine(p).name
      lk == proc[p].lk
      quarantined == disk.trash[p] # "none" IN
  /\ UNCHANGED asked
  /\ \/ /\ At(p, "m_lock")
        /\ SaveLock(p, lk \ {n}, IF Mine(p).flag THEN "m_rmtrash" ELSE "m_drop", "m_relock")
     \/ /\ At(p, "m_drop") /\ UNCHANGED odd
        /\ Write(p, "trust", [proc[p].t0 EXCEPT ![n] = "unset"],
                 "m_rmtrash", "recover", "recover")
     \/ /\ At(p, "m_rmtrash") /\ quarantined /\ UNCHANGED odd
        /\ RmTree(p, "trash", p, "m_rmsync", "recover")
     \/ /\ At(p, "m_rmtrash") /\ ~quarantined /\ UNCHANGED <<disk, safe, odd>>
        /\ Goto(p, "c_unlink")
     \/ At(p, "m_rmsync") /\ UNCHANGED odd /\ Flush(p, "data", "c_unlink", "recover")

(* The ways out of a removal that failed before the lock was written. *)
Unremove(p) ==
  LET n == Mine(p).name
      quarantined == disk.trash[p] # "none" IN
  /\ UNCHANGED asked
  /\ \/ /\ At(p, "m_relock")
        /\ SaveLock(p, proc[p].lk, IF quarantined THEN "m_unquar" ELSE "m_fail",
                                   IF quarantined THEN "m_unquar" ELSE "m_fail")
     \/ /\ At(p, "m_unquar") /\ UNCHANGED <<safe, odd>>
        /\ \/ /\ disk.home[n] = "none" /\ quarantined
              /\ disk' = Rename(disk, n, p, FALSE)
              /\ Goto(p, "m_resync")
           \/ ~(disk.home[n] = "none" /\ quarantined) /\ UNCHANGED disk /\ Goto(p, "m_fail")
           \/ UNCHANGED disk /\ Fault(p, "m_fail")
     \/ At(p, "m_resync") /\ UNCHANGED odd /\ Flush(p, "data", "m_fail", "m_fail")
     \/ /\ At(p, "m_undo") /\ UNCHANGED odd
        /\ Write(p, "trust", proc[p].t0, "recover", "recover", "recover")

-----------------------------------------------------------------------------
(* The world: the process is killed, the power fails, the user acts.       *)

Kill(p) ==
  /\ ~Idle(p)
  /\ proc' = [proc EXCEPT ![p] = Ended(@)]
  /\ UNCHANGED <<disk, safe, asked, odd, left>>

Upset ==
  /\ left.upsets > 0
  /\ left' = [left EXCEPT !.upsets = @ - 1]

(* What was not made safe survives or not, the moves of the directories    *)
(* together, the lock by itself, the files of the state directory together.*)
Unsafe == {part \in {Moved, {"lock"}, Files.state} : \E f \in part : safe[f] # disk[f]}

Loss ==
  /\ Upset
  /\ \E gone \in SUBSET Unsafe :
       disk' = [f \in DOMAIN disk |-> IF f \in UNION gone THEN safe[f] ELSE disk[f]]
  /\ safe' = disk'
  /\ proc' = [p \in Procs |-> IF Idle(p) THEN proc[p] ELSE Ended(proc[p])]
  /\ UNCHANGED <<asked, odd>>

(* `yew plug enable` and `disable`, which may run beside a `yew pkg`. *)
Decide ==
  /\ Upset
  /\ \E n \in Names, d \in {"on", "off"} :
       /\ disk.home[n] # "none"
       /\ disk' = [disk EXCEPT !.trust[n] = d]
       /\ asked' = IF d = "on" THEN asked \union {n} ELSE asked \ {n}
       /\ odd' = IF Quiet THEN odd ELSE [odd EXCEPT !.overtaken = @ \union {n}]
  /\ safe' = Flushed(disk', "state")
  /\ UNCHANGED proc

(* The user deletes a plugin directory; `yew pkg list` calls it missing. *)
Delete ==
  /\ Upset
  /\ \A p \in Procs : Idle(p)
  /\ \E n \in Names :
       /\ disk.home[n] # "none"
       /\ disk' = [disk EXCEPT !.home[n] = "none"]
       /\ odd' = [odd EXCEPT !.strayed = @ \union {n}]
  /\ safe' = Flushed(disk', "root")
  /\ UNCHANGED <<proc, asked>>

-----------------------------------------------------------------------------
(* Some plugins are installed, each with its entry; the trust file may     *)
(* know any plugin (--keep-grants leaves its policy behind).               *)
Init ==
  /\ \E there \in SUBSET Names, trust \in Trust :
       /\ disk = [intent |-> NoIntent, before |-> NoCopy, trust |-> trust, lock |-> there,
                  home |-> [n \in Names |-> IF n \in there THEN "whole" ELSE "none"],
                  stage |-> {}, trash |-> [p \in Procs |-> "none"]]
       /\ asked = {n \in Names : trust[n] = "on"}
  /\ safe = disk
  /\ proc = [p \in Procs |-> Fresh(p)]
  /\ odd = [strayed |-> {}, doubted |-> {}, overtaken |-> {}]
  /\ left = [faults |-> MaxFaults, upsets |-> MaxUpsets]

Step(p) ==
  \/ Start(p) \/ Recover(p) \/ Forward(p) \/ Back(p) \/ Finish(p) \/ Clear(p)
  \/ Begin(p) \/ SwitchOff(p) \/ Stage(p) \/ Publish(p) \/ Unpublish(p)
  \/ Quarantine(p) \/ Unlist(p) \/ Unremove(p)

Next == (\E p \in Procs : Step(p) \/ Kill(p)) \/ Loss \/ Decide \/ Delete

Spec == Init /\ [][Next]_vars

-----------------------------------------------------------------------------
OddTypes == [strayed : SUBSET Names,     \* directory deleted by hand
             doubted : SUBSET Names,     \* a failed write of the lock was about it
             overtaken : SUBSET Names]   \* decided about while a transaction was open

(* The steps between pkg_txn_begin and pkg_txn_clear. *)
Open ==
  {"load", "off",
   "i_publish", "i_sync", "i_lock", "i_on", "i_relock", "i_unpub", "i_unsync", "i_undo",
   "m_quar", "m_root", "m_data", "m_unquar", "m_lock", "m_drop", "m_rmtrash", "m_rmsync",
   "m_relock", "m_resync", "m_undo"}

(* The steps of pkg_txn_recover. *)
Undoing ==
  {"r_flush", "r_enable", "r_rmtrash", "r_rmsync", "r_drop", "r_rmdir", "r_rmdirsync",
   "r_back", "r_backroot", "r_backdata", "r_lock", "r_trust", "r_stage"}

Steps ==
  Open \union Undoing \union
  {"fresh", "over", "recover", "r_fail", "c_unlink", "c_sync", "c_copies",
   "b_copies", "b_intent", "i_stage", "i_check", "i_tidy", "i_drop", "m_load"}

(* The types, and the rule that everything else rests on: no step of a     *)
(* command touches the directory, the lock or the trust unless its intent  *)
(* is on the disk, and a recovery works on the intent that is there.       *)
TypeOK ==
  /\ disk \in Disks /\ safe \in Disks
  /\ \A p \in Procs :
       /\ proc[p].pc \in Steps
       /\ proc[p].call \in {"first", "main", "last"}
       /\ proc[p].hurt \in BOOLEAN
       /\ proc[p].mine \in [op : {"I", "R", "L"}, name : Names, flag : BOOLEAN, who : {p}]
       /\ proc[p].todo \in Txn \union {NoIntent}
       /\ proc[p].lk \subseteq Names
       /\ proc[p].t0 \in Trust
       /\ Alone /\ proc[p].pc \in Open => disk.intent = Mine(p)
       /\ Alone /\ proc[p].pc \in Undoing => disk.intent = Todo(p)
  /\ asked \subseteq Names
  /\ odd \in OddTypes
  /\ left \in [faults : 0..MaxFaults, upsets : 0..MaxUpsets]

(* Whenever no command runs and no intent is left, by whatever failures,   *)
(* kills and power losses that came about, the commands so far were done   *)
(* whole or not at all: a plugin is listed in plugins.lock exactly when    *)
(* its directory is there, and no directory is left in the trash (pkg.c,   *)
(* pkg_txn_recover).  Half a directory is there only when a write of the   *)
(* lock failed after it had replaced the file; plugins whose directory the *)
(* user deleted by hand are not meant.                                     *)
AllOrNothing ==
  Quiet =>
    /\ \A p \in Procs : disk.trash[p] = "none"
    /\ \A n \in Names \ odd.strayed :
         /\ n \in disk.lock <=> disk.home[n] # "none"
         /\ disk.home[n] = "part" => n \in odd.doubted

(* A recovery in which no call fails ends the transaction it finds,        *)
(* however often it was interrupted before: otherwise every later          *)
(* `yew pkg` command would refuse.  It does not when the plugin being      *)
(* removed had no directory to put back.                                   *)
RecoveryWorks ==
  \A p \in Procs :
    At(p, "r_fail") /\ ~proc[p].hurt =>
      LET i == Todo(p) IN
      /\ i.op = "R" /\ i.name \in odd.strayed
      /\ disk.home[i.name] = "none" /\ disk.trash[i.who] = "none"

(* A plugin that is there and enabled is one the user asked to enable: no  *)
(* moment of an install, a removal or a recovery lets an editor that       *)
(* starts then load code that was not.  With calls that fail this is so    *)
(* once the transaction is over.  Decisions the user makes while one is    *)
(* open are not meant: the command writes the trust it read back.          *)
LiveOnlyAsked ==
  left.faults = MaxFaults \/ Quiet =>
    \A n \in Names \ (odd.overtaken \union odd.doubted \union odd.strayed) :
      disk.home[n] # "none" /\ disk.trust[n] = "on" => n \in asked
=============================================================================
