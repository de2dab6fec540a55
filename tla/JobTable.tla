------------------------------ MODULE JobTable ------------------------------
(* Child processes: the job table (src/edit/job.c), the main loop's turn     *)
(* (src/edit/loop.c) and the synchronous region filter (src/edit/shell.c).   *)
(* A job's process group runs beside the loop; the loop sees it through four *)
(* things that come in any order: the exec status, the ends of the two       *)
(* output pipes, and SIGCHLD.  Callbacks may start jobs while the table is   *)
(* walked, a full table evicts one, the user kills and clears jobs, and time *)
(* passes: what is armed becomes due at a moment of its own.                 *)
(*                                                                           *)
(* Kinds of job: "run" streams into a buffer; "gen" is a completion          *)
(* generator (a callback, a time limit, evictable); "git" is a callback that *)
(* may start another; "stream" has a transport for owner; "filter" is the    *)
(* one the loop waits for.                                                   *)
(*                                                                           *)
(* The table is in the order of the ids: a new job has the next id and goes  *)
(* to the end, and a job that leaves closes the gap.  Most of what happens   *)
(* to a job depends on it alone: operators take a job and return it.         *)
EXTENDS Naturals, Sequences, FiniteSets

CONSTANTS
  Plan,       \* bound: what each job that is started may be; its domain ids
  TableMax    \* YEW_JOB_MAX

(* forks: its leader may leave a descendant behind that keeps the pipes      *)
(* open; big: its output may pass the ceiling                                *)
AllKinds == {"run", "gen", "git", "stream", "filter"}
JobKinds == [kind : AllKinds, forks : BOOLEAN, big : BOOLEAN]

ASSUME JobAssumption ==
  Plan \in Seq(SUBSET JobKinds) /\ TableMax \in Nat \ {0}

Ids == DOMAIN Plan

VARIABLES
  job,      \* each job: what the table says of it, its process group, and
            \* (history) the calls its owner got
  next,     \* jobs.next_id
  pc,       \* where the loop is
  chld,     \* the SIGCHLD this turn drained from the self-pipe
  sigchld,  \* one is in the self-pipe
  drive,    \* the filter the loop is waiting for, 0 for none
  text      \* the region filters work on: as it was, or what took its place

loop == <<pc, chld, drive>>
vars == <<job, next, loop, sigchld, text>>

Limited(k)   == k \in {"gen", "filter"}
Evictable(k) == k = "gen"
Callback(k)  == k \in {"gen", "git"}
Owned(k)     == Callback(k) \/ k = "stream"
Collects(k)  == Callback(k) \/ k = "filter"

(* leader: "new" until it has called exec; errno: what the exec-status pipe   *)
(* then holds.  One chunk of output stands for all of it: still to be        *)
(* written, in the pipe, with the sink, or dropped.                          *)
NoProc == [leader |-> "none", forks |-> FALSE, kin |-> FALSE,
           errno |-> FALSE, chunk |-> "none", sig |-> "none", ok |-> FALSE]

NoJob == [kind |-> "none", state |-> "none", fds |-> {}, reaped |-> FALSE,
          drained |-> FALSE, kill |-> FALSE, owned |-> FALSE, full |-> FALSE,
          proc |-> NoProc, calls |-> <<>>]

Listed(j) == j.state # "none"
Table     == {i \in Ids : Listed(job[i])}
First(S)  == CHOOSE i \in S : \A k \in S : i <= k

Init ==
  /\ job = [i \in Ids |-> NoJob]
  /\ next = 1 /\ pc = "poll" /\ chld = FALSE
  /\ sigchld = FALSE /\ drive = 0 /\ text = "before"

-----------------------------------------------------------------------------
(* The table.                                                                *)

Runs(p)       == p.leader \in {"new", "up"}
Alive(p)      == Runs(p) \/ p.kin
Pending(j)    == ~j.reaped \/ "out" \in j.fds \/ "err" \in j.fds
(* Plausible bugs: finished at the exit of the child ...                     *)
HastySettleable(j) == Listed(j) /\ ~j.drained /\ j.reaped
Settleable(j) == /\ Listed(j) /\ ~j.drained /\ ~Pending(j)
                 /\ Callback(j.kind) => "exec" \notin j.fds

(* kill(-pgid, s) *)
Kill(j, s) == IF Alive(j.proc) /\ j.proc.sig # "KILL"
              THEN [j EXCEPT !.proc.sig = s] ELSE j

(* yew_job_signal *)
Signal(j, s) == IF j.state # "RUNNING" THEN j
                ELSE [Kill(j, s) EXCEPT !.kill = @ \/ s = "TERM"]

(* job_callback_destroy, job_stream_destroy *)
Destroy(j) == IF ~j.owned THEN j
              ELSE [j EXCEPT !.owned = FALSE, !.calls = Append(@, "destroy")]

(* A group that is over and waited for is forgotten with its job. *)
Forgotten(p) == IF Alive(p) \/ p.leader = "zombie" THEN p ELSE NoProc

(* waitpid *)
Waited(p) == [p EXCEPT !.leader = IF @ = "zombie" THEN "gone" ELSE @]

(* ... a slot dropped and its owner forgotten ... *)
ForgetfulRelease(j) ==
  IF j.state = "RUNNING" THEN j
  ELSE [NoJob EXCEPT !.proc = Forgotten(Waited(j.proc)), !.calls = j.calls]

(* yew_job_release, with job_dispose: "Never drop a live child". *)
Release(j) ==
  IF j.state = "RUNNING" THEN j
  ELSE [NoJob EXCEPT !.proc = Forgotten(Waited(j.proc)),
                     !.calls = Destroy(j).calls]

Ending(j) == IF j.state = "RUNNING" THEN "CANCELLED" ELSE j.state

(* ... an evicted job that is not killed ... *)
GentleEvict(j) == Release([j EXCEPT !.state = Ending(j)])

(* job_evict_one, of the first that may be evicted *)
Evict(j) ==
  Release([(IF Pending(j) THEN Kill(j, "KILL") ELSE j) EXCEPT !.state = Ending(j)])

Evictees == {i \in Table : Evictable(job[i].kind)}

(* yew_job_spawn *)
IsFull  == Cardinality(Table) >= TableMax
Room(k) == IsFull => ~Evictable(k) /\ Evictees # {}

Spawnable(S) == IF next \notin Ids THEN {}
                ELSE {k \in Plan[next] : k.kind \in S /\ Room(k.kind)}

New(k) ==
  [NoJob EXCEPT
     !.kind = k.kind, !.state = "RUNNING", !.fds = {"exec", "out", "err"},
     !.owned = Owned(k.kind), !.full = k.big,
     !.proc = [NoProc EXCEPT !.leader = "new", !.forks = k.forks,
                             !.chunk = "todo"],
     !.calls = IF Owned(k.kind) THEN <<"own">> ELSE <<>>]

Spawn(k) ==
  [i \in Ids |-> IF i = next THEN New(k)
                 ELSE IF IsFull /\ i = First(Evictees) THEN Evict(job[i])
                 ELSE job[i]]

-----------------------------------------------------------------------------
(* The process groups.                                                       *)

Process(i, p) ==
  /\ job' = [job EXCEPT ![i].proc = IF Listed(job[i]) THEN p ELSE Forgotten(p)]
  /\ UNCHANGED <<next, loop, text>>

(* job_child: exec, or errno down the exec-status pipe and _exit(127) *)
Exec(i) ==
  LET p == job[i].proc IN
  /\ p.leader = "new"
  /\ \/ Process(i, [p EXCEPT !.leader = "up"]) /\ UNCHANGED sigchld
     \/ /\ Process(i, [p EXCEPT !.leader = "zombie", !.errno = TRUE])
        /\ sigchld' = TRUE

Write(i) ==
  LET p == job[i].proc IN
  /\ p.leader = "up" \/ p.kin
  /\ p.chunk = "todo" /\ "out" \in job[i].fds
  /\ Process(i, [p EXCEPT !.chunk = "pipe"]) /\ UNCHANGED sigchld

(* The leader exits; a descendant may stay. *)
Exit(i) ==
  LET p == job[i].proc IN
  /\ p.leader = "up" /\ sigchld' = TRUE
  /\ \E kin \in {FALSE, p.forks}, ok \in {FALSE, job[i].kind = "filter"} :
       Process(i, [p EXCEPT !.leader = "zombie", !.kin = kin, !.ok = ok])

KinExit(i) ==
  /\ job[i].proc.kin /\ Process(i, [job[i].proc EXCEPT !.kin = FALSE])
  /\ UNCHANGED sigchld

(* SIGKILL takes the whole group; SIGTERM may be ignored. *)
Struck(i) ==
  LET p == job[i].proc IN
  /\ Alive(p) /\ p.sig = "KILL"
  /\ sigchld' = (sigchld \/ Runs(p))
  /\ Process(i, [p EXCEPT !.kin = FALSE,
                          !.leader = IF Runs(p) THEN "zombie" ELSE @])

-----------------------------------------------------------------------------
(* A turn of the loop.                                                       *)

(* yew_job_deadline: a job that is no longer running has none. *)
Deadline(j) == j.state = "RUNNING" /\ (j.kill \/ Limited(j.kind))

Readable(j) ==
  \/ "exec" \in j.fds /\ j.proc.leader # "new"
  \/ "out" \in j.fds /\ j.proc.chunk = "pipe"
  \/ j.fds \cap {"out", "err"} # {} /\ ~Alive(j.proc)

(* job_deliver.  Past the ceiling, or when the transport refuses it, the     *)
(* chunk is dropped and the job told to end.                                 *)
Refused(j) == Signal([j EXCEPT !.proc.chunk = "lost"], "TERM")
Fed(j)     == [j EXCEPT !.proc.chunk = "got"]
Deliver(j, refuse) ==
  IF (Collects(j.kind) /\ j.full) \/ (j.kind = "stream" /\ refuse) THEN Refused(j)
  ELSE Fed(j)

Close(j, f) == [j EXCEPT !.fds = @ \ {f}]
AtEof(j, f) == f \in j.fds /\ ~Alive(j.proc)

(* job_drain: until EAGAIN, the end, or (stop) the read budget *)
Drain(j, f, refuse, stop) ==
  IF f = "out" /\ f \in j.fds /\ j.proc.chunk = "pipe"
  THEN LET d == Deliver(j, refuse)
       IN  IF AtEof(d, f) /\ ~stop THEN Close(d, f) ELSE d
  ELSE IF AtEof(j, f) THEN Close(j, f) ELSE j

(* job_read_exec_status *)
ReadExec(j) ==
  IF j.proc.leader = "new" \/ "exec" \notin j.fds THEN j
  ELSE [Close(j, "exec") EXCEPT !.state = IF j.proc.errno THEN "EXECFAIL" ELSE @]

(* yew_job_pump: of each job the exec status, then the output *)
Read(j, refuse, stop) ==
  Drain(Drain(ReadExec(j), "out", refuse, stop), "err", refuse, stop)

Pumped(refuse, stop) ==
  [i \in Ids |-> IF i \in Table THEN Read(job[i], i \in refuse, i \in stop)
                 ELSE job[i]]

(* What may be refused, and where the budget may end the reading.            *)
Streams  == {i \in Table : job[i].kind = "stream"}
Chunks   == {i \in Table : job[i].proc.chunk = "pipe"}

(* poll returns and the self-pipe is drained; what it reported is read now   *)
(* (reading at once what would be readable at the next turn is the same).    *)
Polled ==
  /\ \E refuse \in SUBSET Streams, stop \in SUBSET Chunks :
       job' = Pumped(refuse, stop)
  /\ chld' = sigchld /\ sigchld' = FALSE
  /\ pc' = "reap" /\ UNCHANGED <<next, drive, text>>

(* ... because of a job, or because a deadline may have passed *)
Wake == /\ pc = "poll" /\ drive = 0
        /\ sigchld \/ \E i \in Table : Readable(job[i]) \/ Deadline(job[i])
        /\ Polled

Key == pc = "poll" /\ drive = 0 /\ Polled        \* ... because of a key

(* yew_job_reap: every child that has exited.  A timeout, a cancel and a     *)
(* failed exec already say why it died.                                      *)

(* ... a verdict that the wait status replaces ... *)
BluntVerdict(j) == [j EXCEPT !.reaped = TRUE, !.state = "EXITED"]

(* ... or is not looked at ... *)
HalfVerdict(j) == [j EXCEPT !.reaped = TRUE]

Verdict(j) == [j EXCEPT !.reaped = TRUE,
                        !.state = IF @ = "RUNNING" THEN "EXITED" ELSE @]

Wait(j) ==
  IF j.proc.leader # "zombie" THEN j
  ELSE IF Listed(j) THEN [Verdict(j) EXCEPT !.proc = Waited(@)]
  ELSE [j EXCEPT !.proc = Forgotten(Waited(@))]

Waits == drive # 0 \/ chld

(* ... one wait per SIGCHLD, though two exits may be one SIGCHLD ... *)
SingleReaped(i, j) ==
  IF Waits /\ \A k \in Ids : job[k].proc.leader = "zombie" => i <= k
  THEN Wait(j) ELSE j

Reaped(i, j) == IF Waits THEN Wait(j) ELSE j

(* yew_job_tick: of each job whose deadline has passed (due: to escalate;    *)
(* late: the time limit), the escalation to SIGKILL, whatever its state,     *)
(* before the time limit, if it runs.                                        *)
Escalate(j) == [(IF Pending(j) THEN Kill(j, "KILL") ELSE j) EXCEPT !.kill = FALSE]

TimeOut(j) == [Kill(j, "TERM") EXCEPT !.state = "TIMEOUT", !.kill = TRUE]

(* ... no escalation once the job is no longer running ... *)
TimidTick(j, due, late) ==
  IF j.state # "RUNNING" THEN j
  ELSE IF due /\ j.kill THEN Escalate(j)
  ELSE IF late /\ Limited(j.kind) THEN TimeOut(j) ELSE j

Tick(j, due, late) ==
  IF due /\ j.kill THEN Escalate(j)
  ELSE IF late /\ j.state = "RUNNING" /\ Limited(j.kind) THEN TimeOut(j) ELSE j

(* of the jobs as they are when the loop gets there *)
Ticked(now, due, late) ==
  [i \in Ids |-> LET j == Reaped(i, now[i]) IN
                 IF i \in Table THEN Tick(j, i \in due, i \in late) ELSE j]

Armed(js) == {i \in Table : js[i].kill}
Timed(js) == {i \in Table : js[i].state = "RUNNING" /\ Limited(js[i].kind)}

Reap ==
  /\ pc = "reap" /\ drive = 0 /\ pc' = "settle" /\ chld' = FALSE
  /\ \E due \in SUBSET Armed(job), late \in SUBSET Timed(job) :
       job' = Ticked(job, due, late)
  /\ UNCHANGED <<next, sigchld, drive, text>>

(* yew_job_settle: the first job that is reaped and read to the end.  Its    *)
(* callback may start a job, which may evict one and move the table.         *)
Overs == {i \in Ids : Settleable(job[i])}

Complete(j) == [j EXCEPT !.drained = TRUE,
                         !.calls = IF Callback(j.kind) THEN Append(@, "complete") ELSE @]

Settle ==
  /\ pc = "settle" /\ Overs # {}
  /\ LET i == First(Overs) IN
     IF ~Callback(job[i].kind)
     THEN job' = [job EXCEPT ![i] = Destroy(Complete(@))] /\ UNCHANGED next
     ELSE \/ job' = [job EXCEPT ![i] = Release(Complete(@))] /\ UNCHANGED next
          \/ /\ job[i].kind = "git" /\ next' = next + 1
             /\ \E k \in Spawnable({"git"}) :
                  job' = [Spawn(k) EXCEPT ![i] = Release(Complete(@))]
  /\ UNCHANGED <<loop, sigchld, text>>

(* The end of the turn: what runs when there is no input, or a key.          *)
AtEnd == pc = "settle" /\ Overs = {}

Idle == AtEnd /\ pc' = "poll"
          /\ UNCHANGED <<job, next, chld, sigchld, drive, text>>

Start ==
  /\ AtEnd /\ pc' = "poll" /\ next' = next + 1
  /\ \E k \in Spawnable(AllKinds) :
       /\ job' = Spawn(k)
       /\ drive' = IF k.kind = "filter" THEN next ELSE 0
  /\ UNCHANGED <<chld, sigchld, text>>

(* yew_job_cmd_kill, yew_job_cmd_kill_force *)
KillCmd(i, s) ==
  /\ AtEnd /\ pc' = "poll"
  /\ job[i].state = "RUNNING" /\ job' = [job EXCEPT ![i] = Signal(@, s)]
  /\ UNCHANGED <<next, chld, sigchld, drive, text>>

(* yew_job_cmd_clear_finished *)
Clear ==
  /\ AtEnd /\ pc' = "poll"
  /\ job' = [i \in Ids |-> IF i \in Table THEN Release(job[i]) ELSE job[i]]
  /\ UNCHANGED <<next, chld, sigchld, drive, text>>

-----------------------------------------------------------------------------
(* yew_shell_filter and filter_drive: the same turn with the user's keys     *)
(* held back, until the one job is over.                                     *)

(* ... over when its child is ... *)
HastyOver(j) == j.reaped
Over(j)      == ~Pending(j)

(* poll is given at most YEW_FILTER_TICK_MS: it always returns. *)
FilterPoll == pc = "poll" /\ drive # 0 /\ ~Over(job[drive]) /\ Polled

(* Escape, Ctrl-C: the signal goes only to a job that runs. *)
Cancelled(j) == [Signal(j, "TERM") EXCEPT !.state = "CANCELLED"]

FilterReap ==
  /\ pc = "reap" /\ drive # 0 /\ pc' = "poll" /\ chld' = FALSE
  /\ \E now \in {job, [job EXCEPT ![drive] = Cancelled(@)]} :
       \E due \in SUBSET Armed(now), late \in SUBSET Timed(now) :
         job' = Ticked(now, due, late)
  /\ UNCHANGED <<next, sigchld, drive, text>>

FilterEnd ==
  /\ pc = "poll" /\ drive # 0 /\ Over(job[drive]) /\ drive' = 0
  /\ LET p == job[drive].proc IN
     text' = IF job[drive].state # "EXITED" \/ ~p.ok THEN text
             ELSE IF p.chunk = "pipe" THEN "cut"
             ELSE IF p.chunk = "lost" THEN "capped" ELSE "after"
  /\ UNCHANGED <<job, next, pc, chld, sigchld>>

-----------------------------------------------------------------------------
(* yew_jobs_free: each job in turn is killed if it runs, and waited for.     *)

Quit == AtEnd /\ pc' = "quit"
          /\ UNCHANGED <<job, next, chld, sigchld, drive, text>>

(* ... children asked to leave at quit, not killed. *)
GentleQuitKill ==
  /\ pc = "quit" /\ Table # {} /\ job[First(Table)].state = "RUNNING"
  /\ job' = [job EXCEPT ![First(Table)] =
                           [Kill(@, "TERM") EXCEPT !.state = "CANCELLED"]]
  /\ UNCHANGED <<next, loop, sigchld, text>>

QuitKill ==
  /\ pc = "quit" /\ Table # {} /\ job[First(Table)].state = "RUNNING"
  /\ job' = [job EXCEPT ![First(Table)] =
                           [Kill(@, "KILL") EXCEPT !.state = "CANCELLED"]]
  /\ UNCHANGED <<next, loop, sigchld, text>>

QuitWait ==
  /\ pc = "quit" /\ Table # {} /\ job[First(Table)].state # "RUNNING"
  /\ ~Runs(job[First(Table)].proc)
  /\ job' = [job EXCEPT ![First(Table)] = Release(@)]
  /\ UNCHANGED <<next, loop, sigchld, text>>

Gone == /\ pc = "quit" /\ Table = {} /\ pc' = "gone"
        /\ UNCHANGED <<job, next, chld, sigchld, drive, text>>

Off == pc = "gone" /\ UNCHANGED vars

-----------------------------------------------------------------------------
Turn == \/ Wake \/ Reap \/ Settle \/ Idle
        \/ FilterPoll \/ FilterReap \/ FilterEnd
        \/ QuitKill \/ QuitWait \/ Gone

User == \/ Key \/ Clear \/ Quit \/ Start
        \/ \E i \in Ids, s \in {"TERM", "KILL"} : KillCmd(i, s)

Outside(i) == Exec(i) \/ Write(i) \/ Exit(i) \/ KinExit(i)
                \/ Struck(i)

Next == Turn \/ User \/ Off \/ \E i \in Ids : Outside(i)

(* A turn that finds job i's deadline passed. *)
Passes(i) == /\ Reap \/ FilterReap
             /\ \/ job[i].kill /\ ~job'[i].kill
                \/ job[i].state = "RUNNING" /\ job'[i].state = "TIMEOUT"

(* The loop always takes its next step, the clock moves on, and the kernel   *)
(* does what it was told; a program need never write, exit or give up.       *)
Fairness == /\ WF_vars(Turn)
            /\ \A i \in Ids : WF_vars(Struck(i)) /\ SF_vars(Passes(i))

Spec == Init /\ [][Next]_vars /\ Fairness

(* ... but for a descendant that keeps a pipe open *)
KinEnds  == \A i \in Ids : WF_vars(KinExit(i))
SpecEnds == Spec /\ KinEnds

-----------------------------------------------------------------------------
ProcType ==
  [leader : {"none", "new", "up", "zombie", "gone"}, forks : BOOLEAN, kin : BOOLEAN,
   errno : BOOLEAN, chunk : {"none", "todo", "pipe", "got", "lost"},
   sig : {"none", "TERM", "KILL"}, ok : BOOLEAN]
States == {"none", "RUNNING", "EXITED", "TIMEOUT", "CANCELLED", "EXECFAIL"}
Calls  == {<<>>, <<"own">>, <<"own", "destroy">>, <<"own", "complete", "destroy">>}
JobType ==
  [kind : AllKinds \cup {"none"}, state : States, fds : SUBSET {"exec", "out", "err"},
   reaped : BOOLEAN, drained : BOOLEAN, kill : BOOLEAN, owned : BOOLEAN,
   full : BOOLEAN, proc : ProcType, calls : Calls]

(* Every variable has its type, the table does not outgrow YEW_JOB_MAX, and  *)
(* a job's state is a verdict once the wait status is in.                    *)
TypeOK ==
  /\ job \in [Ids -> JobType] /\ Cardinality(Table) <= TableMax
  /\ pc \in {"poll", "reap", "settle", "quit", "gone"}
  /\ text \in {"before", "after", "cut", "capped"}
  /\ next \in 1 .. Len(Plan) + 1 /\ drive \in {0} \cup Ids
  /\ chld \in BOOLEAN /\ sigchld \in BOOLEAN
  /\ \A i \in Ids :
       /\ job[i].state = "RUNNING" => ~job[i].reaped
       /\ job[i].reaped => job[i].proc.leader = "gone"

(* No child runs on that nobody remembers and nobody told to end: a leader   *)
(* that has lost its place in the table, to an eviction, to "clear           *)
(* finished" or at quit, has been sent a signal.                             *)
NoOrphan == \A i \in Ids \ Table :
              Runs(job[i].proc) => job[i].proc.sig # "none"

(* A region filter never puts cut-off output in place of the text: the       *)
(* child's exit does not end the reading of its pipe.                        *)
FilterWhole == text # "cut"

(* The owner of a job gets the calls job.h promises, whatever the order of   *)
(* exit, pipe ends, evictions, clearing and callbacks that start jobs.       *)
IsOver(i)  == i \in Table /\ ~Pending(job[i])
IsSpent(i) == \/ pc = "quit" \/ Evictable(job[i].kind)
              \/ job[i].state \notin {"none", "RUNNING"}

Promise == INSTANCE JobPromise
             WITH Jobs <- Ids, calls <- [i \in Ids |-> job[i].calls],
                  over <- {i \in Ids : IsOver(i)},
                  spent <- {i \in Ids : IsSpent(i)}
KeepsPromise == Promise!Spec

(* Nor is an owner forgotten: one that still waits has its job in the table. *)
NoOwnerLost == \A i \in Ids : job[i].calls = <<"own">> => i \in Table

(* What is known of how a job ended is not lost: one that was timed out,     *)
(* cancelled or never executed is not later reported as having exited.       *)
VerdictKept ==
  [][\A i \in Ids : job[i].state \in {"TIMEOUT", "CANCELLED", "EXECFAIL"}
                     => job'[i].state # "EXITED"]_job

(* No lost wakeup: a job whose process group is gone is reaped and read to   *)
(* its end, though two exits may be one SIGCHLD and the pipes may close      *)
(* before it or after.                                                       *)
Idling(i) == /\ i \in Table /\ ~Alive(job[i].proc) /\ ~job[i].drained
             /\ drive = 0 /\ pc \notin {"quit", "gone"}
NoLostWakeup == \A i \in Ids :
                  Idling(i) ~> (~Idling(i) \/ Settleable(job[i]))

(* A filter comes back, however stubborn its command: time limit, SIGTERM    *)
(* and, after the grace, SIGKILL - as long as what it leaves behind ends.    *)
FilterReturns == drive # 0 ~> drive = 0

(* Leaving the editor ends every child and returns, unless one that was told *)
(* to end by a time limit or a cancel has not done so: only those that run   *)
(* are killed, and all are waited for.                                       *)
Told(i) == job[i].state # "RUNNING" /\ Runs(job[i].proc)
QuitReturns == (pc = "quit" /\ \A i \in Table : ~Told(i))
                 ~> pc = "gone"
=============================================================================
