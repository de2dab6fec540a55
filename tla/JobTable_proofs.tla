--------------------------- MODULE JobTable_proofs ---------------------------
(* Proofs about JobTable, for any plan of jobs and any size of the table: no *)
(* child is forgotten alive, owners get exactly the calls job.h promises,    *)
(* and a filter applies all of its output or none.                           *)
EXTENDS JobTable, FiniteSetTheorems, SequenceTheorems,
        WellFoundedInduction, TLAPS

-----------------------------------------------------------------------------
(* The invariant.                                                            *)

(* What is always so of a job: its owner waits exactly while the table knows *)
(* of it, until the job is settled; a child that is not running any more in  *)
(* the table's eyes, or is not there, has exited or has been told to; and    *)
(* the end of the output is not taken before the output.                     *)
Sane(j) ==
  /\ j \in JobType
  /\ j.owned <=> j.calls = <<"own">>
  /\ ~Listed(j) => ~j.owned /\ ~j.reaped
  /\ Listed(j) => j.kind \in AllKinds
  /\ Listed(j) /\ ~j.drained => (j.owned <=> Owned(j.kind))
  /\ j.state = "RUNNING" => ~j.reaped
  /\ j.reaped => j.proc.leader = "gone"
  /\ j.state # "RUNNING" /\ Runs(j.proc) => j.proc.sig # "none"
  /\ j.proc.errno => ~Runs(j.proc)
  /\ Listed(j) /\ "out" \notin j.fds => j.proc.chunk # "pipe"

JobInv ==
  /\ DOMAIN job = Ids /\ \A i \in Ids : Sane(job[i])
  /\ \A i \in Ids : i >= next => job[i] = NoJob
  /\ Cardinality(Table) <= TableMax
  /\ pc \in {"poll", "reap", "settle", "quit", "gone"}
  /\ text \in {"before", "after", "capped"}
  /\ next \in 1 .. Len(Plan) + 1 /\ drive \in {0} \cup Ids
  /\ drive # 0 => Listed(job[drive]) /\ pc \in {"poll", "reap"}
  /\ chld \in BOOLEAN /\ sigchld \in BOOLEAN

(* What a step may do to a job: to what is known of how it ended, and to the *)
(* calls of its owner.                                                       *)
Verdicts == {"TIMEOUT", "CANCELLED", "EXECFAIL"}

Serves(j, k, quit) ==
  \/ k.calls = j.calls
  \/ j.calls = <<>> /\ k.calls = <<"own">>
  \/ /\ j.calls = <<"own">> /\ Listed(j) /\ ~Pending(j)
     /\ k.calls = <<"own", "complete", "destroy">>
  \/ /\ j.calls = <<"own">> /\ k.calls = <<"own", "destroy">>
     /\ quit \/ Evictable(j.kind) \/ j.state \notin {"none", "RUNNING"}

Moves(j, k, quit) ==
  /\ Sane(k) /\ Serves(j, k, quit)
  /\ j.state \in Verdicts => k.state # "EXITED"

(* Most of what happens to a job leaves it in the table, and its owner in    *)
(* peace.                                                                    *)
Keeps(j, k) ==
  /\ Sane(k) /\ k.calls = j.calls /\ (Listed(k) <=> Listed(j))
  /\ k.kind = j.kind /\ k.owned = j.owned
  /\ j.state \in Verdicts => k.state \in Verdicts

-----------------------------------------------------------------------------
(* Sets of numbers.                                                          *)

LEMMA FirstLeast ==
  ASSUME NEW S, S \subseteq Nat, S # {} PROVE First(S) \in S
<1> DEFINE R == {ss \in Nat \X Nat : ss[1] < ss[2]}
<1>1. IsWellFoundedOn(R, Nat)
  BY NatLessThanWellFounded, Zenon DEF OpToRel
<1>2. PICK x \in S : \A y \in S : <<y, x>> \notin R
  <2> HIDE DEF R
  <2> QED BY <1>1, WFMin
<1>3. \A y \in S : x <= y
  <2> TAKE y \in S
  <2>1. x \in Nat /\ y \in Nat /\ <<y, x>> \in Nat \X Nat /\ <<y, x>> \notin R
    BY <1>2
  <2>2. ~(<<y, x>>[1] < <<y, x>>[2])
    BY <2>1, Zenon
  <2> HIDE DEF R
  <2> QED BY <2>1, <2>2
<1> QED BY <1>3, Zenon DEF First

LEMMA IdsSet ==
  /\ Ids = 1 .. Len(Plan) /\ Len(Plan) \in Nat /\ Ids \subseteq Nat /\ IsFiniteSet(Ids)
<1>1. Ids = 1 .. Len(Plan) /\ Len(Plan) \in Nat
  BY JobAssumption DEF Ids
<1> QED BY <1>1, FS_Interval

LEMMA KeepsOnce == ASSUME NEW j, Sane(j) PROVE Keeps(j, j)
BY DEF Keeps

LEMMA KeepsOn ==
  ASSUME NEW j, NEW k, NEW l, Keeps(j, k), Keeps(k, l) PROVE Keeps(j, l)
BY DEF Keeps

LEMMA KeepsMoves ==
  ASSUME NEW j, NEW k, NEW quit, Keeps(j, k) PROVE Moves(j, k, quit)
BY DEF Keeps, Moves, Serves, Verdicts

-----------------------------------------------------------------------------
(* The parts of a step.                                                      *)

LEMMA KillKeeps ==
  ASSUME NEW j, Sane(j), NEW s \in {"TERM", "KILL"}
  PROVE  /\ Keeps(j, Kill(j, s)) /\ Kill(j, s).state = j.state
         /\ Runs(Kill(j, s).proc) => Kill(j, s).proc.sig # "none"
         /\ Kill(j, s).fds = j.fds /\ Kill(j, s).drained = j.drained
         /\ Kill(j, s).reaped = j.reaped
         /\ Kill(j, s).proc = [j.proc EXCEPT !.sig = Kill(j, s).proc.sig]
<1> DEFINE k == [j EXCEPT !.proc.sig = s]
<1>1. /\ k \in JobType /\ k.calls = j.calls /\ k.state = j.state /\ k.kind = j.kind
      /\ k.owned = j.owned /\ k.drained = j.drained /\ k.reaped = j.reaped
      /\ k.fds = j.fds /\ k.proc = [j.proc EXCEPT !.sig = s]
  BY DEF Sane, JobType, ProcType
<1>2. /\ k.proc.sig = s /\ k.proc.leader = j.proc.leader /\ k.proc.errno = j.proc.errno
      /\ k.proc.chunk = j.proc.chunk
  BY <1>1 DEF Sane, JobType, ProcType
<1>3. Kill(j, s) = IF Alive(j.proc) /\ j.proc.sig # "KILL" THEN k ELSE j
  BY DEF Kill
<1> HIDE DEF k
<1>4. Sane(k) /\ Keeps(j, k)
  BY <1>1, <1>2 DEF Sane, Keeps, Listed, Runs
<1>5. j.proc = [j.proc EXCEPT !.sig = j.proc.sig]
  BY DEF Sane, JobType, ProcType
<1>6. CASE Kill(j, s) = k
  BY <1>1, <1>2, <1>4, <1>6
<1>7. CASE Kill(j, s) = j /\ ~(Alive(j.proc) /\ j.proc.sig # "KILL")
  <2>1. Runs(j.proc) => j.proc.sig = "KILL"
    BY <1>7 DEF Alive
  <2> QED BY <1>5, <1>7, <2>1, KeepsOnce
<1> QED BY <1>3, <1>6, <1>7

(* A step of the process group, and what waitpid leaves of it.               *)
LEMMA ProcKeeps ==
  ASSUME NEW j, Sane(j), NEW p \in ProcType,
         Runs(p) => Runs(j.proc), p.sig = j.proc.sig, p.errno => ~Runs(p),
         j.proc.leader = "gone" => p.leader = "gone",
         p.chunk = j.proc.chunk \/ "out" \in j.fds,
         NEW q \in {p, NoProc}, q = p \/ ~Listed(j)
  PROVE  Keeps(j, [j EXCEPT !.proc = q])
<1> DEFINE k == [j EXCEPT !.proc = q]
<1>0. NoProc \in ProcType /\ NoProc.leader = "none" /\ NoProc.errno = FALSE
  BY DEF NoProc, ProcType
<1>1. q \in ProcType
  BY <1>0
<1>2. /\ k \in JobType /\ k.calls = j.calls /\ k.state = j.state /\ k.kind = j.kind
      /\ k.owned = j.owned /\ k.drained = j.drained /\ k.reaped = j.reaped
      /\ k.fds = j.fds /\ k.proc = q
  BY <1>1 DEF Sane, JobType
<1> HIDE DEF k
<1>3. /\ j.owned <=> j.calls = <<"own">>
      /\ ~Listed(j) => ~j.owned /\ ~j.reaped
      /\ Listed(j) => j.kind \in AllKinds
      /\ Listed(j) /\ ~j.drained => (j.owned <=> Owned(j.kind))
      /\ j.state = "RUNNING" => ~j.reaped
      /\ Listed(j) <=> Listed(k)
  BY <1>2 DEF Sane, Listed
<1>4. /\ k.reaped => q.leader = "gone"
      /\ k.state # "RUNNING" /\ Runs(q) => q.sig # "none"
      /\ q.errno => ~Runs(q)
      /\ Listed(k) /\ "out" \notin k.fds => q.chunk # "pipe"
  <2>1. CASE q = p
    BY <1>2, <1>3, <2>1 DEF Sane
  <2>2. CASE q # p /\ q = NoProc
    BY <1>0, <1>2, <1>3, <2>2 DEF Runs
  <2> QED BY <2>1, <2>2
<1>5. Keeps(j, k)
  BY <1>2, <1>3, <1>4 DEF Sane, Keeps
<1> QED BY <1>5 DEF k

LEMMA SignalKeeps ==
  ASSUME NEW j, Sane(j), NEW s \in {"TERM", "KILL"} PROVE Keeps(j, Signal(j, s))
<1> DEFINE k == Kill(j, s)
           l == [k EXCEPT !.kill = k.kill \/ s = "TERM"]
<1>1. Keeps(j, k) /\ k \in JobType
  <2>1. Keeps(j, k)
    BY KillKeeps
  <2> QED BY <2>1 DEF Keeps, Sane
<1>2. Signal(j, s) = IF j.state # "RUNNING" THEN j ELSE l
  BY DEF Signal
<1> HIDE DEF k
<1>3. Keeps(k, l)
  <2>1. /\ l \in JobType /\ l.calls = k.calls /\ l.state = k.state /\ l.kind = k.kind
        /\ l.owned = k.owned /\ l.drained = k.drained /\ l.reaped = k.reaped
        /\ l.fds = k.fds /\ l.proc = k.proc
    BY <1>1 DEF JobType
  <2> HIDE DEF l
  <2> QED BY <1>1, <2>1 DEF Sane, Keeps, Listed
<1> HIDE DEF l
<1> QED BY <1>1, <1>2, <1>3, KeepsOn, KeepsOnce

LEMMA ChunkKeeps ==
  ASSUME NEW j, Sane(j), NEW c \in {"got", "lost"}
  PROVE  Keeps(j, [j EXCEPT !.proc.chunk = c])
<1> DEFINE k == [j EXCEPT !.proc.chunk = c]
<1>1. /\ k \in JobType /\ k.calls = j.calls /\ k.state = j.state /\ k.kind = j.kind
      /\ k.owned = j.owned /\ k.drained = j.drained /\ k.reaped = j.reaped
      /\ k.fds = j.fds /\ k.proc.chunk = c /\ k.proc.sig = j.proc.sig
      /\ k.proc.leader = j.proc.leader /\ k.proc.errno = j.proc.errno
  BY DEF Sane, JobType, ProcType
<1> HIDE DEF k
<1>2. Keeps(j, k)
  BY <1>1 DEF Sane, Keeps, Listed, Runs
<1> QED BY <1>2 DEF k

LEMMA DeliverKeeps ==
  ASSUME NEW j, Sane(j), NEW refuse \in BOOLEAN
  PROVE  Keeps(j, Deliver(j, refuse)) /\ Deliver(j, refuse).proc.chunk \in {"got", "lost"}
<1> DEFINE f == [j EXCEPT !.proc.chunk = "got"]
           l == [j EXCEPT !.proc.chunk = "lost"]
<1>1. Keeps(j, f) /\ Keeps(j, l)
  BY ChunkKeeps
<1>2. f.proc.chunk = "got" /\ l.proc.chunk = "lost"
  BY DEF Sane, JobType, ProcType
<1>3. Deliver(j, refuse) \in {f, Signal(l, "TERM")}
  BY DEF Deliver, Refused, Fed
<1> HIDE DEF f, l
<1>4. Keeps(l, Signal(l, "TERM"))
  BY <1>1, SignalKeeps DEF Keeps
<1>5. Signal(l, "TERM").proc.chunk = "lost"
  <2> DEFINE k == Kill(l, "TERM")
  <2>1. k.proc.chunk = "lost" /\ k \in JobType
    <3>1. /\ k.proc = [l.proc EXCEPT !.sig = k.proc.sig] /\ k \in JobType
          /\ l \in JobType
      BY <1>1, KillKeeps DEF Keeps, Sane
    <3> HIDE DEF k
    <3> QED BY <1>2, <3>1 DEF JobType, ProcType
  <2>2. Signal(l, "TERM") = l \/ \E x : Signal(l, "TERM") = [k EXCEPT !.kill = x]
    BY DEF Signal
  <2> HIDE DEF k
  <2> QED BY <1>2, <2>1, <2>2 DEF JobType
<1> QED BY <1>1, <1>2, <1>3, <1>4, <1>5, KeepsOn

LEMMA CloseKeeps ==
  ASSUME NEW j, Sane(j), NEW f, f = "out" => j.proc.chunk # "pipe"
  PROVE  Keeps(j, Close(j, f))
<1> DEFINE k == [j EXCEPT !.fds = @ \ {f}]
<1>1. /\ k \in JobType /\ k.calls = j.calls /\ k.state = j.state /\ k.kind = j.kind
      /\ k.owned = j.owned /\ k.drained = j.drained /\ k.reaped = j.reaped
      /\ k.fds = j.fds \ {f} /\ k.proc = j.proc
  BY DEF Sane, JobType
<1> HIDE DEF k
<1>2. Keeps(j, k)
  BY <1>1 DEF Sane, Keeps, Listed
<1> QED BY <1>2 DEF k, Close

LEMMA DrainKeeps ==
  ASSUME NEW j, Sane(j), NEW f \in {"out", "err"}, NEW refuse \in BOOLEAN,
         NEW stop \in BOOLEAN
  PROVE  Keeps(j, Drain(j, f, refuse, stop))
<1> DEFINE d == Deliver(j, refuse)
<1>1. Keeps(j, d) /\ d.proc.chunk \in {"got", "lost"} /\ Sane(d)
  BY DeliverKeeps DEF Keeps
<1>2. Keeps(d, Close(d, f))
  BY <1>1, CloseKeeps
<1>3. f = "out" /\ f \in j.fds /\ j.proc.chunk = "pipe" =>
        Drain(j, f, refuse, stop) \in {d, Close(d, f)}
  BY DEF Drain
<1>4. CASE f = "out" /\ f \in j.fds /\ j.proc.chunk = "pipe"
  <2> HIDE DEF d
  <2> QED BY <1>1, <1>2, <1>3, <1>4, KeepsOn
<1>5. CASE ~(f = "out" /\ f \in j.fds /\ j.proc.chunk = "pipe")
  <2>1. Drain(j, f, refuse, stop) = IF AtEof(j, f) THEN Close(j, f) ELSE j
    BY <1>5 DEF Drain
  <2>2. AtEof(j, f) => Keeps(j, Close(j, f))
    BY <1>5, CloseKeeps DEF AtEof
  <2> QED BY <2>1, <2>2, KeepsOnce
<1> QED BY <1>4, <1>5

LEMMA ReadKeeps ==
  ASSUME NEW j, Sane(j), Listed(j), NEW refuse \in BOOLEAN, NEW stop \in BOOLEAN
  PROVE  Keeps(j, Read(j, refuse, stop))
<1> DEFINE c == Close(j, "exec")
           e == [c EXCEPT !.state = IF j.proc.errno THEN "EXECFAIL" ELSE @]
           r == ReadExec(j)
           o == Drain(r, "out", refuse, stop)
<1>1. Keeps(j, r)
  <2>1. r = IF j.proc.leader = "new" \/ "exec" \notin j.fds THEN j ELSE e
    BY DEF ReadExec
  <2>2. Keeps(j, c) /\ c.proc = j.proc
    BY CloseKeeps DEF Close, Sane, JobType
  <2> HIDE DEF c
  <2>3. /\ e \in JobType /\ e.calls = c.calls /\ e.kind = c.kind
        /\ e.owned = c.owned /\ e.drained = c.drained /\ e.reaped = c.reaped
        /\ e.fds = c.fds /\ e.proc = c.proc
        /\ e.state = IF c.proc.errno THEN "EXECFAIL" ELSE c.state
    BY <2>2 DEF Keeps, Sane, JobType, States
  <2> HIDE DEF e
  <2>4. Keeps(c, e)
    BY <2>2, <2>3 DEF Sane, Keeps, Listed, Verdicts
  <2> QED BY <2>1, <2>2, <2>4, KeepsOn, KeepsOnce
<1> HIDE DEF r
<1>2. Keeps(r, o)
  BY <1>1, DrainKeeps DEF Keeps
<1> HIDE DEF o
<1>3. Keeps(o, Drain(o, "err", refuse, stop))
  BY <1>2, DrainKeeps DEF Keeps
<1>4. Keeps(j, Drain(o, "err", refuse, stop))
  BY <1>1, <1>2, <1>3, KeepsOn
<1> QED BY <1>4 DEF Read, r, o

LEMMA WaitedType ==
  ASSUME NEW p \in ProcType
  PROVE  /\ Waited(p) \in ProcType /\ Forgotten(p) \in {p, NoProc}
         /\ Waited(p).leader = IF p.leader = "zombie" THEN "gone" ELSE p.leader
         /\ Waited(p).sig = p.sig /\ Waited(p).errno = p.errno
         /\ Waited(p).chunk = p.chunk /\ Waited(p).kin = p.kin
BY DEF Waited, Forgotten, ProcType

LEMMA WaitKeeps == ASSUME NEW j, Sane(j) PROVE Keeps(j, Wait(j))
<1> DEFINE p == Waited(j.proc)
           v == Verdict(j)
           w == [v EXCEPT !.proc = Waited(@)]
<1>1. /\ p \in ProcType /\ Forgotten(p) \in {p, NoProc}
      /\ p.leader = IF j.proc.leader = "zombie" THEN "gone" ELSE j.proc.leader
      /\ p.sig = j.proc.sig /\ p.errno = j.proc.errno /\ p.chunk = j.proc.chunk
  BY WaitedType DEF Sane, JobType
<1>2. CASE j.proc.leader = "zombie" /\ Listed(j)
  <2>1. Wait(j) = w
    BY <1>2 DEF Wait
  <2>2. /\ w \in JobType /\ w.calls = j.calls /\ w.kind = j.kind /\ w.fds = j.fds
        /\ w.owned = j.owned /\ w.drained = j.drained /\ w.reaped = TRUE /\ w.proc = p
        /\ w.state = IF j.state = "RUNNING" THEN "EXITED" ELSE j.state
    BY <1>1 DEF Sane, JobType, Verdict, States
  <2> HIDE DEF w, p
  <2>3. Listed(w) /\ w.state # "RUNNING" /\ p.leader = "gone" /\ ~Runs(p)
    BY <1>1, <1>2, <2>2 DEF Listed, Runs
  <2>4. Keeps(j, w)
    BY <1>1, <1>2, <2>2, <2>3 DEF Sane, Keeps, Listed, Verdicts
  <2> QED BY <2>1, <2>4
<1>3. CASE j.proc.leader = "zombie" /\ ~Listed(j)
  <2> DEFINE q == Forgotten(p)
  <2>1. Wait(j) = [j EXCEPT !.proc = q]
    BY <1>3 DEF Wait
  <2>2. ~Runs(p) /\ p.leader = "gone"
    BY <1>1, <1>3 DEF Runs
  <2>3. q \in {p, NoProc}
    BY <1>1
  <2> HIDE DEF p, q
  <2>4. Keeps(j, [j EXCEPT !.proc = q])
    BY <1>1, <1>3, <2>2, <2>3, ProcKeeps
  <2> QED BY <2>1, <2>4
<1>4. CASE j.proc.leader # "zombie"
  BY <1>4, KeepsOnce DEF Wait
<1> QED BY <1>2, <1>3, <1>4

(* A job that is given up: killed, if it is not over, and no longer running. *)
LEMMA GivenUp ==
  ASSUME NEW j, Sane(j), Listed(j), NEW st \in Verdicts,
         Runs(j.proc) => j.proc.sig # "none"
  PROVE  /\ Keeps(j, [j EXCEPT !.state = st])
         /\ \A x \in BOOLEAN : Keeps(j, [j EXCEPT !.state = st, !.kill = x])
<1>1. ASSUME NEW k, k \in JobType, k.calls = j.calls, k.kind = j.kind, k.fds = j.fds,
             k.owned = j.owned, k.drained = j.drained, k.reaped = j.reaped,
             k.proc = j.proc, k.state = st
      PROVE  Keeps(j, k)
  BY <1>1 DEF Sane, Keeps, Listed, Verdicts
<1> DEFINE k == [j EXCEPT !.state = st]
<1>2. /\ k \in JobType /\ k.calls = j.calls /\ k.kind = j.kind /\ k.fds = j.fds
      /\ k.owned = j.owned /\ k.drained = j.drained /\ k.reaped = j.reaped
      /\ k.proc = j.proc /\ k.state = st
  BY DEF Sane, JobType, Verdicts, States
<1>3. ASSUME NEW x \in BOOLEAN PROVE Keeps(j, [j EXCEPT !.state = st, !.kill = x])
  <2> DEFINE l == [j EXCEPT !.state = st, !.kill = x]
  <2>1. /\ l \in JobType /\ l.calls = j.calls /\ l.kind = j.kind /\ l.fds = j.fds
        /\ l.owned = j.owned /\ l.drained = j.drained /\ l.reaped = j.reaped
        /\ l.proc = j.proc /\ l.state = st
    BY DEF Sane, JobType, Verdicts, States
  <2> HIDE DEF l
  <2>2. Keeps(j, l)
    BY <1>1, <2>1
  <2> QED BY <2>2 DEF l
<1> HIDE DEF k
<1>4. Keeps(j, k)
  BY <1>1, <1>2
<1> QED BY <1>3, <1>4 DEF k

LEMMA TickKeeps ==
  ASSUME NEW j, Sane(j), Listed(j), NEW due \in BOOLEAN, NEW late \in BOOLEAN
  PROVE  Keeps(j, Tick(j, due, late))
<1> DEFINE k == Kill(j, "KILL")
           t == Kill(j, "TERM")
<1>1. Keeps(j, k) /\ Keeps(j, t)
  BY KillKeeps
<1>2. Runs(t.proc) => t.proc.sig # "none"
  BY KillKeeps
<1> HIDE DEF k, t
<1>3. ASSUME NEW l, Sane(l) PROVE Keeps(l, [l EXCEPT !.kill = FALSE])
  <2> DEFINE m == [l EXCEPT !.kill = FALSE]
  <2>1. /\ m \in JobType /\ m.calls = l.calls /\ m.state = l.state /\ m.kind = l.kind
        /\ m.owned = l.owned /\ m.drained = l.drained /\ m.reaped = l.reaped
        /\ m.fds = l.fds /\ m.proc = l.proc
    BY <1>3 DEF Sane, JobType
  <2> HIDE DEF m
  <2>2. Keeps(l, m)
    BY <1>3, <2>1 DEF Sane, Keeps, Listed
  <2> QED BY <2>2 DEF m
<1>4. Keeps(j, Escalate(j))
  <2> DEFINE x == IF Pending(j) THEN k ELSE j
  <2>1. Keeps(j, x)
    BY <1>1, KeepsOnce
  <2>2. Escalate(j) = [x EXCEPT !.kill = FALSE]
    BY DEF Escalate, k
  <2> HIDE DEF x
  <2>3. Keeps(x, [x EXCEPT !.kill = FALSE])
    BY <1>3, <2>1 DEF Keeps
  <2> QED BY <2>1, <2>2, <2>3, KeepsOn
<1>5. Keeps(j, TimeOut(j))
  <2>1. TimeOut(j) = [t EXCEPT !.state = "TIMEOUT", !.kill = TRUE]
    BY DEF TimeOut, t
  <2>2. Sane(t) /\ Listed(t) /\ "TIMEOUT" \in Verdicts
    BY <1>1 DEF Keeps, Verdicts
  <2>3. Keeps(t, [t EXCEPT !.state = "TIMEOUT", !.kill = TRUE])
    BY <1>2, <2>2, GivenUp
  <2> QED BY <1>1, <2>1, <2>3, KeepsOn
<1> QED BY <1>4, <1>5, KeepsOnce DEF Tick

LEMMA CancelKeeps ==
  ASSUME NEW j, Sane(j), Listed(j) PROVE Keeps(j, Cancelled(j))
<1> DEFINE s == Signal(j, "TERM")
           t == Kill(j, "TERM")
<1>1. Keeps(j, s)
  BY SignalKeeps
<1>2. Runs(s.proc) => s.proc.sig # "none"
  <2>1. CASE j.state = "RUNNING"
    <3>1. Runs(t.proc) => t.proc.sig # "none"
      BY KillKeeps
    <3>2. t \in JobType
      BY KillKeeps DEF Keeps, Sane
    <3>3. \E x : s = [t EXCEPT !.kill = x]
      BY <2>1 DEF Signal
    <3> HIDE DEF t
    <3> QED BY <3>1, <3>2, <3>3 DEF JobType
  <2>2. CASE j.state # "RUNNING"
    BY <2>2 DEF Signal, Sane
  <2> QED BY <2>1, <2>2
<1> HIDE DEF s
<1>3. Sane(s) /\ Listed(s) /\ "CANCELLED" \in Verdicts
  BY <1>1 DEF Keeps, Verdicts
<1>4. Keeps(s, [s EXCEPT !.state = "CANCELLED"])
  BY <1>2, <1>3, GivenUp
<1>5. Keeps(j, [s EXCEPT !.state = "CANCELLED"])
  BY <1>1, <1>4, KeepsOn
<1> QED BY <1>5 DEF s, Cancelled

(* QuitKill *)
LEMMA QuitKillKeeps ==
  ASSUME NEW j, Sane(j), Listed(j)
  PROVE  Keeps(j, [Kill(j, "KILL") EXCEPT !.state = "CANCELLED"])
<1> DEFINE k == Kill(j, "KILL")
<1>1. Keeps(j, k) /\ (Runs(k.proc) => k.proc.sig # "none")
  BY KillKeeps
<1> HIDE DEF k
<1>2. Sane(k) /\ Listed(k) /\ "CANCELLED" \in Verdicts
  BY <1>1 DEF Keeps, Verdicts
<1>3. Keeps(k, [k EXCEPT !.state = "CANCELLED"])
  BY <1>1, <1>2, GivenUp
<1>4. Keeps(j, [k EXCEPT !.state = "CANCELLED"])
  BY <1>1, <1>3, KeepsOn
<1> QED BY <1>4 DEF k

(* The calls of an owner, one more at a time. *)
LEMMA AppendOnce ==
  ASSUME NEW S, NEW a \in S, NEW b \in S PROVE Append(<<a>>, b) = <<a, b>>
<1> DEFINE s == <<a>>
           t == Append(s, b)
           u == <<a, b>>
<1>1. s \in Seq(S) /\ Len(s) = 1 /\ s[1] = a
  OBVIOUS
<1>2. t \in Seq(S) /\ Len(t) = 2 /\ t[1] = a /\ t[2] = b
  BY <1>1, AppendProperties
<1>3. u \in Seq(S) /\ Len(u) = 2 /\ u[1] = a /\ u[2] = b
  OBVIOUS
<1> HIDE DEF s, t, u
<1>4. t = u
  BY <1>2, <1>3, SeqEqual
<1> QED BY <1>4 DEF s, t, u

LEMMA AppendTwice ==
  ASSUME NEW S, NEW a \in S, NEW b \in S, NEW c \in S
  PROVE  Append(<<a, b>>, c) = <<a, b, c>>
<1> DEFINE s == <<a, b>>
           t == Append(s, c)
           u == <<a, b, c>>
<1>1. s \in Seq(S) /\ Len(s) = 2 /\ s[1] = a /\ s[2] = b
  OBVIOUS
<1>2. t \in Seq(S) /\ Len(t) = 3 /\ t[1] = a /\ t[2] = b /\ t[3] = c
  BY <1>1, AppendProperties
<1>3. u \in Seq(S) /\ Len(u) = 3 /\ u[1] = a /\ u[2] = b /\ u[3] = c
  OBVIOUS
<1> HIDE DEF s, t, u
<1>4. t = u
  BY <1>2, <1>3, SeqEqual
<1> QED BY <1>4 DEF s, t, u

LEMMA CallsAppend ==
  /\ Append(<<"own">>, "destroy") = <<"own", "destroy">>
  /\ Append(<<"own">>, "complete") = <<"own", "complete">>
  /\ Append(<<"own", "complete">>, "destroy") = <<"own", "complete", "destroy">>
<1> DEFINE S == {"own", "complete", "destroy"}
<1>1. "own" \in S /\ "complete" \in S /\ "destroy" \in S
  OBVIOUS
<1> HIDE DEF S
<1> QED BY <1>1, AppendOnce, AppendTwice, Zenon

(* A job leaves the table when it does not run, and its owner is let go.     *)
LEMMA ReleaseSane ==
  ASSUME NEW j, j.state # "RUNNING", j.proc \in ProcType,
         Runs(j.proc) => j.proc.sig # "none", j.proc.errno => ~Runs(j.proc),
         Destroy(j).calls \in Calls \ {<<"own">>}
  PROVE  /\ Sane(Release(j)) /\ ~Listed(Release(j))
         /\ Release(j).calls = Destroy(j).calls /\ Release(j).state = "none"
<1> DEFINE p == Waited(j.proc)
           q == Forgotten(p)
           c == Destroy(j).calls
           k == [NoJob EXCEPT !.proc = q, !.calls = c]
<1>1. Release(j) = k
  BY DEF Release
<1>2. /\ p \in ProcType /\ q \in {p, NoProc}
      /\ (Runs(p) => p.sig # "none") /\ (p.errno => ~Runs(p))
  BY WaitedType DEF Runs
<1>3. NoProc \in ProcType /\ ~Runs(NoProc) /\ NoProc.errno = FALSE
  BY DEF NoProc, ProcType, Runs
<1>4. /\ q \in ProcType /\ (Runs(q) => q.sig # "none") /\ (q.errno => ~Runs(q))
      /\ c \in Calls /\ c # <<"own">>
  <2>1. c \in Calls /\ c # <<"own">>
    OBVIOUS
  <2> HIDE DEF p, q, c
  <2> QED BY <1>2, <1>3, <2>1
<1> HIDE DEF p, q, c
<1>5. /\ k \in JobType /\ k.calls = c /\ k.state = "none" /\ k.owned = FALSE
      /\ k.reaped = FALSE /\ k.proc = q
  BY <1>4 DEF JobType, NoJob, States
<1> HIDE DEF k
<1>6. Sane(k) /\ ~Listed(k)
  BY <1>4, <1>5 DEF Sane, Listed
<1> QED BY <1>1, <1>5, <1>6 DEF c

LEMMA DestroyCalls ==
  ASSUME NEW j, Sane(j)
  PROVE  Destroy(j).calls = IF j.owned THEN <<"own", "destroy">> ELSE j.calls
BY CallsAppend DEF Destroy, Sane, JobType

LEMMA ReleaseMoves ==
  ASSUME NEW j, Sane(j), NEW quit
  PROVE  /\ Moves(j, Release(j), quit)
         /\ j.state # "RUNNING" => ~Listed(Release(j))
         /\ j.state = "RUNNING" => Release(j) = j
<1>1. CASE j.state = "RUNNING"
  BY <1>1, KeepsOnce, KeepsMoves DEF Release
<1>2. CASE j.state # "RUNNING"
  <2>1. /\ j.proc \in ProcType /\ (Runs(j.proc) => j.proc.sig # "none")
        /\ j.proc.errno => ~Runs(j.proc)
    BY <1>2 DEF Sane, JobType
  <2>2. Destroy(j).calls \in Calls \ {<<"own">>}
    BY DestroyCalls DEF Sane, JobType, Calls
  <2>3. /\ Sane(Release(j)) /\ ~Listed(Release(j))
        /\ Release(j).calls = Destroy(j).calls /\ Release(j).state = "none"
    BY <1>2, <2>1, <2>2, ReleaseSane
  <2>4. j.owned => j.calls = <<"own">> /\ j.state # "none"
    BY DEF Sane, Listed
  <2>5. Serves(j, Release(j), quit)
    BY <1>2, <2>3, <2>4, DestroyCalls DEF Serves
  <2> QED BY <1>2, <2>3, <2>5 DEF Moves
<1> QED BY <1>1, <1>2

(* job_evict_one: killed first, if it is not over. *)
LEMMA EvictMoves ==
  ASSUME NEW j, Sane(j), Listed(j), Evictable(j.kind), NEW quit
  PROVE  Moves(j, Evict(j), quit) /\ ~Listed(Evict(j))
<1> DEFINE x == IF Pending(j) THEN Kill(j, "KILL") ELSE j
           e == Ending(j)
           k == [x EXCEPT !.state = e]
<1>1. Evict(j) = Release(k)
  BY DEF Evict
<1>2. Keeps(j, x) /\ x.state = j.state /\ Sane(x)
  BY KillKeeps, KeepsOnce DEF Keeps
<1>3. Runs(x.proc) => x.proc.sig # "none"
  <2>1. CASE Pending(j)
    BY <2>1, KillKeeps
  <2>2. CASE ~Pending(j)
    BY <2>2 DEF Pending, Sane, Runs
  <2> QED BY <2>1, <2>2
<1>4. e \in States /\ e # "RUNNING" /\ e # "none"
  BY DEF Ending, Sane, JobType, States, Listed
<1> HIDE DEF x, e
<1>5. /\ k \in JobType /\ k.calls = x.calls /\ k.kind = x.kind /\ k.fds = x.fds
      /\ k.owned = x.owned /\ k.drained = x.drained /\ k.reaped = x.reaped
      /\ k.proc = x.proc /\ k.state = e
  BY <1>2, <1>4 DEF Sane, JobType
<1> HIDE DEF k
<1>6. Sane(k)
  BY <1>2, <1>3, <1>4, <1>5 DEF Sane, Listed, Keeps
<1>7. Moves(k, Release(k), quit) /\ ~Listed(Release(k)) /\ Sane(Release(k))
  BY <1>4, <1>5, <1>6, ReleaseMoves DEF Moves
<1>8. Release(k).state = "none"
  BY <1>7 DEF Listed
<1>9. k.calls = j.calls
  BY <1>2, <1>5 DEF Keeps
<1>10. Release(k).calls \in {j.calls} \cup {<<"own", "destroy">>}
       /\ (Release(k).calls # j.calls => j.calls = <<"own">>)
  <2>1. Release(k).calls = Destroy(k).calls
    BY <1>4, <1>5 DEF Release, NoJob
  <2> QED BY <1>6, <1>9, <2>1, DestroyCalls DEF Sane
<1>11. Serves(j, Release(k), quit)
  BY <1>10 DEF Serves
<1> QED BY <1>1, <1>7, <1>8, <1>11 DEF Moves

(* job_settle, of a job with a callback and of one without *)
LEMMA SettleMoves ==
  ASSUME NEW j, Settleable(j), Sane(j), NEW quit
  PROVE  /\ Callback(j.kind) => /\ Moves(j, Release(Complete(j)), quit)
                                /\ ~Listed(Release(Complete(j)))
         /\ ~Callback(j.kind) => /\ Moves(j, Destroy(Complete(j)), quit)
                                 /\ Listed(Destroy(Complete(j)))
<1> DEFINE k == Complete(j)
<1>1. /\ Listed(j) /\ ~j.drained /\ ~Pending(j) /\ j.reaped /\ j.proc.leader = "gone"
      /\ j.state # "RUNNING" /\ "out" \notin j.fds
      /\ (j.owned <=> Owned(j.kind)) /\ (j.owned <=> j.calls = <<"own">>)
  BY DEF Settleable, Pending, Sane
<1>2. /\ k.state = j.state /\ k.proc = j.proc /\ k.owned = j.owned /\ k.kind = j.kind
      /\ k.fds = j.fds /\ k.reaped = j.reaped /\ k.drained = TRUE
      /\ k.calls = IF Callback(j.kind) THEN Append(j.calls, "complete") ELSE j.calls
      /\ k = [j EXCEPT !.drained = TRUE, !.calls = k.calls]
  BY DEF Complete, Sane, JobType
<1>3. CASE Callback(j.kind)
  <2>1. j.owned /\ j.calls = <<"own">> /\ k.calls = <<"own", "complete">>
    BY <1>1, <1>2, <1>3, CallsAppend DEF Owned
  <2>2. Destroy(k).calls = <<"own", "complete", "destroy">>
    <3>1. Destroy(k) = [j EXCEPT !.drained = TRUE, !.owned = FALSE,
                                 !.calls = Append(<<"own", "complete">>, "destroy")]
      BY <1>2, <2>1 DEF Destroy, Complete, Sane, JobType
    <3>2. Append(<<"own", "complete">>, "destroy") = <<"own", "complete", "destroy">>
      BY CallsAppend
    <3> QED BY <3>1, <3>2 DEF Sane, JobType
  <2> HIDE DEF k
  <2>3. /\ k.proc \in ProcType /\ ~Runs(k.proc) /\ k.state # "RUNNING"
        /\ Destroy(k).calls \in Calls \ {<<"own">>}
    BY <1>1, <1>2, <2>2 DEF Runs, Calls, Sane, JobType
  <2>4. /\ Sane(Release(k)) /\ ~Listed(Release(k))
        /\ Release(k).calls = Destroy(k).calls /\ Release(k).state = "none"
    BY <2>3, ReleaseSane
  <2>5. Serves(j, Release(k), quit)
    BY <1>1, <2>1, <2>2, <2>4 DEF Serves
  <2>6. Moves(j, Release(k), quit)
    BY <2>4, <2>5 DEF Moves
  <2> QED BY <1>3, <2>4, <2>6 DEF k
<1>4. CASE ~Callback(j.kind)
  <2> DEFINE d == Destroy(k)
  <2>1. d = IF j.owned THEN [j EXCEPT !.drained = TRUE, !.owned = FALSE,
                                      !.calls = Append(@, "destroy")]
            ELSE [j EXCEPT !.drained = TRUE]
    BY <1>2, <1>4 DEF Destroy, Complete, Sane, JobType
  <2>2. Append(<<"own">>, "destroy") = <<"own", "destroy">>
    BY CallsAppend
  <2> HIDE DEF k, d
  <2>3. /\ d \in JobType /\ d.state = j.state /\ d.proc = j.proc /\ d.owned = FALSE
        /\ d.kind = j.kind /\ d.fds = j.fds /\ d.reaped = j.reaped
        /\ d.drained = TRUE
        /\ d.calls = IF j.owned THEN <<"own", "destroy">> ELSE j.calls
    BY <1>1, <2>1, <2>2 DEF Sane, JobType, Calls
  <2>4. Sane(d) /\ Listed(d)
    BY <1>1, <2>3 DEF Sane, Listed
  <2>5. Serves(j, d, quit)
    BY <1>1, <2>3 DEF Serves, Listed
  <2>6. Moves(j, d, quit)
    BY <1>1, <2>3, <2>4, <2>5 DEF Moves, Verdicts
  <2> QED BY <1>4, <2>4, <2>6 DEF k, d
<1> QED BY <1>3, <1>4

LEMMA NoJobSane == Sane(NoJob) /\ ~Listed(NoJob)
<1>1. NoJob.state = "none" /\ NoJob.owned = FALSE /\ NoJob.calls = <<>>
      /\ NoJob.reaped = FALSE /\ NoJob.proc = NoProc /\ NoJob.kind = "none"
  BY DEF NoJob
<1>2. NoProc \in ProcType /\ NoProc.leader = "none" /\ NoProc.errno = FALSE
  BY DEF NoProc, ProcType
<1>3. NoJob \in JobType
  BY <1>2 DEF NoJob, JobType, States, Calls
<1> QED BY <1>1, <1>2, <1>3 DEF Sane, Listed, Runs

LEMMA NewMoves ==
  ASSUME NEW k \in JobKinds, NEW quit PROVE Moves(NoJob, New(k), quit) /\ Listed(New(k))
<1> DEFINE j == New(k)
           p == [NoProc EXCEPT !.leader = "new", !.forks = k.forks, !.chunk = "todo"]
<1>1. /\ p \in ProcType /\ p.errno = FALSE
  BY DEF NoProc, ProcType, JobKinds
<1>2. /\ j.state = "RUNNING" /\ j.proc = p /\ j.owned = Owned(k.kind) /\ j.kind = k.kind
      /\ j.fds = {"exec", "out", "err"} /\ j.reaped = FALSE
      /\ j.calls = IF Owned(k.kind) THEN <<"own">> ELSE <<>>
  BY DEF New, NoJob
<1> HIDE DEF p
<1>3. j \in JobType
  BY <1>1 DEF New, NoJob, JobType, States, Calls, JobKinds, p, Owned, Callback
<1> HIDE DEF j
<1>4. k.kind \in AllKinds
  BY DEF JobKinds
<1>5. Sane(j) /\ Listed(j)
  BY <1>1, <1>2, <1>3, <1>4 DEF Sane, Listed
<1>6. NoJob.calls = <<>> /\ NoJob.state = "none"
  BY DEF NoJob
<1>7. Serves(NoJob, j, quit)
  BY <1>2, <1>6 DEF Serves
<1> QED BY <1>5, <1>6, <1>7 DEF Moves, Verdicts, j


-----------------------------------------------------------------------------
(* The steps.                                                                *)

JobMoves == \A i \in Ids : Moves(job[i], job'[i], pc = "quit")

(* Most steps leave the table as it is, ...                                  *)
Quiet == /\ DOMAIN job' = Ids /\ next' = next
         /\ \A i \in Ids : /\ Keeps(job[i], job'[i])
                           /\ job[i] = NoJob => job'[i] = NoJob

(* ... some let jobs go, but only when the loop waits for no filter.         *)
Leaving == /\ DOMAIN job' = Ids /\ next' = next
           /\ \A i \in Ids : /\ Moves(job[i], job'[i], pc = "quit")
                             /\ ~Listed(job[i]) => job'[i] = job[i]

LEMMA TableFinite ==
  /\ IsFiniteSet(Table) /\ Table \subseteq Ids /\ Cardinality(Table) \in Nat
  /\ TableMax \in Nat
<1>1. Table \subseteq Ids /\ TableMax \in Nat
  BY JobAssumption DEF Table
<1> QED BY <1>1, IdsSet, FS_Subset, FS_CardinalityType

LEMMA QuietStep ==
  ASSUME JobInv, Quiet, pc' \in {"poll", "reap", "settle", "quit", "gone"},
         text' \in {"before", "after", "capped"}, drive' \in {0, drive},
         drive' # 0 => pc' \in {"poll", "reap"}, chld' \in BOOLEAN, sigchld' \in BOOLEAN
  PROVE  JobInv' /\ JobMoves
<1>1. JobMoves
  BY KeepsMoves DEF Quiet, JobMoves
<1>2. Table' = Table
  BY DEF Quiet, Keeps, Table
<1>3. \A i \in Ids : Sane(job'[i]) /\ (Listed(job'[i]) <=> Listed(job[i]))
  BY DEF Quiet, Keeps
<1>4. \A i \in Ids : i >= next => job'[i] = NoJob
  BY DEF Quiet, JobInv
<1>5. drive' \in {0} \cup Ids /\ (drive' # 0 => Listed(job'[drive']))
  BY <1>3 DEF JobInv
<1> QED BY <1>1, <1>2, <1>3, <1>4, <1>5 DEF JobInv, Quiet

LEMMA LeavingStep ==
  ASSUME JobInv, Leaving, pc' \in {"poll", "reap", "settle", "quit", "gone"},
         text' = text, drive' = 0, chld' \in BOOLEAN, sigchld' \in BOOLEAN
  PROVE  JobInv' /\ JobMoves
<1>1. JobMoves
  BY DEF Leaving, JobMoves
<1>2. Table' \subseteq Table
  BY DEF Leaving, Table
<1>3. Cardinality(Table') <= TableMax
  <2> DEFINE n == Cardinality(Table)
             m == Cardinality(Table')
  <2>1. m \in Nat /\ m <= n
    BY <1>2, TableFinite, FS_Subset, FS_CardinalityType
  <2>2. n \in Nat /\ TableMax \in Nat /\ n <= TableMax
    BY TableFinite DEF JobInv
  <2> HIDE DEF n, m
  <2>3. m <= TableMax
    BY <2>1, <2>2
  <2> QED BY <2>3 DEF m
<1>4. \A i \in Ids : Sane(job'[i])
  BY DEF Leaving, Moves
<1>5. \A i \in Ids : i >= next => job'[i] = NoJob
  BY NoJobSane DEF Leaving, JobInv
<1> QED BY <1>1, <1>3, <1>4, <1>5 DEF JobInv, Leaving

(* yew_job_spawn: of a full table it evicts one, which is not the one that   *)
(* is being settled.                                                         *)
LEMMA SpawnMoves ==
  ASSUME JobInv, NEW S, NEW k \in Spawnable(S), NEW quit
  PROVE  /\ next \in Ids /\ DOMAIN Spawn(k) = Ids /\ Listed(Spawn(k)[next])
         /\ \A i \in Ids : Moves(job[i], Spawn(k)[i], quit)
         /\ \A i \in Ids : i >= next + 1 => Spawn(k)[i] = NoJob
         /\ \A i \in Table : i # next /\ (~Evictable(job[i].kind) => Spawn(k)[i] = job[i])
         /\ Cardinality({i \in Ids : Listed(Spawn(k)[i])}) <= TableMax
<1> DEFINE e == First(Evictees)
           T == {i \in Ids : Listed(Spawn(k)[i])}
<1>1. next \in Ids /\ k \in JobKinds /\ Room(k.kind)
  BY JobAssumption DEF Spawnable, Ids
<1>2. job[next] = NoJob /\ next \notin Table /\ next \in Nat
  BY <1>1, NoJobSane, IdsSet DEF JobInv, Table
<1>3. IsFull => e \in Table /\ Evictable(job[e].kind)
  <2>1. IsFull => Evictees # {} /\ Evictees \subseteq Nat
    BY <1>1, IdsSet DEF Room, Evictees, Table
  <2> QED BY <2>1, FirstLeast DEF Evictees
<1>4. /\ DOMAIN Spawn(k) = Ids /\ Spawn(k)[next] = New(k)
      /\ \A i \in Ids : i # next => Spawn(k)[i] = IF IsFull /\ i = e THEN Evict(job[i])
                                                  ELSE job[i]
  BY <1>1 DEF Spawn
<1> HIDE DEF e
<1>5. ASSUME NEW i \in Ids PROVE Moves(job[i], Spawn(k)[i], quit)
  <2>1. CASE i = next
    BY <1>1, <1>2, <1>4, <2>1, NewMoves
  <2>2. CASE i # next /\ IsFull /\ i = e
    <3>1. Sane(job[i]) /\ Listed(job[i]) /\ Evictable(job[i].kind)
      BY <1>3, <2>2 DEF JobInv, Table
    <3> QED BY <1>4, <2>2, <3>1, EvictMoves
  <2>3. CASE i # next /\ ~(IsFull /\ i = e)
    BY <1>4, <2>3, KeepsOnce, KeepsMoves DEF JobInv
  <2> QED BY <2>1, <2>2, <2>3
<1>6. Listed(New(k))
  BY <1>1, NewMoves
<1>7. IsFull => e \in Table /\ e \notin T
  <2> SUFFICES ASSUME IsFull PROVE e \in Table /\ e \notin T
    OBVIOUS
  <2>1. e \in Table /\ Sane(job[e]) /\ Listed(job[e]) /\ Evictable(job[e].kind)
    BY <1>3 DEF JobInv, Table
  <2>2. Spawn(k)[e] = Evict(job[e])
    BY <1>2, <1>4, <2>1 DEF Table
  <2> QED BY <2>1, <2>2, EvictMoves
<1>8. T \subseteq Table \cup {next}
  <2> SUFFICES ASSUME NEW i \in T, i # next PROVE i \in Table
    OBVIOUS
  <2>1. IsFull /\ i = e => i \in Table
    BY <1>7
  <2>2. ~(IsFull /\ i = e) => Spawn(k)[i] = job[i]
    BY <1>4
  <2> QED BY <2>1, <2>2 DEF Table
<1>9. Cardinality(T) <= TableMax
  <2> DEFINE n == Cardinality(Table)
  <2>1. n \in Nat /\ TableMax \in Nat /\ n <= TableMax /\ IsFiniteSet(Table)
    BY TableFinite DEF JobInv
  <2>2. CASE IsFull
    <3> DEFINE R == Table \ {e}
    <3>1. IsFiniteSet(R) /\ Cardinality(R) = n - 1
      BY <1>7, <2>1, <2>2, FS_RemoveElement
    <3>2. next \notin R
      BY <1>2
    <3>3. IsFiniteSet(R \cup {next}) /\ Cardinality(R \cup {next}) = Cardinality(R) + 1
      BY <3>1, <3>2, FS_AddElement
    <3>4. T \subseteq R \cup {next}
      BY <1>7, <1>8, <2>2
    <3>5. Cardinality(T) <= Cardinality(R) + 1 /\ Cardinality(T) \in Nat
      BY <3>3, <3>4, FS_Subset, FS_CardinalityType
    <3> HIDE DEF n, R, T
    <3> QED BY <2>1, <3>1, <3>5
  <2>3. CASE ~IsFull
    <3>1. IsFiniteSet(Table \cup {next}) /\ Cardinality(Table \cup {next}) = n + 1
      BY <1>2, <2>1, FS_AddElement
    <3>2. Cardinality(T) <= n + 1 /\ Cardinality(T) \in Nat
      BY <1>8, <3>1, FS_Subset, FS_CardinalityType
    <3>3. n < TableMax
      BY <2>1, <2>3 DEF IsFull
    <3> HIDE DEF n, T
    <3> QED BY <2>1, <3>2, <3>3
  <2> QED BY <2>2, <2>3
<1>10. \A i \in Ids : i >= next + 1 => Spawn(k)[i] = NoJob
  <2> SUFFICES ASSUME NEW i \in Ids, i >= next + 1 PROVE Spawn(k)[i] = NoJob
    OBVIOUS
  <2>1. i \in Nat /\ i # next /\ i >= next
    BY <1>2, IdsSet
  <2>2. job[i] = NoJob /\ i \notin Table
    BY <2>1, NoJobSane DEF JobInv, Table
  <2> QED BY <1>3, <1>4, <2>1, <2>2
<1>11. \A i \in Table : i # next /\ (~Evictable(job[i].kind) => Spawn(k)[i] = job[i])
  BY <1>2, <1>3, <1>4 DEF Table
<1> QED BY <1>1, <1>4, <1>5, <1>6, <1>9, <1>10, <1>11


LEMMA ProcessStep ==
  ASSUME JobInv, NEW i \in Ids, NEW p \in ProcType, Process(i, p),
         Alive(job[i].proc), Runs(p) => Runs(job[i].proc),
         p.sig = job[i].proc.sig, p.errno => ~Runs(p),
         p.chunk = job[i].proc.chunk \/ "out" \in job[i].fds, sigchld' \in BOOLEAN,
         job[i].proc.leader = "gone" => p.leader = "gone"
  PROVE  JobInv' /\ JobMoves
<1> DEFINE q == IF Listed(job[i]) THEN p ELSE Forgotten(p)
<1>1. Sane(job[i]) /\ DOMAIN job = Ids
  BY DEF JobInv
<1>2. q \in {p, NoProc} /\ (q = p \/ ~Listed(job[i]))
  BY DEF Forgotten
<1>3. job' = [job EXCEPT ![i] = [@ EXCEPT !.proc = q]]
  BY <1>1 DEF Process
<1>4. job[i] # NoJob
  BY DEF NoJob, NoProc, Alive, Runs
<1> HIDE DEF q
<1>5. Keeps(job[i], [job[i] EXCEPT !.proc = q])
  BY <1>1, <1>2, ProcKeeps
<1>6. /\ DOMAIN job' = Ids /\ job'[i] = [job[i] EXCEPT !.proc = q]
      /\ \A x \in Ids : x # i => job'[x] = job[x]
  BY <1>1, <1>3
<1>7. Quiet
  <2>1. \A x \in Ids : Keeps(job[x], job[x])
    BY KeepsOnce DEF JobInv
  <2> QED BY <1>4, <1>5, <1>6, <2>1 DEF Quiet, Process
<1>8. pc' = pc /\ text' = text /\ drive' = drive /\ chld' = chld
  BY DEF Process, loop
<1> QED BY <1>7, <1>8, QuietStep DEF JobInv

LEMMA ExecStep == ASSUME JobInv, NEW i \in Ids, Exec(i) PROVE JobInv' /\ JobMoves
<1> DEFINE p == job[i].proc
           u == [p EXCEPT !.leader = "up"]
           z == [p EXCEPT !.leader = "zombie", !.errno = TRUE]
<1>1. p \in ProcType /\ p.leader = "new" /\ Runs(p) /\ Alive(p) /\ ~p.errno
  BY DEF JobInv, Sane, JobType, Exec, Runs, Alive
<1>2. sigchld' \in BOOLEAN /\ (Process(i, u) \/ Process(i, z))
  BY DEF Exec, JobInv
<1>3. CASE Process(i, u)
  <2>1. /\ u \in ProcType /\ u.sig = p.sig /\ u.errno = p.errno /\ u.chunk = p.chunk
    BY <1>1 DEF ProcType
  <2> HIDE DEF u
  <2> QED BY <1>1, <1>2, <1>3, <2>1, ProcessStep
<1>4. CASE Process(i, z)
  <2>1. /\ z \in ProcType /\ z.sig = p.sig /\ ~Runs(z) /\ z.chunk = p.chunk
    BY <1>1 DEF ProcType, Runs
  <2> HIDE DEF z
  <2>2. p.leader # "gone"
    BY <1>1
  <2> QED BY <1>1, <1>2, <1>4, <2>1, <2>2, ProcessStep
<1> QED BY <1>2, <1>3, <1>4

LEMMA WriteStep == ASSUME JobInv, NEW i \in Ids, Write(i) PROVE JobInv' /\ JobMoves
<1> DEFINE p == job[i].proc
           w == [p EXCEPT !.chunk = "pipe"]
<1>1. /\ p \in ProcType /\ Alive(p) /\ (p.errno => ~Runs(p)) /\ "out" \in job[i].fds
      /\ sigchld' \in BOOLEAN /\ Process(i, w)
  BY DEF JobInv, Sane, JobType, Write, Runs, Alive
<1>2. /\ w \in ProcType /\ w.sig = p.sig /\ w.errno = p.errno /\ w.leader = p.leader
  BY <1>1 DEF ProcType
<1> HIDE DEF w
<1>3. Runs(w) <=> Runs(p)
  BY <1>2 DEF Runs
<1> QED BY <1>1, <1>2, <1>3, ProcessStep

LEMMA ExitStep == ASSUME JobInv, NEW i \in Ids, Exit(i) PROVE JobInv' /\ JobMoves
<1> DEFINE p == job[i].proc
<1>1. p \in ProcType /\ p.leader = "up" /\ Alive(p) /\ sigchld' \in BOOLEAN
  BY DEF JobInv, Sane, JobType, Exit, Runs, Alive
<1>2. PICK kin \in {FALSE, p.forks}, ok \in {FALSE, job[i].kind = "filter"} :
        Process(i, [p EXCEPT !.leader = "zombie", !.kin = kin, !.ok = ok])
  BY DEF Exit
<1> DEFINE z == [p EXCEPT !.leader = "zombie", !.kin = kin, !.ok = ok]
<1>3. kin \in BOOLEAN /\ ok \in BOOLEAN
  BY <1>1 DEF ProcType
<1>4. z \in ProcType /\ z.sig = p.sig /\ z.leader = "zombie" /\ z.chunk = p.chunk
  BY <1>1, <1>3 DEF ProcType
<1> HIDE DEF z
<1>5. ~Runs(z) /\ p.leader # "gone" /\ Process(i, z)
  BY <1>1, <1>2, <1>4 DEF Runs, z
<1> QED BY <1>1, <1>4, <1>5, ProcessStep

LEMMA KinExitStep == ASSUME JobInv, NEW i \in Ids, KinExit(i) PROVE JobInv' /\ JobMoves
<1> DEFINE p == job[i].proc
           w == [p EXCEPT !.kin = FALSE]
<1>1. /\ p \in ProcType /\ Alive(p) /\ (p.errno => ~Runs(p))
      /\ sigchld' \in BOOLEAN /\ Process(i, w)
  BY DEF JobInv, Sane, JobType, KinExit, Alive
<1>2. /\ w \in ProcType /\ w.sig = p.sig /\ w.errno = p.errno /\ w.leader = p.leader
      /\ w.chunk = p.chunk
  BY <1>1 DEF ProcType
<1> HIDE DEF w
<1>3. Runs(w) <=> Runs(p)
  BY <1>2 DEF Runs
<1> QED BY <1>1, <1>2, <1>3, ProcessStep

LEMMA StruckStep == ASSUME JobInv, NEW i \in Ids, Struck(i) PROVE JobInv' /\ JobMoves
<1> DEFINE p == job[i].proc
           w == [p EXCEPT !.kin = FALSE, !.leader = IF Runs(p) THEN "zombie" ELSE @]
<1>1. /\ p \in ProcType /\ Alive(p) /\ (p.errno => ~Runs(p)) /\ Process(i, w)
  BY DEF JobInv, Sane, JobType, Struck
<1>2. sigchld' \in BOOLEAN
  BY DEF Struck, JobInv, Runs
<1>3. /\ w \in ProcType /\ w.sig = p.sig /\ w.errno = p.errno
      /\ w.leader = IF Runs(p) THEN "zombie" ELSE p.leader
      /\ w.chunk = p.chunk
  BY <1>1 DEF ProcType
<1> HIDE DEF w
<1>4. ~Runs(w) /\ (p.leader = "gone" => w.leader = "gone")
  BY <1>3 DEF Runs
<1> QED BY <1>1, <1>2, <1>3, <1>4, ProcessStep


LEMMA PolledStep ==
  ASSUME JobInv, Polled, pc = "poll" PROVE JobInv' /\ JobMoves
<1>1. PICK refuse \in SUBSET Streams, stop \in SUBSET Chunks : job' = Pumped(refuse, stop)
  BY DEF Polled
<1>2. DOMAIN job' = Ids
  BY <1>1 DEF Pumped
<1>3. ASSUME NEW i \in Ids
      PROVE  Keeps(job[i], job'[i]) /\ (job[i] = NoJob => job'[i] = NoJob)
  <2> DEFINE r == i \in refuse
             s == i \in stop
  <2>1. r \in BOOLEAN /\ s \in BOOLEAN /\ Sane(job[i])
    BY DEF JobInv
  <2>2. job'[i] = IF Listed(job[i]) THEN Read(job[i], r, s) ELSE job[i]
    BY <1>1 DEF Pumped, Table
  <2> HIDE DEF r, s
  <2>3. Listed(job[i]) => Keeps(job[i], Read(job[i], r, s)) /\ job[i] # NoJob
    BY <2>1, ReadKeeps, NoJobSane
  <2> QED BY <2>1, <2>2, <2>3, KeepsOnce
<1>4. Quiet
  BY <1>2, <1>3 DEF Quiet, Polled
<1> QED BY <1>4, QuietStep DEF JobInv, Polled

LEMMA TickedQuiet ==
  ASSUME JobInv, NEW now, NEW due, NEW late, job' = Ticked(now, due, late), next' = next,
         \A i \in Ids : Keeps(job[i], now[i]) /\ (~Listed(job[i]) => now[i] = job[i])
  PROVE  Quiet
<1>1. DOMAIN job' = Ids
  BY DEF Ticked
<1>2. ASSUME NEW i \in Ids
      PROVE  Keeps(job[i], job'[i]) /\ (job[i] = NoJob => job'[i] = NoJob)
  <2> DEFINE r == Reaped(i, now[i])
             d == i \in due
             l == i \in late
  <2>1. d \in BOOLEAN /\ l \in BOOLEAN
    OBVIOUS
  <2>2. job'[i] = IF Listed(job[i]) THEN Tick(r, d, l) ELSE r
    BY DEF Ticked, Table
  <2>3. r = now[i] \/ r = Wait(now[i])
    BY DEF Reaped
  <2>4. Keeps(job[i], now[i]) /\ Keeps(now[i], Wait(now[i])) /\ Sane(now[i])
    BY WaitKeeps DEF Keeps
  <2> HIDE DEF r, d, l
  <2>5. Keeps(job[i], r)
    BY <2>3, <2>4, KeepsOn
  <2>6. Sane(r) /\ (Listed(r) <=> Listed(job[i]))
    BY <2>5 DEF Keeps
  <2>7. Listed(job[i]) => Keeps(job[i], Tick(r, d, l))
    BY <2>1, <2>5, <2>6, TickKeeps, KeepsOn
  <2>8. job[i] = NoJob => job'[i] = NoJob
    <3> SUFFICES ASSUME job[i] = NoJob PROVE job'[i] = NoJob
      OBVIOUS
    <3>1. now[i] = NoJob /\ job'[i] = r
      BY <2>2, NoJobSane
    <3>2. Wait(NoJob) = NoJob
      BY DEF Wait, NoJob, NoProc
    <3> QED BY <2>3, <3>1, <3>2
  <2> QED BY <2>2, <2>5, <2>7, <2>8
<1> QED BY <1>1, <1>2 DEF Quiet

LEMMA ReapStep == ASSUME JobInv, Reap PROVE JobInv' /\ JobMoves
<1>1. PICK due \in SUBSET Armed(job), late \in SUBSET Timed(job) :
        job' = Ticked(job, due, late)
  BY DEF Reap
<1>2. \A i \in Ids : Keeps(job[i], job[i])
  BY KeepsOnce DEF JobInv
<1>3. Quiet
  BY <1>1, <1>2, TickedQuiet DEF Reap
<1> QED BY <1>3, QuietStep DEF JobInv, Reap

LEMMA FilterReapStep == ASSUME JobInv, FilterReap PROVE JobInv' /\ JobMoves
<1> DEFINE c == [job EXCEPT ![drive] = Cancelled(@)]
<1>1. PICK now \in {job, c} :
        \E due \in SUBSET Armed(now), late \in SUBSET Timed(now) :
          job' = Ticked(now, due, late)
  BY DEF FilterReap
<1>2. PICK due \in SUBSET Armed(now), late \in SUBSET Timed(now) :
        job' = Ticked(now, due, late)
  BY <1>1
<1>3. \A i \in Ids : Keeps(job[i], job[i])
  BY KeepsOnce DEF JobInv
<1>4. /\ Keeps(job[drive], Cancelled(job[drive])) /\ Listed(job[drive])
      /\ drive \in Ids /\ DOMAIN job = Ids
  BY CancelKeeps DEF JobInv, FilterReap
<1>5. \A i \in Ids : Keeps(job[i], c[i]) /\ (~Listed(job[i]) => c[i] = job[i])
  BY <1>3, <1>4
<1> HIDE DEF c
<1>6. \A i \in Ids : Keeps(job[i], now[i]) /\ (~Listed(job[i]) => now[i] = job[i])
  BY <1>1, <1>3, <1>5
<1>7. Quiet
  BY <1>2, <1>6, TickedQuiet DEF FilterReap
<1> QED BY <1>7, QuietStep DEF JobInv, FilterReap

(* One job changes, and no other. *)
LEMMA KillCmdStep ==
  ASSUME JobInv, NEW i \in Ids, NEW s \in {"TERM", "KILL"}, KillCmd(i, s)
  PROVE  JobInv' /\ JobMoves
<1>1. Keeps(job[i], Signal(job[i], s)) /\ DOMAIN job = Ids
  BY SignalKeeps DEF JobInv
<1>2. \A x \in Ids : Keeps(job[x], job[x])
  BY KeepsOnce DEF JobInv
<1>3. job[i] # NoJob
  BY DEF KillCmd, NoJob
<1>4. Quiet
  BY <1>1, <1>2, <1>3 DEF Quiet, KillCmd
<1> QED BY <1>4, QuietStep DEF JobInv, KillCmd, AtEnd

LEMMA QuitKillStep == ASSUME JobInv, QuitKill PROVE JobInv' /\ JobMoves
<1> DEFINE i == First(Table)
           k == [Kill(job[i], "KILL") EXCEPT !.state = "CANCELLED"]
<1>1. i \in Ids /\ Sane(job[i]) /\ Listed(job[i]) /\ DOMAIN job = Ids
  <2>1. Table # {} /\ Table \subseteq Nat
    BY IdsSet DEF QuitKill, Table
  <2>2. i \in Table
    BY <2>1, FirstLeast
  <2> QED BY <2>2 DEF JobInv, Table
<1>2. Keeps(job[i], k) /\ job[i] # NoJob
  BY <1>1, QuitKillKeeps, NoJobSane
<1>3. job' = [job EXCEPT ![i] = k]
  BY DEF QuitKill
<1>4. \A x \in Ids : Keeps(job[x], job[x])
  BY KeepsOnce DEF JobInv
<1> HIDE DEF i, k
<1>5. Quiet
  BY <1>1, <1>2, <1>3, <1>4 DEF Quiet, QuitKill
<1> QED BY <1>5, QuietStep DEF JobInv, QuitKill, loop

LEMMA QuitWaitStep == ASSUME JobInv, QuitWait PROVE JobInv' /\ JobMoves
<1> DEFINE i == First(Table)
<1>1. i \in Ids /\ Sane(job[i]) /\ Listed(job[i]) /\ DOMAIN job = Ids
  <2>1. Table # {} /\ Table \subseteq Nat
    BY IdsSet DEF QuitWait, Table
  <2>2. i \in Table
    BY <2>1, FirstLeast
  <2> QED BY <2>2 DEF JobInv, Table
<1>2. job' = [job EXCEPT ![i] = Release(@)]
  BY DEF QuitWait
<1> HIDE DEF i
<1>3. Moves(job[i], Release(job[i]), pc = "quit")
  BY <1>1, ReleaseMoves
<1>4. \A x \in Ids : Moves(job[x], job[x], pc = "quit")
  BY KeepsOnce, KeepsMoves DEF JobInv
<1>5. Leaving
  BY <1>1, <1>2, <1>3, <1>4 DEF Leaving, QuitWait
<1>6. drive = 0
  BY DEF JobInv, QuitWait
<1> QED BY <1>5, <1>6, LeavingStep DEF JobInv, QuitWait, loop

LEMMA ClearStep == ASSUME JobInv, Clear PROVE JobInv' /\ JobMoves
<1>1. /\ DOMAIN job' = Ids
      /\ \A i \in Ids : job'[i] = IF Listed(job[i]) THEN Release(job[i]) ELSE job[i]
  BY DEF Clear, Table
<1>2. \A i \in Ids : /\ Moves(job[i], Release(job[i]), pc = "quit")
                     /\ Moves(job[i], job[i], pc = "quit")
  BY ReleaseMoves, KeepsOnce, KeepsMoves DEF JobInv
<1>3. Leaving
  BY <1>1, <1>2 DEF Leaving, Clear
<1>4. drive = 0
  BY DEF JobInv, Clear, AtEnd
<1> QED BY <1>3, <1>4, LeavingStep DEF JobInv, Clear


(* A new job is the last of the table, which it does not outgrow. *)
LEMMA SpawnStep ==
  ASSUME JobInv, NEW S, NEW k \in Spawnable(S), DOMAIN job' = Ids, next' = next + 1,
         \A i \in Ids : Moves(job[i], job'[i], pc = "quit"),
         \A i \in Ids : Listed(job'[i]) => Listed(Spawn(k)[i]),
         \A i \in Ids : i >= next + 1 => job'[i] = NoJob,
         pc' \in {"poll", "reap", "settle", "quit", "gone"}, text' = text,
         drive' \in {0, next}, drive' # 0 => Listed(job'[next]) /\ pc' \in {"poll", "reap"},
         chld' \in BOOLEAN, sigchld' \in BOOLEAN
  PROVE  JobInv' /\ JobMoves
<1>1. JobMoves
  BY DEF JobMoves
<1>2. /\ next \in Ids /\ Cardinality({i \in Ids : Listed(Spawn(k)[i])}) <= TableMax
  BY SpawnMoves
<1>3. Cardinality(Table') <= TableMax
  <2> DEFINE T == {i \in Ids : Listed(Spawn(k)[i])}
  <2>1. IsFiniteSet(T) /\ Table' \subseteq T
    BY IdsSet, FS_Subset DEF Table
  <2>2. /\ Cardinality(T) \in Nat /\ Cardinality(Table') \in Nat
        /\ Cardinality(Table') <= Cardinality(T)
    BY <2>1, FS_Subset, FS_CardinalityType
  <2>3. Cardinality(T) <= TableMax /\ TableMax \in Nat
    BY <1>2, TableFinite
  <2> HIDE DEF T
  <2> QED BY <2>2, <2>3
<1>4. next' \in 1 .. Len(Plan) + 1
  BY <1>2, IdsSet
<1>5. \A i \in Ids : Sane(job'[i])
  BY DEF Moves
<1> QED BY <1>1, <1>2, <1>3, <1>4, <1>5 DEF JobInv

LEMMA StartStep == ASSUME JobInv, Start PROVE JobInv' /\ JobMoves
<1>1. PICK k \in Spawnable(AllKinds) :
        job' = Spawn(k) /\ drive' = IF k.kind = "filter" THEN next ELSE 0
  BY DEF Start
<1>2. /\ DOMAIN job' = Ids /\ Listed(job'[next])
      /\ \A i \in Ids : Moves(job[i], job'[i], pc = "quit")
      /\ \A i \in Ids : Listed(job'[i]) => Listed(Spawn(k)[i])
      /\ \A i \in Ids : i >= next + 1 => job'[i] = NoJob
  BY <1>1, SpawnMoves
<1>3. /\ next' = next + 1 /\ pc' = "poll" /\ text' = text /\ chld' \in BOOLEAN
      /\ sigchld' \in BOOLEAN /\ drive' \in {0, next}
  BY <1>1 DEF Start, JobInv
<1> QED BY <1>2, <1>3, SpawnStep

LEMMA SettleStep == ASSUME JobInv, Settle PROVE JobInv' /\ JobMoves
<1> DEFINE i == First(Overs)
           r == Release(Complete(job[i]))
           d == Destroy(Complete(job[i]))
<1>1. /\ i \in Ids /\ Settleable(job[i]) /\ Sane(job[i]) /\ Listed(job[i])
      /\ DOMAIN job = Ids
  <2>1. Overs # {} /\ Overs \subseteq Nat
    BY IdsSet DEF Settle, Overs
  <2>2. i \in Overs
    BY <2>1, FirstLeast
  <2> QED BY <2>2 DEF JobInv, Overs, Settleable
<1>2. /\ Callback(job[i].kind) => Moves(job[i], r, pc = "quit") /\ ~Listed(r)
      /\ ~Callback(job[i].kind) => Moves(job[i], d, pc = "quit") /\ Listed(d)
  BY <1>1, SettleMoves
<1>3. /\ pc' = pc /\ chld' = chld /\ drive' = drive /\ sigchld' = sigchld /\ text' = text
      /\ pc = "settle" /\ drive = 0
  BY DEF Settle, loop, JobInv
<1>4. \A x \in Ids : Moves(job[x], job[x], pc = "quit")
  BY KeepsOnce, KeepsMoves DEF JobInv
<1>5. \/ ~Callback(job[i].kind) /\ job' = [job EXCEPT ![i] = d] /\ next' = next
      \/ Callback(job[i].kind) /\ job' = [job EXCEPT ![i] = r] /\ next' = next
      \/ /\ Callback(job[i].kind) /\ job[i].kind = "git" /\ next' = next + 1
         /\ \E k \in Spawnable({"git"}) :
              job' = [Spawn(k) EXCEPT ![i] = Release(Complete(@))]
  BY DEF Settle
<1> HIDE DEF i, r, d
<1>6. CASE /\ next' = next
           /\ \/ ~Callback(job[i].kind) /\ job' = [job EXCEPT ![i] = d]
              \/ Callback(job[i].kind) /\ job' = [job EXCEPT ![i] = r]
  <2>1. Leaving
    BY <1>1, <1>2, <1>4, <1>6 DEF Leaving
  <2> QED BY <1>3, <2>1, LeavingStep DEF JobInv
<1>7. CASE /\ Callback(job[i].kind) /\ job[i].kind = "git" /\ next' = next + 1
           /\ \E k \in Spawnable({"git"}) :
                job' = [Spawn(k) EXCEPT ![i] = Release(Complete(@))]
  <2>1. PICK k \in Spawnable({"git"}) :
          job' = [Spawn(k) EXCEPT ![i] = Release(Complete(@))]
    BY <1>7
  <2>2. /\ DOMAIN Spawn(k) = Ids /\ next \in Ids
        /\ \A x \in Ids : Moves(job[x], Spawn(k)[x], pc = "quit")
        /\ \A x \in Ids : x >= next + 1 => Spawn(k)[x] = NoJob
        /\ \A x \in Table : x # next /\ (~Evictable(job[x].kind) => Spawn(k)[x] = job[x])
    BY SpawnMoves
  <2>3. i # next /\ Spawn(k)[i] = job[i] /\ ~(i >= next + 1)
    <3>1. i \in Table /\ ~Evictable(job[i].kind)
      BY <1>1, <1>7 DEF Table, Evictable
    <3>2. job[i] # NoJob /\ i \in Nat /\ next \in Nat
      BY <1>1, <2>2, NoJobSane, IdsSet
    <3> QED BY <1>1, <2>2, <3>1, <3>2 DEF JobInv
  <2>4. /\ DOMAIN job' = Ids /\ job'[i] = r
        /\ \A x \in Ids : x # i => job'[x] = Spawn(k)[x]
    BY <1>1, <2>1, <2>2, <2>3 DEF r
  <2>5. /\ \A x \in Ids : Moves(job[x], job'[x], pc = "quit")
        /\ \A x \in Ids : Listed(job'[x]) => Listed(Spawn(k)[x])
        /\ \A x \in Ids : x >= next + 1 => job'[x] = NoJob
    BY <1>2, <1>7, <2>2, <2>3, <2>4
  <2> QED BY <1>3, <1>7, <2>4, <2>5, SpawnStep DEF JobInv
<1> QED BY <1>5, <1>6, <1>7

LEMMA FilterEndStep == ASSUME JobInv, FilterEnd PROVE JobInv' /\ JobMoves
<1> DEFINE j == job[drive]
<1>1. drive \in Ids /\ Sane(j) /\ Listed(j) /\ ~Pending(j) /\ drive' = 0
  BY DEF FilterEnd, JobInv, Over
<1>2. j.proc.chunk # "pipe"
  BY <1>1 DEF Sane, Pending
<1>3. text' \in {"before", "after", "capped"}
  BY <1>2 DEF FilterEnd, JobInv
<1>4. Quiet
  BY KeepsOnce DEF Quiet, FilterEnd, JobInv
<1> QED BY <1>1, <1>3, <1>4, QuietStep DEF JobInv, FilterEnd

LEMMA StillStep ==
  ASSUME JobInv, Idle \/ Quit \/ Gone \/ UNCHANGED vars PROVE JobInv' /\ JobMoves
<1>1. /\ job' = job /\ next' = next /\ chld' = chld /\ sigchld' = sigchld
      /\ drive' = drive /\ text' = text
      /\ pc' \in {"poll", "reap", "settle", "quit", "gone"}
      /\ drive # 0 => pc' \in {"poll", "reap"}
  BY DEF Idle, Quit, Gone, AtEnd, vars, loop, JobInv
<1>2. Quiet
  BY <1>1, KeepsOnce DEF Quiet, JobInv
<1> QED BY <1>1, <1>2, QuietStep DEF JobInv

LEMMA JobStart == Init => JobInv
<1> SUFFICES ASSUME Init PROVE JobInv
  OBVIOUS
<1>1. /\ DOMAIN job = Ids /\ \A i \in Ids : job[i] = NoJob
  BY DEF Init
<1>2. Table = {} /\ \A i \in Ids : Sane(job[i])
  BY <1>1, NoJobSane DEF Table
<1>3. Cardinality(Table) <= TableMax
  BY <1>2, FS_EmptySet, TableFinite
<1>4. next \in 1 .. Len(Plan) + 1
  BY IdsSet DEF Init
<1> QED BY <1>1, <1>2, <1>3, <1>4 DEF Init, JobInv

LEMMA JobStep == JobInv /\ [Next]_vars => JobInv' /\ JobMoves
<1> SUFFICES ASSUME JobInv, [Next]_vars PROVE JobInv' /\ JobMoves
  OBVIOUS
<1>1. CASE Turn
  BY <1>1, PolledStep, ReapStep, SettleStep, StillStep, FilterReapStep, FilterEndStep,
     QuitKillStep, QuitWaitStep DEF Turn, Wake, FilterPoll
<1>2. CASE User
  BY <1>2, PolledStep, ClearStep, StillStep, StartStep, KillCmdStep DEF User, Key
<1>3. CASE Off \/ UNCHANGED vars
  BY <1>3, StillStep DEF Off
<1>4. CASE \E i \in Ids : Outside(i)
  BY <1>4, ExecStep, WriteStep, ExitStep, KinExitStep, StruckStep DEF Outside
<1> QED BY <1>1, <1>2, <1>3, <1>4 DEF Next



-----------------------------------------------------------------------------
(* The theorems.                                                             *)

THEOREM JobsAlways == Spec => []JobInv
BY JobStart, JobStep, PTL DEF Spec

(* The jobs are a function on the ids. *)
Rows == job = [i \in Ids |-> job[i]]

LEMMA RowsStep == ASSUME Rows, [Next]_vars PROVE Rows'
<1>1. ASSUME NEW i \in Ids, Outside(i) PROVE Rows'
  BY <1>1 DEF Outside, Exec, Write, Exit, KinExit, Struck, Process, Rows
<1>2. CASE Wake \/ FilterPoll \/ Key
  BY <1>2 DEF Wake, FilterPoll, Key, Polled, Pumped, Rows
<1>3. CASE Reap \/ FilterReap
  BY <1>3 DEF Reap, FilterReap, Ticked, Rows
<1>4. CASE Settle
  <2>1. \/ \E i, j : job' = [job EXCEPT ![i] = j]
        \/ \E k, i, j : job' = [Spawn(k) EXCEPT ![i] = j]
    BY <1>4, Zenon DEF Settle
  <2>2. ASSUME NEW i, NEW j, job' = [job EXCEPT ![i] = j] PROVE Rows'
    BY <2>2 DEF Rows
  <2>3. ASSUME NEW k, NEW i, NEW j, job' = [Spawn(k) EXCEPT ![i] = j] PROVE Rows'
    BY <2>3 DEF Rows, Spawn
  <2> QED BY <2>1, <2>2, <2>3
<1>5. CASE Start
  BY <1>5 DEF Start, Spawn, Rows
<1>6. CASE Clear
  BY <1>6 DEF Clear, Rows
<1>7. ASSUME NEW i \in Ids, NEW s, KillCmd(i, s) PROVE Rows'
  BY <1>7 DEF KillCmd, Rows
<1>8. CASE QuitKill \/ QuitWait
  BY <1>8 DEF QuitKill, QuitWait, Rows
<1>9. CASE Idle \/ FilterEnd \/ Quit \/ Gone \/ Off \/ UNCHANGED vars
  BY <1>9 DEF Idle, FilterEnd, Quit, Gone, Off, vars, Rows
<1> QED BY <1>1, <1>2, <1>3, <1>4, <1>5, <1>6, <1>7, <1>8, <1>9 DEF Next, Turn, User

(* Types; the table stays within YEW_JOB_MAX, whatever spawns and evictions; *)
(* and a job whose wait status is in has a verdict.                          *)
THEOREM TypeCorrect == Spec => []TypeOK
<1>1. Init => Rows
  BY DEF Init, Rows
<1>2. Rows /\ [Next]_vars => Rows'
  BY RowsStep
<1>3. JobInv /\ Rows => TypeOK
  <2> SUFFICES ASSUME JobInv, Rows PROVE TypeOK
    OBVIOUS
  <2>1. \A i \in Ids : job[i] \in JobType
    BY DEF JobInv, Sane
  <2>2. job \in [Ids -> JobType]
    BY <2>1 DEF Rows
  <2> QED BY <2>2 DEF JobInv, TypeOK, Sane
<1> QED BY <1>1, <1>2, <1>3, JobsAlways, PTL DEF Spec

(* However jobs leave the table (yew_job_release after an eviction, "clear   *)
(* finished", a settled callback, the end of the program), no child is       *)
(* forgotten that runs on and was never signalled.                           *)
THEOREM NeverOrphaned == Spec => []NoOrphan
<1>1. JobInv => NoOrphan
  BY DEF JobInv, NoOrphan, Sane, Table, Listed
<1> QED BY <1>1, JobsAlways, PTL

(* An owner that still waits for its calls has its job in the table.         *)
THEOREM OwnerKept == Spec => []NoOwnerLost
<1>1. JobInv => NoOwnerLost
  BY DEF JobInv, NoOwnerLost, Sane, Table
<1> QED BY <1>1, JobsAlways, PTL

(* yew_shell_filter never applies output that was cut off.                   *)
THEOREM FilterAlwaysWhole == Spec => []FilterWhole
<1>1. JobInv => FilterWhole
  BY DEF JobInv, FilterWhole
<1> QED BY <1>1, JobsAlways, PTL

(* No wait status takes the place of a timeout, a cancel or a failed exec.   *)
THEOREM VerdictAlwaysKept == Spec => VerdictKept
<1> DEFINE A == \A i \in Ids : job[i].state \in {"TIMEOUT", "CANCELLED", "EXECFAIL"}
                                => job'[i].state # "EXITED"
<1>1. JobInv /\ [Next]_vars => [A]_job
  BY JobStep DEF JobMoves, Moves, Verdicts
<1> QED BY <1>1, JobsAlways, PTL DEF Spec, VerdictKept

(* Every owner gets the calls job.h promises: the table implements           *)
(* JobPromise.                                                               *)
LEMMA ToldCalls ==
  /\ \A c : Promise!Told(c, <<>>) <=> c = <<"own">>
  /\ \A c : Promise!Told(c, <<"destroy">>) <=> c = <<"own", "destroy">>
  /\ \A c : Promise!Told(c, <<"complete", "destroy">>)
              <=> c = <<"own", "complete", "destroy">>
<1> DEFINE S == {"own", "complete", "destroy"}
           o == <<"own">>
           d == <<"destroy">>
           e == <<"complete", "destroy">>
<1>1. /\ o \in Seq(S) /\ Len(o) = 1 /\ o[1] = "own"
      /\ d \in Seq(S) /\ Len(d) = 1 /\ d[1] = "destroy"
      /\ e \in Seq(S) /\ Len(e) = 2 /\ e[1] = "complete" /\ e[2] = "destroy"
  OBVIOUS
<1>2. /\ <<"own", "destroy">> \in Seq(S) /\ Len(<<"own", "destroy">>) = 2
      /\ <<"own", "complete", "destroy">> \in Seq(S)
      /\ Len(<<"own", "complete", "destroy">>) = 3
  OBVIOUS
<1>3. o \o <<>> = o
  <2> HIDE DEF S, o
  <2> QED BY <1>1, ConcatEmptySeq
<1>4. o \o d = <<"own", "destroy">>
  <2> DEFINE c == o \o d
             w == <<"own", "destroy">>
  <2>1. w \in Seq(S) /\ Len(w) = 2 /\ w[1] = "own" /\ w[2] = "destroy"
    OBVIOUS
  <2> HIDE DEF S, o, d, w
  <2>2. c \in Seq(S) /\ Len(c) = 2 /\ c[1] = "own" /\ c[2] = "destroy"
    BY <1>1, ConcatProperties
  <2> HIDE DEF c
  <2>3. c = w
    BY <2>1, <2>2, SeqEqual
  <2> QED BY <2>3 DEF c, w
<1>5. o \o e = <<"own", "complete", "destroy">>
  <2> DEFINE c == o \o e
             w == <<"own", "complete", "destroy">>
  <2>1. /\ w \in Seq(S) /\ Len(w) = 3
        /\ w[1] = "own" /\ w[2] = "complete" /\ w[3] = "destroy"
    OBVIOUS
  <2> HIDE DEF S, o, e, w
  <2>2. /\ c \in Seq(S) /\ Len(c) = 3
        /\ c[1] = "own" /\ c[2] = "complete" /\ c[3] = "destroy"
    <3>1. /\ c \in Seq(S) /\ Len(c) = 3
          /\ \A i \in 1 .. 3 : c[i] = IF i <= 1 THEN o[i] ELSE e[i - 1]
      BY <1>1, ConcatProperties
    <3> HIDE DEF c
    <3>2. c[1] = o[1] /\ c[2] = e[1] /\ c[3] = e[2]
      BY <3>1
    <3> QED BY <1>1, <3>1, <3>2
  <2> HIDE DEF c
  <2>3. c = w
    BY <2>1, <2>2, SeqEqual
  <2> QED BY <2>3 DEF c, w
<1> QED BY <1>3, <1>4, <1>5 DEF Promise!Told

LEMMA PromiseStart == Init => Promise!Init
BY DEF Init, Promise!Init, IsOver, IsSpent, NoJob

LEMMA PromiseStep ==
  ASSUME JobMoves, JobInv'
  PROVE  Promise!Next
<1>1. ASSUME NEW i \in Ids
      PROVE  \/ job'[i].calls = job[i].calls
             \/ Promise!Handed(job[i].calls, job'[i].calls)
             \/ Promise!Answered(i, job[i].calls, job'[i].calls)
             \/ Promise!Dropped(i, job[i].calls, job'[i].calls)
  <2> DEFINE j == job[i]
             k == job'[i]
             quit == pc = "quit"
  <2>1. Serves(j, k, quit)
    BY DEF JobMoves, Moves
  <2>2. j.calls = <<>> /\ k.calls = <<"own">> => Promise!Handed(j.calls, k.calls)
    BY ToldCalls DEF Promise!Handed, Promise!Given
  <2>3. /\ j.calls = <<"own">> /\ Listed(j) /\ ~Pending(j)
        /\ k.calls = <<"own", "complete", "destroy">>
        => Promise!Answered(i, j.calls, k.calls)
    BY ToldCalls DEF Promise!Answered, IsOver, Table
  <2>4. /\ j.calls = <<"own">> /\ k.calls = <<"own", "destroy">>
        /\ quit \/ Evictable(j.kind) \/ j.state \notin {"none", "RUNNING"}
        => Promise!Dropped(i, j.calls, k.calls)
    BY ToldCalls DEF Promise!Dropped, IsSpent
  <2> QED BY <2>1, <2>2, <2>3, <2>4 DEF Serves
<1>2. {i \in Ids : IsOver(i)}' \subseteq Ids /\ {i \in Ids : IsSpent(i)}' \subseteq Ids
  OBVIOUS
<1> QED BY <1>1, <1>2 DEF Promise!Next

THEOREM PromiseKept == Spec => KeepsPromise
<1>1. Init => Promise!Init
  BY PromiseStart
<1>2. JobInv /\ [Next]_vars => [Promise!Next]_(<<[i \in Ids |-> job[i].calls],
        {i \in Ids : IsOver(i)}, {i \in Ids : IsSpent(i)}>>)
  BY JobStep, PromiseStep
<1> QED BY <1>1, <1>2, JobsAlways, PTL DEF Spec, KeepsPromise, Promise!Spec

=============================================================================
