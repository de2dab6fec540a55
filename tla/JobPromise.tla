---------------------------- MODULE JobPromise ----------------------------
(* What src/edit/job.h promises the owner handed over with a job: complete   *)
(* is called at most once, and only when the child is reaped and both its    *)
(* pipes are at their end; destroy is called exactly once; an owner is       *)
(* destroyed unanswered only when its job no longer runs or may be given up. *)
EXTENDS Naturals, Sequences

CONSTANT Jobs

VARIABLES
  calls,   \* the calls the owner of each job got, <<"own">> being the first
  over,    \* the jobs that are reaped and read to their end
  spent    \* the jobs that no longer run, or may be given up

Given(c)          == c = <<>>
Told(c, s)        == c = <<"own">> \o s

(* What a step may add to the calls of one owner. *)
Handed(c, d)      == Given(c) /\ Told(d, <<>>)
Answered(i, c, d) == Told(c, <<>>) /\ i \in over
                       /\ Told(d, <<"complete", "destroy">>)
Dropped(i, c, d)  == Told(c, <<>>) /\ i \in spent /\ Told(d, <<"destroy">>)

Init == calls = [i \in Jobs |-> <<>>] /\ over \subseteq Jobs
          /\ spent \subseteq Jobs

Next ==
  /\ over' \subseteq Jobs /\ spent' \subseteq Jobs
  /\ DOMAIN calls' = Jobs
  /\ \A i \in Jobs :
       \/ calls'[i] = calls[i]
       \/ Handed(calls[i], calls'[i])
       \/ Answered(i, calls[i], calls'[i])
       \/ Dropped(i, calls[i], calls'[i])

Spec == Init /\ [][Next]_<<calls, over, spent>>
=============================================================================
