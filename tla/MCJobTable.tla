----------------------------- MODULE MCJobTable -----------------------------
(* JobTable on small instances. *)
EXTENDS JobTable

A(k) == [kind |-> k, forks |-> FALSE, big |-> FALSE]
Forks(k) == [A(k) EXCEPT !.forks = TRUE]
Big(k) == [A(k) EXCEPT !.big = TRUE]

(* A generator and a git job share the table, a third needs a place. *)
Crowd == <<{A("gen"), Big("gen")}, {A("git")}, {A("git")}>>

(* A table of one: the second job evicts the first or waits for it.          *)
Pair == <<{Forks("gen"), A("run")}, {Forks("filter"), A("git")}>>

(* A filter alone, whose command leaves a descendant behind. *)
Alone == <<{Forks("filter")}>>
=============================================================================
