----------------------------- MODULE MCFileSave -----------------------------
(* FileSave on small instances. *)
EXTENDS FileSave

(* HardlinksKept, and also over another file than the journal's base: the    *)
(* code discounts a link there that is the user's (save_pinned.cfg).         *)
HardlinksKeptOverAnother ==
  [][Rename /\ pc' = "syncdir" /\ job.strategy # "atomic" /\ ~late =>
       Dst \notin twins]_vars
=============================================================================
