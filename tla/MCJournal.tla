----------------------------- MODULE MCJournal -----------------------------
(* Journal on small instances. *)
EXTENDS Journal

AtHome    == {[exists |-> TRUE, near |-> TRUE]}
Anywhere  == AtHome \union {[exists |-> FALSE, near |-> FALSE]}

(* A journal that an editor writes to has a base.  It has not after a        *)
(* discard killed between its two unlinks; by hand, with journal_halved.cfg. *)
AlwaysBased == \A p \in Editors : Ready(p) /\ ~ed[p].bad => dir.b # NoBase

(* Recovery gives a text that was in a buffer, whatever the journal.  It does *)
(* not after Esc at the prompt, or when the probe, the replay or the discard  *)
(* failed: the next edit continues the journal; by hand, journal_as_is.cfg.   *)
NeverMadeUpAtAll == [][\A p \in Editors : Honest(p)]_vars
=============================================================================
