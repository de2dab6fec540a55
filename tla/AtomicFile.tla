----------------------------- MODULE AtomicFile -----------------------------
(* What the atomic strategy of yew_file_save promises, with no temporary, no *)
(* rename and no fsync in sight: a save takes effect at one instant between  *)
(* its call and its return, or not at all.                                   *)
EXTENDS Naturals

Absent == 0                      \* no file; versions are the other naturals

VARIABLES
  text,    \* the version a reader of the file gets
  risk,    \* the versions a power cut may leave behind
  goal,    \* the version the save in progress writes, or Absent
  done,    \* that save has taken effect
  answer,  \* what the last save returned
  others   \* changes made by other programs so far

vars == <<text, risk, goal, done, answer, others>>

Init == /\ text \in Nat /\ risk = {text}
        /\ goal = Absent /\ done = FALSE /\ answer = "none" /\ others \in Nat

Call == /\ goal = Absent /\ goal' \in Nat \ {Absent} /\ done' = FALSE
        /\ UNCHANGED <<text, risk, answer, others>>

TakeEffect == /\ goal # Absent /\ ~done /\ done'
              /\ text' = goal /\ risk' = risk \cup {goal}
              /\ UNCHANGED <<goal, answer, others>>

Reply(res) ==
  /\ goal' = Absent /\ done' = FALSE /\ answer' = res
  /\ UNCHANGED <<text, others>>
  /\ \/ res = "OK" /\ done /\ risk' = {text}
     \/ res = "CHANGED" /\ ~done /\ UNCHANGED risk
     \/ res = "IO" /\ UNCHANGED risk

(* Another program changes, replaces or removes the file. *)
Other == /\ text' \in Nat /\ text' \in risk' /\ risk' \subseteq risk \cup {text'}
         /\ others' = others + 1 /\ UNCHANGED <<goal, done, answer>>

(* A kill, or a power cut. *)
Stop == /\ \/ text' \in risk /\ risk' = {text'}
           \/ UNCHANGED <<text, risk>>
        /\ goal' = Absent /\ done' = FALSE /\ answer' = "none"
        /\ UNCHANGED others

(* The editor loads the file again: what the last save returned is history.  *)
Forget == answer' = "none" /\ UNCHANGED <<text, risk, goal, done, others>>

Next == \/ Call \/ TakeEffect \/ Other \/ Stop \/ Forget
        \/ \E res \in {"OK", "CHANGED", "IO"} : Reply(res)

Spec == Init /\ [][Next]_vars
=============================================================================
