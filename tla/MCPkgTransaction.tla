-------------------------- MODULE MCPkgTransaction --------------------------
(* Instances of PkgTransaction for TLC. *)
EXTENDS PkgTransaction

(* A recovery in which no call fails always works.  It does not: see       *)
(* RecoveryWorks.  Checked by hand with pkg_stuck.cfg.                     *)
NeverStuck == \A p \in Procs : At(p, "r_fail") => proc[p].hurt
=============================================================================
