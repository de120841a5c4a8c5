----------------------------- MODULE MCFireTrouble -----------------------------
(***************************************************************************)
(* FireLifecycle in one of two kinds of trouble: handlers that run at the  *)
(* same time while no command fails, or one handler at a time and commands *)
(* that fail.  TLC visits the sum of their states, not the product.        *)
(***************************************************************************)
EXTENDS MCFireLifecycle

VARIABLE trouble

TroubleInit == Init /\ trouble \in {"races", "faults"}

TroubleNext ==
  /\ Next /\ UNCHANGED trouble
  /\ trouble = "races"  => UNCHANGED faults
  /\ trouble = "faults" => Cardinality(InFlight') <= 1

TroubleSpec == TroubleInit /\ [][TroubleNext]_<<vars, trouble>>
===============================================================================
