------------------------ MODULE MC_StopDeclaration ------------------------
(***************************************************************************)
(* Small instances for StopDeclaration: thresholds in the proportions of   *)
(* mrs_bringup/config/trajopt.yaml (opening within the staleness bound, a  *)
(* hold longer than the closing run), and one scenario of blockages.       *)
(***************************************************************************)
EXTENDS StopDeclaration, TLC

CONSTANTS r1, e1, noEdge

OneLane == r1 :> e1

Set(e)   == [edge |-> e, block |-> TRUE]
Unset(e) == [edge |-> e, block |-> FALSE]

BlockThenClear == << Set(e1), Unset(e1) >>
Quiet      == <<>>

\* the first plan leaves r1 where it is, the second moves it
SecondPlan == << r1 :> noEdge, r1 :> e1 >>
=============================================================================
