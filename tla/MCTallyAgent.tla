---------------------------- MODULE MCTallyAgent ----------------------------
(***************************************************************************)
(* Instances of TallyAgent for TLC.                                        *)
(***************************************************************************)
EXTENDS TallyAgent, TLC

CONSTANTS a1, a2, a3, c1, p1

CreationOrder == (a1 :> 1) @@ (a2 :> 2)
ThreeActions == (a1 :> 1) @@ (a2 :> 2) @@ (a3 :> 3)
OneProgram == p1 :> c1

AllFaults == Busy \cup Answers
(* A report that was carried out is also known to have been.               *)
ReportsAnswered == (Busy \cup Answers) \ {"complete", "report_answer"}
=============================================================================
