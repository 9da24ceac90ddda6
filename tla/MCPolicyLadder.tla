---------------------------- MODULE MCPolicyLadder ----------------------------
(***************************************************************************)
(* A small instance of PolicyLadder: OpenCTI and two feeds, one of them in *)
(* two categories; strengths, bonuses and penalties cross the threshold.   *)
(* Of the lists it has no protected one, which does what allowed does.     *)
(***************************************************************************)
EXTENDS PolicyLadder

Coverage == [f \in {"f", "g"} |-> IF f = "f" THEN {"malware", "ads"} ELSE {"malware"}]
=============================================================================
