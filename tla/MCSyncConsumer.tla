---------------------------- MODULE MCSyncConsumer ----------------------------
(***************************************************************************)
(* Small instances of SyncConsumer: two indicators, i and j, and two       *)
(* domains.                                                                *)
(***************************************************************************)
EXTENDS SyncConsumer

\* Each indicator is about a domain of its own, and stays so.
Apart == [n \in Indicators |-> IF n = "i" THEN {{"d"}} ELSE {{"e"}}]

\* Both are about the same domain.
Together == [n \in Indicators |-> {{"d"}}]
=============================================================================
