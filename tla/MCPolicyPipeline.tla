--------------------------- MODULE MCPolicyPipeline ---------------------------
(***************************************************************************)
(* Small instances of PolicyPipeline: two domains, two categories and up   *)
(* to two tenants; the second has only one category and overrides of its   *)
(* own.                                                                    *)
(***************************************************************************)
EXTENDS PolicyPipeline

MCPosition == [c \in Categories |-> IF c = "ads" THEN 1 ELSE 2]

MCSubscribed == [t \in Tenants |-> IF t = "default" THEN Categories ELSE {"ads"}]

NoneAllowed == [t \in Tenants |-> {}]

NoneDenied == [t \in Tenants |-> [c \in Categories \cup {AnyCategory} |-> {}]]

\* The second tenant makes an exception for e, and blocks d wherever it can.
AcmeAllows == [t \in Tenants |-> IF t = "acme" THEN {"e"} ELSE {}]

AcmeDenies ==
    [t \in Tenants |-> [c \in Categories \cup {AnyCategory} |->
        IF t = "acme" /\ c = AnyCategory THEN {"d"} ELSE {}]]

OneAnchor == {<<"e", "malware">>}
NoAnchor == {}
=============================================================================
