---------------------------- MODULE MCDomainLists ----------------------------
(***************************************************************************)
(* A small instance of DomainLists.  The names are example.com, a sub-     *)
(* domain, one below that, and example-x.com, whose reversed labels sort   *)
(* between example.com and what is below it: "-" comes before ".".         *)
(***************************************************************************)
EXTENDS DomainLists, TLC

Example == "example.com"
Hyphen == "example-x.com"
Shop == "shop.example.com"
Deep == "a.shop.example.com"

MCNames == {Example, Hyphen, Shop, Deep}
MCPosition == (Example :> 1) @@ (Hyphen :> 2) @@ (Shop :> 3) @@ (Deep :> 4)
MCBelow ==
    {<<n, n>> : n \in MCNames}
        \cup {<<Example, Shop>>, <<Example, Deep>>, <<Shop, Deep>>}

MCRules == (MCNames \X {Wildcard}) \cup {<<Example, Exact>>}
MCSubscribed == <<"ads", "malware">>
=============================================================================
