------------------------------ MODULE MCAdminApi ------------------------------
(***************************************************************************)
(* A small instance of AdminApi: one source and one allowlist entry that   *)
(* may be there at the start, and those that requests add.  Both roles     *)
(* edit the allowlist, and one of them the sources; that an owner may do   *)
(* that too would only add requests that differ in the name.               *)
(***************************************************************************)
EXTENDS AdminApi, TLC

MCRole ==
    ("owner" :> {"allowlist:write", "protected:write"})
        @@ ("operator" :> {"source:write", "allowlist:write"})

Leaves == {}

MCAsks ==
    {[op |-> "source.create", enabled |-> {TRUE}, license |-> l] : l \in {Leaves, {"GPL"}}}
        \cup {[op |-> "source.update", id |-> 1, enabled |-> {TRUE}, license |-> l] :
                  l \in {Leaves, {None}, {"GPL"}}}
        \cup {[op |-> "source.update", id |-> 1, enabled |-> Leaves, license |-> l] :
                  l \in {{None}, {"GPL"}}}
        \cup {[op |-> o, id |-> 1] : o \in {"source.disable", "source.purge", "allowlist.remove"}}
        \cup {[op |-> "allowlist.add", tier |-> t] : t \in Tiers}

Symmetry == Permutations(Handlers)
=============================================================================
