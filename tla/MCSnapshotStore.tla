--------------------------- MODULE MCSnapshotStore ---------------------------
(***************************************************************************)
(* A small instance of SnapshotStore.  Two lists, the shared one and that  *)
(* of a tenant.  Digest 1: the tenant has no override and shares the file. *)
(* Digest 2: it has one.  Digest 3: it has dropped the list.               *)
(* Digest 4: shared again, with another content.                           *)
(***************************************************************************)
EXTENDS SnapshotStore, TLC

All == "all.txt"
Own == "t/acme/all.txt"

MCNames == {All, Own}
MCPosition == (All :> 1) @@ (Own :> 2)
Rendered ==
    <<(All :> "x") @@ (Own :> "x"),
      (All :> "x") @@ (Own :> "y"),
      (All :> "y"),
      (All :> "y") @@ (Own :> "y")>>
MCContentOf == [d \in Digests |-> Rendered[d]]
MCPolls == [c \in Clients |-> Own]
=============================================================================
