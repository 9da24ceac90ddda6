---------------------------- MODULE AtomicPublish ----------------------------
(***************************************************************************)
(* What package snapshot promises (internal/snapshot/store.go, header): a  *)
(* set of list files takes effect as a whole or not at all.  A client sees *)
(* either the set published before or the set being offered, never a mix   *)
(* and never an incomplete set, whatever happens to the publisher.         *)
(***************************************************************************)
CONSTANTS
    Contents,   \* the contents a set can have: list file -> rendered body
    NoContent   \* nothing published, or nothing on offer

VARIABLES
    offered,    \* the content the builder wants published, or NoContent
    published   \* the content every client is served from, or NoContent

vars == <<offered, published>>

Init ==
    /\ offered = NoContent
    /\ published = NoContent

\* The builder has rendered a new content and starts to publish it.
Offer(content) ==
    /\ offered = NoContent
    /\ offered' = content
    /\ UNCHANGED published

\* The one step that has an effect: the whole offer replaces what was there.
Publish ==
    /\ offered # NoContent
    /\ published' = offered
    /\ UNCHANGED offered

\* The publication is over: done, failed, or lost in a crash.
Withdraw ==
    /\ offered' = NoContent
    /\ UNCHANGED published

Next ==
    \/ \E content \in Contents : Offer(content)
    \/ Publish
    \/ Withdraw

Spec == Init /\ [][Next]_vars
=============================================================================
