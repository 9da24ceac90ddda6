----------------------------- MODULE MCFeedIngest -----------------------------
(***************************************************************************)
(* Small instances of FeedIngest: two domains, of which another source     *)
(* may have one, and one or two instances of the service.  Feeds repeat    *)
(* rules, or differ in their wording alone.                                *)
(***************************************************************************)
EXTENDS FeedIngest

\* Faults after which an import that ends as failed has not reached the database.
Transient == {"retry", "refuse", "break", "garbage", "apply"}
=============================================================================
