----------------------------- MODULE MCTokenCache -----------------------------
(***************************************************************************)
(* A small instance of TokenCache: two requests that overtake each other,  *)
(* and times that are all different.                                       *)
(***************************************************************************)
EXTENDS TokenCache
=============================================================================
