------------------------- MODULE MCPublicationRetry -------------------------
(* TLC instances of PublicationRetry. *)
EXTENDS PublicationRetry
=============================================================================
