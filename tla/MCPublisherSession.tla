------------------------- MODULE MCPublisherSession -------------------------
(* TLC instances of PublisherSession. *)
EXTENDS PublisherSession
=============================================================================
