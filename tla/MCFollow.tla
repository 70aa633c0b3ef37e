------------------------------ MODULE MCFollow ------------------------------
(* A follower of one context, with a stream that may be cut and a second one. *)
EXTENDS Follow

EventsToMaxTurns == 1 .. MaxTurns
=============================================================================
