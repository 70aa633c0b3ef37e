------------------------------ MODULE MCStore ------------------------------
(* The composed store on small instances. *)
EXTENDS Store
=============================================================================
