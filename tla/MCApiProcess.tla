---------------------------- MODULE MCApiProcess ----------------------------
(* Two lifespans on one loop, a request and a readiness check on one connection. *)
EXTENDS ApiProcess

=============================================================================
