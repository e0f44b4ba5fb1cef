-------------------------- MODULE MCCircuitBreaker --------------------------
(* One client that streams from one provider target, request after request. *)
EXTENDS CircuitBreaker
=============================================================================
