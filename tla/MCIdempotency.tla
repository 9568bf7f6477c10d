---------------------------- MODULE MCIdempotency ----------------------------
(***************************************************************************)
(* Instances of Idempotency for TLC.  Deliveries, payloads and keys are    *)
(* interchangeable.                                                        *)
(***************************************************************************)
EXTENDS Idempotency, TLC

Symmetry == Permutations(Requests) \cup Permutations(Payloads) \cup Permutations(Keys)
=============================================================================
