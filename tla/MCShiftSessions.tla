--------------------------- MODULE MCShiftSessions ---------------------------
(***************************************************************************)
(* Instances of ShiftSessions for TLC.  Users, requests and replicas are   *)
(* interchangeable, and so are the shifts that stand at the start.         *)
(***************************************************************************)
EXTENDS ShiftSessions, TLC

Symmetry == Permutations(Users) \cup Permutations(Requests)
              \cup Permutations(Replicas) \cup Permutations(Standing)
=============================================================================
