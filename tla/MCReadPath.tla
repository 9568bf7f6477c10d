----------------------------- MODULE MCReadPath -----------------------------
(* Instances of ReadPath for TLC: two users with a request each; either the *)
(* keys are rotated or a rack is read.                                      *)
EXTENDS ReadPath, TLC

CONSTANTS r1, r2, u1, u2

Owners == [r \in {r1, r2} |-> IF r = r1 THEN u1 ELSE u2]

Swap == r1 :> r2 @@ r2 :> r1 @@ u1 :> u2 @@ u2 :> u1
Symmetry == {Swap} \cup Permutations(Kids)

MCSpec == (With({}, Kids) \/ With(Racks, {})) /\ [][Next]_vars
=============================================================================
