---------------------------- MODULE MCQRConsole ----------------------------
(***************************************************************************)
(* One composite operation and one client, on labels of one batch.         *)
(***************************************************************************)
EXTENDS QRConsole, TLC

Symmetry == Permutations(Labels) \cup Permutations(Devices)
=============================================================================
