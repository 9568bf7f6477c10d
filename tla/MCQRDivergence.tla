---------------------------- MODULE MCQRDivergence ----------------------------
(***************************************************************************)
(* Instances of QRDivergence for TLC.  Labels, devices and requests are     *)
(* interchangeable: no action or property tells two of them apart.         *)
(***************************************************************************)
EXTENDS QRDivergence, TLC

Symmetry == Permutations(Labels) \cup Permutations(Devices)
              \cup Permutations(Requests)
=============================================================================
