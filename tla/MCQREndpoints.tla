---------------------------- MODULE MCQREndpoints ----------------------------
(***************************************************************************)
(* An instance of QREndpoints for TLC.                                     *)
(***************************************************************************)
EXTENDS QREndpoints, TLC
=============================================================================
