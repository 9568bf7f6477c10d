--------------------------- MODULE MCDeviceWrites ---------------------------
(***************************************************************************)
(* An instance of DeviceWrites for TLC.                                    *)
(***************************************************************************)
EXTENDS DeviceWrites, TLC
=============================================================================
