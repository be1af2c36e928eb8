-------------------------------- MODULE MCVM --------------------------------
(* Small instances of VM for TLC. *)
EXTENDS VM

CONSTANTS P1, P2

MCProcsOne == {P1}
MCProcsTwo == {P1, P2}
=============================================================================
