------------------------------ MODULE MCSending ------------------------------
(***************************************************************************)
(* A small instance of Sending for TLC.                                    *)
(***************************************************************************)
EXTENDS Sending

CONSTANTS j1, j2, f1
=============================================================================
