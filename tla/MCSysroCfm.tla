---------------------------- MODULE MCSysroCfm ----------------------------
(***************************************************************************)
(* Small instance of PsmSysroCfm for TLC: the default configuration and    *)
(* two others, so that a lost, an old and a new one can be told apart.     *)
(***************************************************************************)
EXTENDS PsmSysroCfm

CONSTANTS a, b, d
===========================================================================
