----------------------------- MODULE MCSspCfm -----------------------------
(***************************************************************************)
(* Small instance of PsmSspCfm for TLC: q and d have a partner value that  *)
(* is unset when taken and k one that is kept; clients change q and d.     *)
(* The custom value of q differs from the default and bootstrap values;    *)
(* only bootstrap.json has d, so that a load can miss it.                  *)
(***************************************************************************)
EXTENDS PsmSspCfm, TLC

CONSTANTS q, k, d, v1, v2, absent, noFile

MCCustom    == (q :> v2) @@ (k :> absent) @@ (d :> absent)
MCDefault   == (q :> v1) @@ (k :> absent) @@ (d :> absent)
MCBootstrap == (q :> v1) @@ (k :> v2) @@ (d :> v2)
===========================================================================
