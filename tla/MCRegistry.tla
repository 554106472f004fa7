---------------------------- MODULE MCRegistry ----------------------------
(***************************************************************************)
(* Small instances of PsmRegistry for TLC.  Two records, of which only p1  *)
(* has a default, and the request sets the runs choose from.               *)
(***************************************************************************)
EXTENDS PsmRegistry, TLC

CONSTANTS c1, c2, r1, timer, main, none, p1, p2, v1, v2, absent, noFile

MCDefault == (p1 :> v1) @@ (p2 :> absent)

Write(p, v)       == [op |-> "write", param |-> p, val |-> v]
Delete(p)         == [op |-> "delete", param |-> p]
DisableWriting(b) == [op |-> "disableWriting", on |-> b]
Reload            == [op |-> "reload"]
FactoryReset      == [op |-> "factoryReset"]

WriteBoth == <<Write(p1, v2), Write(p2, v2)>>

\* Changes only: a request that sets two records, one that sets one of them
\* and one that deletes a record which has a default.
ChangeRequests == {WriteBoth, <<Write(p1, v1)>>, <<Delete(p1)>>}

\* DisableWriting, ReloadConfig and changes, also within one request.
ControlRequests ==
  {WriteBoth, <<Delete(p1)>>, <<Reload>>,
   <<DisableWriting(TRUE)>>, <<DisableWriting(FALSE), Write(p1, v1)>>}

SwitchRequests == {<<DisableWriting(TRUE)>>, <<DisableWriting(FALSE)>>, WriteBoth}

ResetRequests == {<<Write(p1, v2)>>, <<FactoryReset>>}
===========================================================================
