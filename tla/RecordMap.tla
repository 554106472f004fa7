------------------------------ MODULE RecordMap ------------------------------
(***************************************************************************)
(* What the hash table of ssp_cfmif.c promises to the functions that fill  *)
(* it: one entry for each name, the first that was put under the name      *)
(* unless a later one overwrites it.                                       *)
(***************************************************************************)
EXTENDS Sequences

CONSTANTS Names, NoEntry

VARIABLES
  input,   \* the items still to be taken, each with whether it overwrites
  map      \* the entry of each name

\* An item without an entry is passed over.
Put(item) ==
  IF item.entry # NoEntry /\ (map[item.entry.name] = NoEntry \/ item.overwrite)
  THEN [map EXCEPT ![item.entry.name] = item.entry]
  ELSE map

Init == map = [n \in Names |-> NoEntry]

PutNext ==
  /\ input # << >>
  /\ map' = Put(Head(input))
  /\ input' = Tail(input)

\* The memory to hand out the entries may be missing: then all are lost.
Lose ==
  /\ input = << >>
  /\ map' = [n \in Names |-> NoEntry]
  /\ UNCHANGED input

Next == PutNext \/ Lose

Spec == Init /\ [][Next]_<<input, map>>
=============================================================================
