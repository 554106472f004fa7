---------------------------- MODULE MCService ----------------------------
(***************************************************************************)
(* A small instance of PsmService: one thread for each bus, two plain      *)
(* records, one record whose name strcmp_s takes for a parameter of PSM,   *)
(* one parameter that can be set and one that cannot.                     *)
(***************************************************************************)
EXTENDS PsmService

CONSTANTS d1, b1, none, v1, v2, empty, absent, null

ax    == <<"a", ".", "x">>
ay    == <<"a", ".", "y">>
other == <<"com", ".", "q">>
level == <<"com", ".", "psm", ".", "level">>
name  == <<"com", ".", "psm", ".", "name">>

MCOrder    == <<ax, ay, other, level, name>>
MCOwnNames == {level, name}
MCSettable == {level}
MCShadowed == {other, level, name}

MCInitial == [n \in Names |-> IF n \in {ax, other} THEN v1 ELSE absent]

Get(names)          == [op |-> "get", items |-> names]
Set(items)          == [op |-> "set", items |-> items]
Delete(names)       == [op |-> "delete", items |-> names]
List(prefix, below) == [op |-> "names", items |-> <<>>, prefix |-> prefix, nextLevel |-> below]
To(n, v)            == [name |-> n, value |-> v]

\* Reads that can meet half a change or a missing record, reads of names PSM
\* answers itself, changes of two records, and both kinds of listing.
MCRequests ==
  {Get(<<ax, ay>>), Get(<<other, level, name>>),
   Set(<<To(ax, v2), To(ay, empty)>>), Set(<<To(level, v2), To(name, v2)>>),
   Delete(<<ax, ay>>),
   List(<<"com", ".">>, TRUE), List(<<"a">>, FALSE)}
===========================================================================
