------------------------ MODULE PsmRecordPathProofs ------------------------
(***************************************************************************)
(* What ssp_CfmReadCurConfig hands out: for each name the value of the     *)
(* source that goes first.  What a repository is after it was saved and    *)
(* loaded: its folders are those that were saved, its records too when     *)
(* their values can be read back, and a load is given up only at a record  *)
(* that cannot be read.  All of it is proved for every set of names, hash, *)
(* repository and sources.                                                 *)
(***************************************************************************)
EXTENDS PsmRecordMapProofs, SequenceTheorems

-----------------------------------------------------------------------------
(* The order in which the sources are read.                                *)

Pos(item) == CASE item.source = "file" -> 1 [] item.source = "custom" -> 2
               [] item.source = "default" -> 3 [] item.source = "partner" -> 4
               [] OTHER -> 5

\* A sequence of items of sources lo to hi, in their order.
InOrder(s, lo, hi) ==
  /\ s \in Seq(ItemType)
  /\ \A i \in 1 .. Len(s) : lo <= Pos(s[i]) /\ Pos(s[i]) <= hi
  /\ \A i, j \in 1 .. Len(s) : i < j => Pos(s[i]) <= Pos(s[j])

\* There are five positions.
LEMMA PosIsNat == \A item : Pos(item) \in 1 .. 5
BY DEF Pos

\* Two lists in order make one, when the second begins where the first ends.
LEMMA OrderOfBoth ==
  ASSUME NEW s, NEW t, NEW lo \in Nat, NEW mid \in Nat, NEW hi \in Nat, lo <= mid, mid + 1 <= hi,
         InOrder(s, lo, mid), InOrder(t, mid + 1, hi)
  PROVE  InOrder(s \o t, lo, hi)
<1> DEFINE u == s \o t
<1>1. /\ s \in Seq(ItemType) /\ t \in Seq(ItemType) /\ Len(s) \in Nat /\ Len(t) \in Nat
      /\ u \in Seq(ItemType) /\ Len(u) = Len(s) + Len(t)
      /\ \A i \in 1 .. Len(s) : u[i] = s[i]
      /\ \A i \in 1 .. Len(u) : i > Len(s) => i - Len(s) \in 1 .. Len(t) /\ u[i] = t[i - Len(s)]
  BY DEF InOrder
<1> HIDE DEF u
<1>2. \A i \in 1 .. Len(u) : i \in Nat /\ (i \in 1 .. Len(s) \/ i > Len(s))
  BY <1>1
<1>3. ASSUME NEW i \in 1 .. Len(u), i \in 1 .. Len(s)
      PROVE  lo <= Pos(u[i]) /\ Pos(u[i]) <= mid
  BY <1>1, <1>3 DEF InOrder
<1>4. ASSUME NEW i \in 1 .. Len(u), i > Len(s)
      PROVE  mid + 1 <= Pos(u[i]) /\ Pos(u[i]) <= hi
  BY <1>1, <1>4 DEF InOrder
<1>5. \A i \in 1 .. Len(u) : lo <= Pos(u[i]) /\ Pos(u[i]) <= hi
  BY <1>2, <1>3, <1>4, PosIsNat
<1>6. ASSUME NEW i \in 1 .. Len(u), NEW j \in 1 .. Len(u), i < j
      PROVE  Pos(u[i]) <= Pos(u[j])
  <2>1. CASE j \in 1 .. Len(s)
    <3>1. i \in 1 .. Len(s)
      BY <1>1, <1>2, <1>6, <2>1
    <3> QED
      BY <1>1, <1>6, <2>1, <3>1 DEF InOrder
  <2>2. CASE i \in 1 .. Len(s) /\ j > Len(s)
    BY <1>3, <1>4, <2>2, PosIsNat
  <2>3. CASE i > Len(s)
    <3>1. j > Len(s) /\ i - Len(s) < j - Len(s)
      BY <1>1, <1>2, <1>6, <2>3
    <3> QED
      BY <1>1, <2>3, <3>1 DEF InOrder
  <2> QED
    BY <1>2, <2>1, <2>2, <2>3
<1> QED
  BY <1>1, <1>5, <1>6 DEF InOrder, u

\* The items of one source.
LEMMA OneSourceInOrder ==
  ASSUME NEW s \in Seq(ItemType), NEW k \in 1 .. 5, \A i \in 1 .. Len(s) : Pos(s[i]) = k
  PROVE  InOrder(s, k, k)
BY DEF InOrder

\* The lines of one file are of one source.
LEMMA LinesInOrder ==
  ASSUME NEW els \in Seq(FileElements), NEW kind \in Kinds, NEW k \in 1 .. 5,
         \A item : item.source = kind => Pos(item) = k
  PROVE  InOrder(Lines(els, kind), k, k)
<1>1. Lines(els, kind) \in Seq(ItemType)
  BY LinesAreItems
<1>2. DOMAIN els = 1 .. Len(els) /\ Len(els) \in Nat
  OBVIOUS
<1>3. Lines(els, kind) = [i \in 1 .. Len(els) |-> [entry |-> Entry(els[i]), source |-> kind]]
  BY <1>2 DEF Lines
<1>4. DOMAIN Lines(els, kind) = 1 .. Len(Lines(els, kind))
  BY <1>1
<1>5. \A i \in 1 .. Len(Lines(els, kind)) : Lines(els, kind)[i].source = kind
  BY <1>3, <1>4
<1> QED
  BY <1>1, <1>5, OneSourceInOrder

\* So are the parameters of one list.
LEMMA ParamsInOrder ==
  ASSUME NEW params \in Seq(ParamType), NEW kind \in Kinds, NEW k \in 1 .. 5,
         \A item : item.source = kind => Pos(item) = k
  PROVE  InOrder(Params(params, kind), k, k)
<1>1. Params(params, kind) \in Seq(ItemType)
  BY ParamsAreItems
<1> DEFINE E(p) == Element(p.name, "astr", NoAttr, NoAttr, PlainText(p.value))
<1>2. DOMAIN params = 1 .. Len(params) /\ Len(params) \in Nat
  OBVIOUS
<1>3. Params(params, kind) =
        [i \in 1 .. Len(params) |-> [entry |-> E(params[i]), source |-> kind]]
  BY <1>2 DEF Params
<1>4. DOMAIN Params(params, kind) = 1 .. Len(Params(params, kind))
  BY <1>1
<1> HIDE DEF E
<1>5. \A i \in 1 .. Len(Params(params, kind)) : Params(params, kind)[i].source = kind
  BY <1>3, <1>4
<1> QED
  BY <1>1, <1>5, OneSourceInOrder

\* ssp_CfmReadCurConfig reads the file, the platform's, the default file's, the
\* partner's and the bootstrap file's records, in this order.
LEMMA ReadInOrder ==
  ASSUME NEW repo \in Repositories, repo.folders = << >>, NEW s \in Sources
  PROVE  InOrder(ReadOrder(FileOf(repo), s), 1, 5)
<1>1. FileOf(repo) \in Seq(FileElements)
  BY FileWithoutFolders
<1>2. /\ s.custom \in Seq(ParamType) /\ s.partner \in Seq(ParamType)
      /\ s.missing \in Seq(ParamType) /\ s.default \in Seq(FileElements)
  BY SourcesAssumption DEF FileElements
<1> DEFINE A == Lines(FileOf(repo), "file")
           B == Params(s.custom, "custom")
           C == Lines(s.default, "default")
           D == Params(s.partner, "partner")
           E == Params(s.missing, "missing")
<1>3. InOrder(A, 1, 1)
  BY <1>1, LinesInOrder DEF Pos, Kinds
<1>4. InOrder(B, 2, 2)
  BY <1>2, ParamsInOrder DEF Pos, Kinds
<1>5. InOrder(C, 3, 3)
  BY <1>2, LinesInOrder DEF Pos, Kinds
<1>6. InOrder(D, 4, 4)
  BY <1>2, ParamsInOrder DEF Pos, Kinds
<1>7. InOrder(E, 5, 5)
  BY <1>2, ParamsInOrder DEF Pos, Kinds
<1>8. ReadOrder(FileOf(repo), s) = A \o B \o C \o D \o E
  BY DEF ReadOrder
<1> HIDE DEF A, B, C, D, E
<1>9. InOrder(A \o B, 1, 2)
  BY <1>3, <1>4, OrderOfBoth
<1>10. InOrder(A \o B \o C, 1, 3)
  BY <1>5, <1>9, OrderOfBoth
<1>11. InOrder(A \o B \o C \o D, 1, 4)
  BY <1>6, <1>10, OrderOfBoth
<1>12. InOrder(A \o B \o C \o D \o E, 1, 5)
  BY <1>7, <1>11, OrderOfBoth
<1> QED
  BY <1>8, <1>12

-----------------------------------------------------------------------------
(* The value each name has after some of the items.                        *)

\* The first k items that offer name n a value, and those of the partner.
Offered(all, n, k) == {i \in 1 .. k : all[i].entry # NoEntry /\ all[i].entry.name = n}
ByPartner(all, n, k) == {i \in Offered(all, n, k) : all[i].source = "partner"}

\* The last of the partner's wins, else the first of all.
Wins(all, w, n, k) ==
  /\ w \in Offered(all, n, k)
  /\ \/ all[w].source = "partner" /\ \A j \in ByPartner(all, n, k) : j <= w
     \/ ByPartner(all, n, k) = {} /\ \A j \in Offered(all, n, k) : w <= j

Settled(all, n, k, value) ==
  \/ Offered(all, n, k) = {} /\ value = NoEntry
  \/ \E w \in 1 .. k : Wins(all, w, n, k) /\ value = all[w].entry

Taken == Len(AllItems) - Len(input)

\* The places of its chain at which a name stands and is not yet written.
Waiting(n) ==
  {i \in 1 .. Len(rec_hash[Hash[n]]) :
     /\ heap[rec_hash[Hash[n]][i]].name = n
     /\ ~(phase = "flush" /\ Hash[n] = bucket /\ i < at)}

\* A name stands in the chains and in the buffer once, if at all.
Once(n) ==
  /\ \A i, j \in Written(n) : i = j
  /\ \A i, j \in Waiting(n) : i = j
  /\ Written(n) # {} => Waiting(n) = {}

OnceInFile(n) == \A i, j \in Offers("file", n) : i = j

PathInv ==
  /\ path \in {"platform", "base"} /\ saved \in Repositories /\ sources \in Sources
  /\ path = "platform" => saved.folders = << >>
  /\ path = "base" => pc # "merge"
  /\ pc = "overrun" => \E r \in RecordsOf(saved) : Overruns(r)

\* What is left to take is the end of what there is to read.
RestInv ==
  path = "platform" =>
    /\ Len(input) <= Len(AllItems)
    /\ \A i \in 1 .. Len(input) : input[i] = AllItems[Taken + i]
    /\ phase # "fill" => input = << >>

ValueInv ==
  path = "platform" /\ phase \in {"fill", "flush", "done"} =>
    \A n \in Names : Settled(AllItems, n, Taken, TableEntry(n))

OnceInv ==
  path = "platform" /\ phase \in {"fill", "flush", "done"} =>
    \A n \in Names : OnceInFile(n) => Once(n)

OrderInv == PathInv /\ RestInv /\ ValueInv /\ OnceInv

\* One more item, taken as RecordMap puts it.
LEMMA SettledStep ==
  ASSUME NEW all, NEW n, NEW k \in Nat, NEW value, Settled(all, n, k, value), NEW next,
         next = IF /\ all[k + 1].entry # NoEntry /\ all[k + 1].entry.name = n
                   /\ value = NoEntry \/ all[k + 1].source = "partner"
                THEN all[k + 1].entry ELSE value
  PROVE  Settled(all, n, k + 1, next)
<1> DEFINE offers == all[k + 1].entry # NoEntry /\ all[k + 1].entry.name = n
           O == Offered(all, n, k)
           P == ByPartner(all, n, k)
           O1 == Offered(all, n, k + 1)
           P1 == ByPartner(all, n, k + 1)
<1>1. \A i \in 1 .. k : i \in Nat /\ i \in 1 .. k + 1 /\ i <= k + 1
  OBVIOUS
<1>2. \A i \in 1 .. k + 1 : i \in 1 .. k \/ i = k + 1
  OBVIOUS
<1>3. k + 1 \in 1 .. k + 1 /\ k + 1 \notin 1 .. k /\ k + 1 \in Nat /\ k + 1 <= k + 1
  OBVIOUS
<1>4. O1 = O \cup (IF offers THEN {k + 1} ELSE {})
  BY <1>1, <1>2, <1>3 DEF Offered
<1>5. P1 = P \cup (IF offers /\ all[k + 1].source = "partner" THEN {k + 1} ELSE {})
  BY <1>4 DEF ByPartner
<1>6. O \subseteq 1 .. k /\ P \subseteq O /\ \A i \in P : all[i].source = "partner"
  BY DEF Offered, ByPartner
<1>7. CASE ~offers
  <2>1. O1 = O /\ P1 = P /\ next = value
    BY <1>4, <1>5, <1>7
  <2> QED
    BY <1>1, <2>1 DEF Settled, Wins
<1>8. CASE offers /\ all[k + 1].source = "partner"
  <2>1. \A j \in P1 : j <= k + 1
    BY <1>1, <1>3, <1>5, <1>6
  <2>2. Wins(all, k + 1, n, k + 1)
    BY <1>4, <1>8, <2>1 DEF Wins
  <2> QED
    BY <1>3, <1>8, <2>2 DEF Settled
<1>9. CASE offers /\ all[k + 1].source # "partner" /\ O = {} /\ value = NoEntry
  <2>1. O1 = {k + 1} /\ P1 = {}
    BY <1>4, <1>5, <1>6, <1>9
  <2>2. Wins(all, k + 1, n, k + 1)
    BY <1>3, <2>1 DEF Wins
  <2> QED
    BY <1>3, <1>9, <2>2 DEF Settled
<1>10. ASSUME offers, all[k + 1].source # "partner", NEW w \in 1 .. k, Wins(all, w, n, k),
              value = all[w].entry
       PROVE  Settled(all, n, k + 1, next)
  <2>1. w \in O /\ value # NoEntry /\ next = value
    BY <1>10 DEF Wins, Offered
  <2>2. P1 = P /\ \A j \in O1 : j \in O \/ j = k + 1
    BY <1>4, <1>5, <1>10
  <2>3. w \in O1 /\ w \in 1 .. k + 1 /\ w <= k + 1
    BY <1>1, <1>4, <2>1
  <2>4. Wins(all, w, n, k + 1)
    BY <1>10, <2>2, <2>3 DEF Wins
  <2> QED
    BY <1>10, <2>1, <2>3, <2>4 DEF Settled
<1> QED
  BY <1>7, <1>8, <1>9, <1>10 DEF Settled

-----------------------------------------------------------------------------
(* The invariant holds.                                                    *)

\* The repository, the sources and the path stay what they are.
LEMMA PathStays ==
  [Next]_vars => UNCHANGED <<path, saved, sources>>
BY DEF Next, Merge, MergeEnds, MergeFails, LoadRecordElement, LoadFolderElement, LoadFolderEnds,
       LoadOtherElement, LoadEndsAt, vars, pathVars

\* The repository that is read at boot is one of Repositories.
LEMMA PathInvInit == Init => PathInv
BY PathsAssumption DEF Init, PathInv

\* Nothing but a path that begins changes what is read.
LEMMA PathInvInductive == PathInv /\ [Next]_vars => PathInv'
<1> SUFFICES ASSUME PathInv, [Next]_vars
             PROVE  PathInv'
  OBVIOUS
<1>1. UNCHANGED <<path, saved, sources>>
  BY PathStays
<1>2. (pc' = "merge" => pc = "merge") /\ (pc' = "overrun" => pc = "overrun")
  BY DEF Next, Merge, MergeEnds, MergeFails, LoadRecordElement, LoadFolderElement,
         LoadFolderEnds, LoadOtherElement, LoadEndsAt, Step, vars, pathVars
<1>3. pc' = "overrun" => \E r \in RecordsOf(saved') : Overruns(r)
  BY <1>1, <1>2 DEF PathInv
<1> QED
  BY <1>1, <1>2, <1>3 DEF PathInv

\* The items of a load come file first, partner list last.
LEMMA AllItemsOrdered ==
  PathInv /\ path = "platform" => InOrder(AllItems, 1, 5)
BY ReadInOrder DEF PathInv, AllItems

\* What is taken and what is left make up the items.
LEMMA TakenIsNat ==
  ASSUME HashInv, PathInv, RestInv, path = "platform"
  PROVE  /\ Len(input) \in Nat /\ Len(AllItems) \in Nat /\ Taken \in Nat
         /\ Taken + Len(input) = Len(AllItems)
<1>1. input \in Seq(Readable) /\ AllItems \in Seq(ItemType)
  BY AllItemsOrdered DEF HashInv, HashType, InOrder
<1>2. Len(input) \in Nat /\ Len(AllItems) \in Nat /\ Len(input) <= Len(AllItems)
  BY <1>1 DEF RestInv
<1> QED
  BY <1>2 DEF Taken

\* The item that is taken is the next of those there are to read.
LEMMA NextItem ==
  ASSUME HashInv, PathInv, RestInv, path = "platform",
         input # << >>, input' = Tail(input), UNCHANGED <<saved, sources>>
  PROVE  /\ AllItems' = AllItems /\ Taken' = Taken + 1
         /\ Taken + 1 \in 1 .. Len(AllItems) /\ Head(input) = AllItems[Taken + 1]
         /\ Len(input') <= Len(AllItems)
         /\ \A i \in 1 .. Len(input') : input'[i] = AllItems[Taken' + i]
<1>1. AllItems' = AllItems
  BY DEF AllItems
<1>2. /\ Len(input) \in Nat /\ Len(AllItems) \in Nat /\ Taken \in Nat
      /\ Taken + Len(input) = Len(AllItems)
  BY TakenIsNat
<1>3. /\ input \in Seq(Readable) /\ Len(input) >= 1 /\ Head(input) = input[1]
      /\ Len(input') = Len(input) - 1
      /\ \A i \in 1 .. Len(input') : input'[i] = input[i + 1] /\ i + 1 \in 1 .. Len(input)
  BY <1>2 DEF HashInv, HashType
<1>4. Taken' = Taken + 1
  BY <1>1, <1>2, <1>3 DEF Taken
<1>5. \A i \in 1 .. Len(input) : input[i] = AllItems[Taken + i]
  BY DEF RestInv
<1>6. \A i \in 1 .. Len(input') : input'[i] = AllItems[Taken' + i]
  <2> SUFFICES ASSUME NEW i \in 1 .. Len(input')
               PROVE  input'[i] = AllItems[Taken' + i]
    OBVIOUS
  <2>1. input'[i] = AllItems[Taken + (i + 1)]
    BY <1>3, <1>5
  <2>2. Taken + (i + 1) = (Taken + 1) + i
    BY <1>2, <1>3
  <2> QED
    BY <1>4, <2>1, <2>2
<1>7. Head(input) = AllItems[Taken + 1]
  BY <1>2, <1>3, <1>5
<1>8. Taken + 1 \in 1 .. Len(AllItems) /\ Len(input') <= Len(AllItems)
  BY <1>2, <1>3
<1> QED
  BY <1>1, <1>4, <1>6, <1>7, <1>8

\* Steps that take no item.
Resting == FlushBegins \/ FlushRecord \/ FlushChain \/ FlushEnds \/ FlushFails \/ FreeRecords
Taking == SkipLine \/ LoadRecord \/ KeepRecord \/ OverwriteRecord

\* An item is taken from the head of the input while the table is filled.
LEMMA TakingFills ==
  HashInv /\ Taking =>
    /\ phase = "fill" /\ phase' = "fill" /\ input # << >> /\ input' = Tail(input)
    /\ UNCHANGED flushing
BY DEF Taking, SkipLine, LoadRecord, KeepRecord, OverwriteRecord, Take

\* The steps that take no item find none.
LEMMA RestingKeepsInput ==
  RestInv /\ path = "platform" /\ Resting => UNCHANGED input /\ input = << >>
BY DEF Resting, FlushBegins, FlushRecord, FlushChain, FlushEnds, FlushFails, FreeRecords,
       AtRecord, RestInv

\* At the start nothing is read.
LEMMA RestInvInit == Init => RestInv
<1> SUFFICES ASSUME Init, path = "platform"
             PROVE  RestInv
  BY DEF RestInv
<1>1. input = AllItems /\ phase = "fill"
  BY DEF Init, HashInit, AllItems
<1>2. AllItems \in Seq(ItemType)
  BY PathInvInit, AllItemsOrdered DEF InOrder
<1>3. Taken = 0 /\ Len(AllItems) \in Nat
  BY <1>1, <1>2 DEF Taken
<1> QED
  BY <1>1, <1>3 DEF RestInv

\* The input stays the rest of the items of the path.
LEMMA RestInvInductive ==
  HashInv /\ PathInv /\ RestInv /\ [Next]_vars => RestInv'
<1> SUFFICES ASSUME HashInv, PathInv, RestInv, [Next]_vars, path = "platform"
             PROVE  RestInv'
  BY PathStays DEF RestInv
<1>1. UNCHANGED <<path, saved, sources>> /\ AllItems' = AllItems
  BY PathStays DEF AllItems
<1>2. CASE Taking
  <2>1. phase' = "fill" /\ input # << >> /\ input' = Tail(input)
    BY <1>2, TakingFills
  <2> QED
    BY <1>1, <2>1, NextItem DEF RestInv
<1>3. CASE Resting
  <2>1. UNCHANGED input /\ input = << >>
    BY <1>3, RestingKeepsInput
  <2> QED
    BY <1>1, <2>1 DEF RestInv, Taken
<1>4. CASE UNCHANGED hashVars
  BY <1>1, <1>4 DEF RestInv, Taken, hashVars
<1> QED
  BY <1>2, <1>3, <1>4, TableStep DEF HashNext, Taking, Resting, vars

\* Every name has the value that wins among the items that were taken.
LEMMA ValueInvInit == Init => ValueInv
<1> SUFFICES ASSUME Init, path = "platform", NEW n \in Names
             PROVE  Settled(AllItems, n, Taken, TableEntry(n))
  BY DEF ValueInv
<1>1. input = AllItems
  BY DEF Init, HashInit, AllItems
<1>2. Taken = 0
  <2>1. AllItems \in Seq(ItemType)
    BY PathInvInit, AllItemsOrdered DEF InOrder
  <2> QED
    BY <1>1, <2>1 DEF Taken
<1>3. TableEntry(n) = NoEntry
  <2>1. HashInv /\ phase = "fill" /\ rec_hash = [b \in 1 .. Buckets |-> << >>]
    BY InitKeeps DEF Init, HashInit
  <2>2. Places(heap, rec_hash[Hash[n]], n) = {}
    BY <2>1, HashAssumption DEF Places
  <2> QED
    BY <2>1, <2>2, TableEntryIsValue, ValueWhileFilling DEF Look, HashInv
<1> QED
  BY <1>2, <1>3 DEF Settled, Offered

\* The table keeps the winner of the items that it has taken.
LEMMA ValueInvInductive ==
  ASSUME HashInv, HashInv', PassedWritten, PathInv, RestInv, ValueInv, [Next]_vars
  PROVE  ValueInv'
<1> SUFFICES ASSUME path = "platform", phase' \in {"fill", "flush", "done"}, NEW n \in Names
             PROVE  Settled(AllItems', n, Taken', TableEntry(n)')
  BY PathStays DEF ValueInv
<1>1. UNCHANGED <<path, saved, sources>> /\ AllItems' = AllItems
  BY PathStays DEF AllItems
<1>2. CASE Taking
  <2>1. phase = "fill" /\ input # << >> /\ input' = Tail(input) /\ PutsItem
    BY <1>2, TakingFills, TakingStepPuts DEF Taking
  <2>2. Taken' = Taken + 1 /\ Head(input) = AllItems[Taken + 1] /\ Taken \in Nat
    BY <1>1, <2>1, NextItem, TakenIsNat
  <2>3. Settled(AllItems, n, Taken, TableEntry(n))
    BY <2>1 DEF ValueInv
  <2>4. TableEntry(n)' = IF /\ AllItems[Taken + 1].entry # NoEntry
                            /\ AllItems[Taken + 1].entry.name = n
                            /\ TableEntry(n) = NoEntry \/ AllItems[Taken + 1].source = "partner"
                         THEN AllItems[Taken + 1].entry ELSE TableEntry(n)
    BY <2>1, <2>2 DEF PutsItem, PutsEntry
  <2> QED
    BY <1>1, <2>2, <2>3, <2>4, SettledStep
<1>3. CASE Resting
  <2>1. /\ phase \in {"fill", "flush"}
        /\ FlushBegins \/ FlushRecord \/ FlushChain \/ FlushEnds
    BY <1>3 DEF Resting, FlushBegins, FlushRecord, FlushChain, FlushEnds, FlushFails,
                FreeRecords, AtRecord
  <2>2. TableEntry(n)' = TableEntry(n)
    BY <2>1, FlushStutters, TableEntryIsValue, TableEntryIsValueNext DEF HashInv
  <2>3. Taken' = Taken
    BY <1>1, <1>3, RestingKeepsInput DEF Taken
  <2> QED
    BY <1>1, <2>1, <2>2, <2>3 DEF ValueInv
<1>4. CASE UNCHANGED hashVars
  <2>1. UNCHANGED <<input, heap, rec_hash, buffer, phase>>
    BY <1>4 DEF hashVars
  <2>2. TableEntry(n)' = TableEntry(n)
    BY <2>1 DEF TableEntry, Chain, Matches, FirstMatch
  <2>3. Taken' = Taken
    BY <1>1, <2>1 DEF Taken
  <2> QED
    BY <1>1, <2>1, <2>2, <2>3 DEF ValueInv
<1> QED
  BY <1>2, <1>3, <1>4, TableStep DEF HashNext, Taking, Resting, vars

AtMostOne(S) == \A i, j \in S : i = j

\* A name that the table has when a line of the file is read was in the file before.
LEMMA FileNameIsNew ==
  ASSUME HashInv, PathInv, RestInv, ValueInv, path = "platform", LoadRecord,
         NEW n \in Names, Head(input).entry.name = n, OnceInFile(n)
  PROVE  Places(heap, rec_hash[Hash[n]], n) = {}
<1> SUFFICES ASSUME Places(heap, rec_hash[Hash[n]], n) # {}
             PROVE  FALSE
  OBVIOUS
<1>1. /\ phase = "fill" /\ input # << >> /\ input' = Tail(input)
      /\ Head(input).entry # NoEntry /\ Head(input).source = "file"
  BY DEF LoadRecord, Take
<1>2. TableEntry(n) # NoEntry
  <2>1. Hash[n] \in 1 .. Buckets
    BY HashAssumption
  <2>2. ChainOn(heap, rec_hash[Hash[n]])
    BY <2>1, ChainsOnHeap DEF HashInv
  <2>3. Look(heap, rec_hash[Hash[n]], n) # NoEntry
    BY <2>2, LookFound
  <2> QED
    BY <1>1, <2>3, TableEntryIsValue, ValueWhileFilling DEF HashInv
<1>3. PICK w \in 1 .. Taken : Wins(AllItems, w, n, Taken)
  BY <1>1, <1>2 DEF ValueInv, Settled
<1>4. /\ Taken + 1 \in 1 .. Len(AllItems) /\ Head(input) = AllItems[Taken + 1]
      /\ Taken \in Nat /\ Len(AllItems) \in Nat
  <2>1. Len(input) \in Nat /\ Len(input) >= 1 /\ Head(input) = input[1]
    BY <1>1, TakenIsNat DEF HashInv, HashType
  <2>2. /\ Taken \in Nat /\ Len(AllItems) \in Nat /\ Taken + Len(input) = Len(AllItems)
    BY TakenIsNat
  <2>3. input[1] = AllItems[Taken + 1]
    BY <2>1 DEF RestInv
  <2> QED
    BY <2>1, <2>2, <2>3
<1>5. w \in 1 .. Len(AllItems) /\ w < Taken + 1 /\ w # Taken + 1
  BY <1>4
<1>6. InOrder(AllItems, 1, 5) /\ DOMAIN AllItems = 1 .. Len(AllItems)
  BY AllItemsOrdered DEF InOrder
<1>7. Pos(AllItems[w]) <= Pos(AllItems[Taken + 1])
  BY <1>4, <1>5, <1>6 DEF InOrder
<1>8. Pos(AllItems[Taken + 1]) = 1
  BY <1>1, <1>4 DEF Pos
<1>9. AllItems[w].source = "file"
  BY <1>7, <1>8, PosIsNat DEF Pos
<1>10. AllItems[w].entry # NoEntry /\ AllItems[w].entry.name = n
  BY <1>3 DEF Wins, Offered
<1>11. w \in Offers("file", n) /\ Taken + 1 \in Offers("file", n)
  BY <1>1, <1>4, <1>5, <1>6, <1>9, <1>10 DEF Offers
<1> QED
  BY <1>5, <1>11 DEF OnceInFile

\* insert_record puts no second record of a name into the table, load_records only
\* one that it has not.
LEMMA FillsOnce ==
  ASSUME HashInv, Taking, NEW n \in Names, AtMostOne(Places(heap, rec_hash[Hash[n]], n)),
         LoadRecord /\ Head(input).entry.name = n => Places(heap, rec_hash[Hash[n]], n) = {}
  PROVE  AtMostOne(Places(heap', rec_hash'[Hash[n]], n))
<1> DEFINE e == Head(input).entry
           b == Hash[e.name]
           c == rec_hash[b]
           old == rec_hash[Hash[n]]
<1>1. Hash[n] \in 1 .. Buckets /\ ChainOn(heap, old)
  BY HashAssumption, ChainsOnHeap DEF HashInv
<1>2. rec_hash \in [1 .. Buckets -> Seq(Nat)]
  BY DEF HashInv, HashType
<1>3. CASE SkipLine
  BY <1>3 DEF SkipLine, chains
<1>4. ASSUME NEW kind, Take(kind)
      PROVE  /\ e \in Entries /\ e.name \in Names /\ b \in 1 .. Buckets
             /\ heap' = Append(heap, e) /\ New = Len(heap) + 1
             /\ ChainOn(heap, c) /\ Places(heap', old, n) = Places(heap, old, n)
  <2>1. e \in Entries /\ e.name \in Names /\ b \in 1 .. Buckets
    BY <1>4, TakeMakesRecord DEF HashInv
  <2>2. ChainOn(heap, c)
    BY <2>1, ChainsOnHeap DEF HashInv
  <2>3. heap' = Append(heap, e)
    BY <1>4 DEF Take
  <2>4. Places(heap', old, n) = Places(heap, old, n)
    <3> HIDE DEF e, old
    <3> QED BY <1>1, <2>1, <2>3, LookOnLongerHeap
  <2> QED
    BY <2>1, <2>2, <2>3, <2>4 DEF New
<1>5. ASSUME NEW kind, Take(kind), rec_hash'[Hash[n]] = old
      PROVE  AtMostOne(Places(heap', rec_hash'[Hash[n]], n))
  BY <1>4, <1>5
<1>6. ASSUME NEW d, rec_hash' = [rec_hash EXCEPT ![b] = d], b \in 1 .. Buckets
      PROVE  rec_hash'[Hash[n]] = IF Hash[n] = b THEN d ELSE old
  BY <1>1, <1>2, <1>6
<1>7. CASE LoadRecord
  <2>1. Take("file")
    BY <1>7 DEF LoadRecord
  <2> DEFINE d == Append(c, Len(heap) + 1)
  <2>2. rec_hash' = [rec_hash EXCEPT ![b] = d]
    BY <1>4, <1>7, <2>1 DEF LoadRecord
  <2>3. CASE Hash[n] # b
    BY <1>4, <1>5, <1>6, <2>1, <2>2, <2>3
  <2>4. CASE Hash[n] = b
    <3>1. rec_hash'[Hash[n]] = d /\ old = c /\ AtMostOne(Places(heap, c, n))
      BY <1>4, <1>6, <2>1, <2>2, <2>4
    <3>2. e \in Entries /\ ChainOn(heap, c) /\ heap' = Append(heap, e)
      BY <1>4, <2>1
    <3> HIDE DEF e, c
    <3>3. Places(heap', d, n) = Places(heap, c, n) \cup (IF e.name = n THEN {Len(c) + 1} ELSE {})
      BY <3>2, LookAppended
    <3>4. e.name = n => Places(heap, c, n) = {}
      BY <1>7, <3>1 DEF e
    <3> HIDE DEF d, old
    <3>5. AtMostOne(Places(heap', d, n))
      BY ONLY <3>1, <3>3, <3>4 DEF AtMostOne
    <3> QED
      BY <3>1, <3>5
  <2> QED
    BY <2>3, <2>4
<1>8. ASSUME NEW kind, Take(kind), NEW overwrite, Insert(overwrite, e.name)
      PROVE  AtMostOne(Places(heap', rec_hash'[Hash[n]], n))
  <2>0. /\ e \in Entries /\ e.name \in Names /\ b \in 1 .. Buckets
        /\ heap' = Append(heap, e) /\ New = Len(heap) + 1 /\ ChainOn(heap, c)
    BY <1>4, <1>8
  <2>1. c \in Seq(Nat) /\ DOMAIN c = 1 .. Len(c)
    BY <1>2, <2>0
  <2>2. Chain(e.name) = c /\ Matches(c, e.name) = Places(heap, c, e.name)
        /\ FirstMatch(c, e.name) = First(Places(heap, c, e.name))
    BY <2>1 DEF Chain, Matches, Places, FirstMatch, First
  <2>3. CASE UNCHANGED rec_hash
    BY <1>5, <1>8, <2>3
  <2>4. CASE /\ Places(heap, c, e.name) = {}
             /\ rec_hash' = [rec_hash EXCEPT ![b] = <<New>> \o @]
    <3> DEFINE d == Prepended(heap, c)
    <3>1. rec_hash' = [rec_hash EXCEPT ![b] = d]
      BY <2>0, <2>4 DEF Prepended
    <3>2. CASE Hash[n] # b
      BY <1>5, <1>6, <1>8, <2>0, <3>1, <3>2
    <3>3. CASE Hash[n] = b
      <4>1. rec_hash'[Hash[n]] = d /\ old = c /\ AtMostOne(Places(heap, c, n))
        BY <1>6, <2>0, <3>1, <3>3
      <4>2. Places(heap, c, e.name) = {}
        BY <2>4
      <4> HIDE DEF e, c
      <4>3. Places(heap', d, n) = IF e.name = n THEN {1} ELSE {i + 1 : i \in Places(heap, c, n)}
        BY <2>0, <4>2, LookPrepended
      <4>4. AtMostOne({1}) /\ AtMostOne({i + 1 : i \in Places(heap, c, n)})
        BY <4>1 DEF AtMostOne
      <4> QED
        BY <4>1, <4>3, <4>4
    <3> QED
      BY <3>2, <3>3
  <2>5. CASE Places(heap, c, e.name) # {} /\ Replace(e.name)
    <3> DEFINE d == Replaced(heap, c, e.name)
    <3>1. rec_hash' = [rec_hash EXCEPT ![b] = d]
      <4> DEFINE p == First(Places(heap, c, e.name))
      <4>1. rec_hash' = [rec_hash EXCEPT ![b][p] = Len(heap) + 1]
        BY <2>0, <2>2, <2>5 DEF Replace
      <4> HIDE DEF p
      <4>2. rec_hash' = [rec_hash EXCEPT ![b] = [c EXCEPT ![p] = Len(heap) + 1]]
        BY <1>2, <2>0, <4>1
      <4> QED
        BY <4>2 DEF p, Replaced
    <3>2. CASE Hash[n] # b
      BY <1>5, <1>6, <1>8, <2>0, <3>1, <3>2
    <3>3. CASE Hash[n] = b
      <4>1. rec_hash'[Hash[n]] = d /\ old = c /\ AtMostOne(Places(heap, c, n))
        BY <1>6, <2>0, <3>1, <3>3
      <4>2. Places(heap, c, e.name) # {}
        BY <2>5
      <4> HIDE DEF e, c
      <4>3. e \in Entries /\ ChainOn(heap, c) /\ heap' = Append(heap, e)
        BY <2>0
      <4>4. Places(Append(heap, e), Replaced(heap, c, e.name), n) = Places(heap, c, n)
        BY ONLY <4>2, <4>3, LookReplaced
      <4> QED
        BY <4>1, <4>3, <4>4
    <3> QED
      BY <3>2, <3>3
  <2> QED
    BY <1>8, <2>2, <2>3, <2>4, <2>5 DEF Insert
<1>9. CASE KeepRecord \/ OverwriteRecord
  BY <1>8, <1>9 DEF KeepRecord, OverwriteRecord
<1> QED
  BY <1>3, <1>7, <1>9 DEF Taking

\* What waits while the table is filled, or between chains.
LEMMA WaitingInPlaces ==
  phase # "flush" => \A n : Waiting(n) = Places(heap, rec_hash[Hash[n]], n)
BY DEF Waiting, Places

\* The primed form of WaitingInPlaces.
LEMMA WaitingInPlacesNext ==
  phase' # "flush" => \A n : Waiting(n)' = Places(heap', rec_hash'[Hash[n]], n)
BY DEF Waiting, Places

\* A record that is taken stands in the table once.
LEMMA TakingKeepsOnce ==
  ASSUME HashInv, HashInv', PathInv, RestInv, ValueInv, path = "platform", Taking,
         NEW n \in Names, OnceInFile(n), Once(n)
  PROVE  Once(n)'
<1>1. phase = "fill" /\ phase' = "fill"
  BY TakingFills
<1>2. Written(n)' = {}
  BY <1>1 DEF HashInv, Filling, Written
<1>3. AtMostOne(Places(heap, rec_hash[Hash[n]], n))
  BY <1>1, WaitingInPlaces DEF Once, AtMostOne
<1>4. AtMostOne(Places(heap', rec_hash'[Hash[n]], n))
  BY <1>3, FileNameIsNew, FillsOnce
<1> QED
  BY <1>1, <1>2, <1>4, WaitingInPlacesNext DEF Once, AtMostOne

\* A record that is written leaves the table.
LEMMA FlushRecordKeepsOnce ==
  ASSUME HashInv, FlushRecord, NEW n \in Names, Once(n)
  PROVE  Once(n)'
<1> DEFINE c == rec_hash[bucket]
           r == c[at]
           k == Len(buffer) + 1
<1>1. /\ buffer' = Append(buffer, heap[r]) /\ phase = "flush" /\ bucket <= Buckets
      /\ at <= Len(c) /\ at' = at + 1 /\ UNCHANGED <<heap, rec_hash, bucket, phase>>
  BY DEF FlushRecord, AtRecord
<1>2. bucket \in 1 .. Buckets /\ at \in Nat \ {0} /\ buffer \in Seq(Entries)
      /\ c \in Seq(Nat) /\ heap \in Seq(Entries) /\ at \in 1 .. Len(c)
  BY <1>1, HashAssumption DEF HashInv, HashType
<1>3. heap[r] \in Entries /\ Hash[heap[r].name] = bucket
  BY <1>2 DEF HashInv, HashType, InItsChain
<1>4. /\ Len(buffer') = k /\ Len(buffer) \in Nat /\ buffer'[k] = heap[r]
      /\ \A j \in 1 .. Len(buffer) : buffer'[j] = buffer[j]
  BY <1>1, <1>2, <1>3
<1>5. Written(n)' = Written(n) \cup (IF heap[r].name = n THEN {k} ELSE {})
  <2> HIDE DEF r
  <2>1. \A j \in 1 .. k : j \in 1 .. Len(buffer) \/ j = k
    BY <1>4
  <2>2. k \in 1 .. k /\ \A j \in 1 .. Len(buffer) : j \in 1 .. k
    BY <1>4
  <2> HIDE DEF k
  <2>3. Written(n)' = {j \in 1 .. k : buffer'[j].name = n}
    BY <1>4 DEF Written
  <2> QED
    BY <1>4, <2>1, <2>2, <2>3 DEF Written
<1>6. Waiting(n)' = Waiting(n) \ (IF heap[r].name = n THEN {at} ELSE {})
  <2>1. CASE Hash[n] # bucket
    <3>1. Waiting(n)' = Waiting(n)
      BY <1>1, <2>1 DEF Waiting
    <3> QED
      BY <1>3, <2>1, <3>1
  <2>2. CASE Hash[n] = bucket
    <3>1. Waiting(n) = {i \in 1 .. Len(c) : heap[c[i]].name = n /\ ~(i < at)}
      BY <1>1, <2>2 DEF Waiting
    <3>2. Waiting(n)' = {i \in 1 .. Len(c) : heap[c[i]].name = n /\ ~(i < at + 1)}
      BY <1>1, <2>2 DEF Waiting
    <3>3. \A i \in 1 .. Len(c) : ~(i < at + 1) <=> ~(i < at) /\ i # at
      BY <1>2
    <3> HIDE DEF c
    <3> QED
      BY <3>1, <3>2, <3>3
  <2> QED
    BY <2>1, <2>2
<1>7. CASE heap[r].name # n
  <2>1. Written(n)' = Written(n) /\ Waiting(n)' = Waiting(n)
    BY <1>5, <1>6, <1>7
  <2> QED
    BY <2>1 DEF Once
<1>8. CASE heap[r].name = n
  <2>1. at \in Waiting(n)
    BY <1>1, <1>2, <1>3, <1>8 DEF Waiting
  <2>2. Waiting(n) = {at} /\ Written(n) = {}
    BY <2>1 DEF Once
  <2>3. Waiting(n)' = {} /\ Written(n)' = {k}
    BY <1>5, <1>6, <1>8, <2>2
  <2> QED
    BY <2>3 DEF Once
<1> QED
  BY <1>7, <1>8

\* The other steps of a flush move no record.
LEMMA FlushingKeepsOnce ==
  ASSUME HashInv, HashInv', FlushBegins \/ FlushChain \/ FlushEnds, NEW n \in Names, Once(n)
  PROVE  Once(n)'
<1>1. Hash[n] \in 1 .. Buckets /\ rec_hash \in [1 .. Buckets -> Seq(Nat)]
      /\ bucket \in 1 .. Buckets + 1 /\ Buckets \in Nat /\ at \in Nat
  BY HashAssumption DEF HashInv, HashType
<1>2. Written(n)' = Written(n)
  BY DEF FlushBegins, FlushChain, FlushEnds, flushing, Written
<1>3. CASE FlushBegins
  <2>1. at = 1 /\ phase = "fill" /\ UNCHANGED <<heap, rec_hash, bucket, at>>
    BY <1>3 DEF FlushBegins, HashInv, Filling, chains, flushing
  <2>2. \A i \in 1 .. Len(rec_hash[Hash[n]]) : ~(i < at)
    BY <1>1, <2>1
  <2>3. Waiting(n)' = Waiting(n)
    BY <2>1, <2>2 DEF Waiting
  <2> QED
    BY <1>2, <2>3 DEF Once
<1>4. CASE FlushChain
  <2>1. /\ phase = "flush" /\ rec_hash' = [rec_hash EXCEPT ![bucket] = << >>]
        /\ bucket' = bucket + 1 /\ at' = 1 /\ UNCHANGED <<heap, phase>>
    BY <1>4 DEF FlushChain
  <2>2. CASE Hash[n] = bucket
    <3>1. rec_hash'[Hash[n]] = << >>
      BY <1>1, <2>1, <2>2
    <3>2. Waiting(n)' = {}
      BY <3>1 DEF Waiting
    <3> QED
      BY <1>2, <3>2 DEF Once
  <2>3. CASE Hash[n] # bucket
    <3>1. rec_hash'[Hash[n]] = rec_hash[Hash[n]]
      BY <1>1, <2>1, <2>3
    <3>2. \A i \in 1 .. Len(rec_hash[Hash[n]]) : ~(i < at')
      BY <1>1, <2>1
    <3>3. Waiting(n)' = Waiting(n)
      BY <2>1, <2>3, <3>1, <3>2 DEF Waiting
    <3> QED
      BY <1>2, <3>3 DEF Once
  <2> QED
    BY <2>2, <2>3
<1>5. CASE FlushEnds
  <2>1. bucket > Buckets /\ UNCHANGED <<heap, rec_hash, bucket, at>>
    BY <1>5 DEF FlushEnds, chains, flushing
  <2>2. Hash[n] # bucket
    BY <1>1, <2>1
  <2>3. Waiting(n)' = Waiting(n)
    BY <2>1, <2>2 DEF Waiting
  <2> QED
    BY <1>2, <2>3 DEF Once
<1> QED
  BY <1>3, <1>4, <1>5

\* At the start there is no record.
LEMMA OnceInvInit == Init => OnceInv
<1> SUFFICES ASSUME Init, NEW n \in Names
             PROVE  Once(n)
  BY DEF OnceInv
<1>1. Hash[n] \in 1 .. Buckets
  BY HashAssumption
<1>2. buffer = << >> /\ rec_hash[Hash[n]] = << >>
  BY <1>1 DEF Init, HashInit
<1> QED
  BY <1>2 DEF Once, Written, Waiting

\* A name stands once in table and buffer together, if once in the file.
LEMMA OnceInvInductive ==
  ASSUME HashInv, HashInv', PathInv, RestInv, ValueInv, OnceInv, [Next]_vars
  PROVE  OnceInv'
<1> SUFFICES ASSUME path = "platform", phase' \in {"fill", "flush", "done"}, NEW n \in Names,
                    OnceInFile(n)'
             PROVE  Once(n)'
  BY PathStays DEF OnceInv
<1>1. OnceInFile(n)
  BY PathStays DEF OnceInFile, Offers, AllItems
<1>2. CASE Taking
  <2>1. Once(n)
    BY <1>1, <1>2, TakingFills DEF OnceInv
  <2> QED
    BY <1>1, <1>2, <2>1, TakingKeepsOnce
<1>3. CASE Resting
  <2>1. /\ phase \in {"fill", "flush"}
        /\ FlushBegins \/ FlushRecord \/ FlushChain \/ FlushEnds
    BY <1>3 DEF Resting, FlushBegins, FlushRecord, FlushChain, FlushEnds, FlushFails,
                FreeRecords, AtRecord
  <2>2. Once(n)
    BY <1>1, <2>1 DEF OnceInv
  <2> QED
    BY <2>1, <2>2, FlushRecordKeepsOnce, FlushingKeepsOnce
<1>4. CASE UNCHANGED hashVars
  <2>1. UNCHANGED <<input, heap, rec_hash, bucket, at, buffer, phase>>
    BY <1>4 DEF hashVars
  <2>2. Once(n)
    BY <1>1, <2>1 DEF OnceInv
  <2> QED
    BY <2>1, <2>2 DEF Once, Written, Waiting
<1> QED
  BY <1>2, <1>3, <1>4, TableStep DEF HashNext, Taking, Resting, vars

\* The four parts hold at the start,
LEMMA OrderInvInit == Init => OrderInv
BY PathInvInit, RestInvInit, ValueInvInit, OnceInvInit DEF OrderInv

\* and together they are inductive.
LEMMA OrderInvInductive ==
  HashInv /\ HashInv' /\ PassedWritten /\ OrderInv /\ [Next]_vars => OrderInv'
BY PathInvInductive, RestInvInductive, ValueInvInductive, OnceInvInductive DEF OrderInv

-----------------------------------------------------------------------------
(* The theorem.                                                            *)

\* The item that wins among all decides by the rank of the sources.
LEMMA WinnerDecides ==
  ASSUME PathInv, path = "platform", NEW n \in Names, NEW w \in 1 .. Len(AllItems),
         Wins(AllItems, w, n, Len(AllItems))
  PROVE  Decides(w, n)
<1> DEFINE all == AllItems
           O == Offered(all, n, Len(all))
           P == ByPartner(all, n, Len(all))
<1>1. InOrder(all, 1, 5) /\ DOMAIN all = 1 .. Len(all) /\ Len(all) \in Nat
  BY AllItemsOrdered DEF InOrder
<1>2. \A source, i : i \in Offers(source, n) <=> i \in O /\ all[i].source = source
  BY <1>1 DEF Offers, Offered
<1>3. Offers("partner", n) = P
  BY <1>2 DEF ByPartner
<1>4. w \in O
  BY DEF Wins
<1>5. CASE all[w].source = "partner"
  <2>1. 1 \in DOMAIN Rank /\ Rank[1] = "partner"
    BY DEF Rank
  <2>2. w \in P /\ \A j \in P : j <= w
    BY <1>4, <1>5 DEF Wins, ByPartner
  <2>3. \A l \in 1 .. 1 - 1 : Offers(Rank[l], n) = {}
    OBVIOUS
  <2> QED
    BY <1>3, <2>1, <2>2, <2>3 DEF Decides
<1>6. CASE all[w].source # "partner"
  <2>1. P = {} /\ \A j \in O : w <= j
    BY <1>6 DEF Wins
  <2>2. all[w].source \in Kinds
    <3>1. all[w] \in ItemType
      BY <1>1 DEF InOrder
    <3> QED
      BY <3>1 DEF ItemType
  <2>3. PICK k \in {2, 3, 4, 5} : Rank[k] = all[w].source
    BY <1>6, <2>2 DEF Rank, Kinds
  <2>4. k \in DOMAIN Rank /\ Rank[k] # "partner"
    BY <1>6, <2>3 DEF Rank
  <2>5. ASSUME NEW l \in 1 .. k - 1
        PROVE  Offers(Rank[l], n) = {}
    <3>1. CASE l = 1
      BY <1>3, <2>1, <3>1 DEF Rank
    <3>2. CASE l # 1
      <4> SUFFICES ASSUME NEW j \in Offers(Rank[l], n)
                   PROVE  FALSE
        OBVIOUS
      <4>1. j \in O /\ all[j].source = Rank[l] /\ w <= j
        BY <1>2, <2>1
      <4>2. j \in 1 .. Len(all)
        BY <4>1 DEF Offered
      <4>3. l \in {2, 3, 4} /\ l < k
        BY <2>3, <3>2
      <4>4. Pos(all[j]) < Pos(all[w])
        BY <2>3, <4>1, <4>3 DEF Pos, Rank
      <4>5. j # w /\ w < j
        BY <4>1, <4>2, <4>4, PosIsNat
      <4>6. Pos(all[w]) <= Pos(all[j])
        BY <1>1, <4>2, <4>5 DEF InOrder
      <4> QED
        BY <4>4, <4>6, PosIsNat
    <3> QED
      BY <3>1, <3>2
  <2>6. w \in Offers(Rank[k], n) /\ \A j \in Offers(Rank[k], n) : w <= j
    BY <1>2, <1>4, <2>1, <2>3
  <2> QED
    BY <2>4, <2>5, <2>6 DEF Decides
<1> QED
  BY <1>5, <1>6

\* What is handed out when the table is flushed, name by name.
LEMMA HandedOut ==
  ASSUME HashInv, OrderInv, phase = "done", path = "platform", NEW n \in Names
  PROVE  LET found == {i \in DOMAIN buffer : buffer[i].name = n}
         IN  /\ (\E source \in Range(Rank) : Offers(source, n) # {}) <=> found # {}
             /\ (\A i, j \in Offers("file", n) : i = j) =>
                  \A i, j \in found : i = j /\ \E k \in DOMAIN AllItems :
                                      Decides(k, n) /\ buffer[i] = AllItems[k].entry
<1>1. path = "platform" /\ PathInv
  BY DEF OrderInv
<1> DEFINE all == AllItems
<1>2. InOrder(all, 1, 5) /\ DOMAIN all = 1 .. Len(all) /\ Len(all) \in Nat
  BY <1>1, AllItemsOrdered DEF InOrder
<1>3. Taken = Len(all)
  <2>1. input = << >>
    BY <1>1 DEF OrderInv, RestInv
  <2> QED
    BY <1>2, <2>1 DEF Taken
<1>4. {i \in DOMAIN buffer : buffer[i].name = n} = Written(n)
  BY DEF HashInv, HashType, Written
<1>5. Settled(all, n, Len(all), TableEntry(n))
  BY <1>1, <1>3 DEF OrderInv, ValueInv
<1>6. /\ Written(n) = {} => TableEntry(n) = NoEntry
      /\ Written(n) # {} => TableEntry(n) = buffer[First(Written(n))] /\ TableEntry(n) # NoEntry
  <2>1. TableEntry(n) = Value(n)
    BY TableEntryIsValue DEF HashInv
  <2>2. CASE Written(n) = {}
    <3>1. rec_hash[Hash[n]] = << >>
      BY HashAssumption DEF HashInv, Emptied
    <3>2. Look(heap, rec_hash[Hash[n]], n) = NoEntry
      BY <3>1 DEF Look, Places
    <3> QED
      BY <2>1, <2>2, <3>2 DEF Value
  <2>3. CASE Written(n) # {}
    <3>1. Written(n) \in SUBSET Nat /\ Written(n) \subseteq 1 .. Len(buffer)
      BY DEF Written
    <3>2. First(Written(n)) \in 1 .. Len(buffer)
      BY <2>3, <3>1, FirstFound
    <3>3. buffer[First(Written(n))] \in Entries
      BY <3>2 DEF HashInv, HashType
    <3> QED
      BY <2>1, <2>3, <3>3, EntriesNamed DEF Value
  <2> QED
    BY <2>2, <2>3
<1>7. (\E source \in Range(Rank) : Offers(source, n) # {}) <=> Offered(all, n, Len(all)) # {}
  <2>1. \A source, i : i \in Offers(source, n) <=>
                         i \in Offered(all, n, Len(all)) /\ all[i].source = source
    BY <1>2 DEF Offers, Offered
  <2>2. ASSUME NEW i \in Offered(all, n, Len(all))
        PROVE  all[i].source \in Range(Rank)
    <3>1. all[i] \in ItemType
      BY <1>2 DEF InOrder, Offered
    <3>2. all[i].source \in Kinds
      BY <3>1 DEF ItemType
    <3>3. Range(Rank) = {Rank[1], Rank[2], Rank[3], Rank[4], Rank[5]}
      BY DEF Range, Rank
    <3> QED
      BY <3>2, <3>3 DEF Kinds, Rank
  <2> QED
    BY <2>1, <2>2
<1>8. Offered(all, n, Len(all)) # {} <=> Written(n) # {}
  BY <1>5, <1>6 DEF Settled, Wins, Offered
<1>9. ASSUME OnceInFile(n), NEW i \in Written(n), NEW j \in Written(n)
      PROVE  i = j /\ \E k \in DOMAIN all : Decides(k, n) /\ buffer[i] = all[k].entry
  <2>1. Once(n)
    BY <1>1, <1>9 DEF OrderInv, OnceInv
  <2>2. \A x, y \in Written(n) : x = y
    BY <2>1 DEF Once
  <2>3. First(Written(n)) = i
    <3>1. Written(n) \in SUBSET Nat
      BY DEF Written
    <3>2. First(Written(n)) \in Written(n)
      BY <1>9, <3>1, FirstFound
    <3> QED
      BY <1>9, <2>2, <3>2
  <2>4. PICK w \in 1 .. Len(all) : Wins(all, w, n, Len(all)) /\ TableEntry(n) = all[w].entry
    BY <1>5, <1>6 DEF Settled
  <2>5. Decides(w, n)
    BY <1>1, <2>4, WinnerDecides
  <2> QED
    BY <1>2, <1>6, <2>2, <2>3, <2>4, <2>5
<1> HIDE DEF all
<1> QED
  BY <1>4, <1>7, <1>8, <1>9 DEF OnceInFile, all

\* What ssp_CfmReadCurConfig hands out when its table is flushed: for each name
\* that any source has an element, and only one if the file has the name once,
\* with the value of the partner, else of the file, of the platform, of the
\* default file, of the bootstrap file.
THEOREM SourcesGoInOrder == Spec => []SourcesInOrder
<1>1. HashInv /\ OrderInv => SourcesInOrder
  <2>1. OrderInv /\ pc = "merge" => path = "platform"
    BY DEF OrderInv, PathInv
  <2> QED
    BY <2>1, HandedOut DEF SourcesInOrder
<1>2. HashInv /\ PassedWritten /\ OrderInv /\ [Next]_vars =>
        (HashInv /\ PassedWritten /\ OrderInv)'
  BY HashInvInductive, PassedWrittenInductive, OrderInvInductive
<1>3. Init => HashInv /\ PassedWritten /\ OrderInv
  BY InitKeeps, PassedWrittenInit, OrderInvInit
<1> QED
  BY <1>1, <1>2, <1>3, PTL DEF Spec

-----------------------------------------------------------------------------
(* The texts of values, written and read back.                             *)

\* A name is found at its place.
LEMMA IndexFound ==
  ASSUME NEW names, NEW n \in Nat, NEW c \in 1 .. n,
         \A i \in 1 .. n : names[i] = names[c] => i = c
  PROVE  IndexOf(names, n, names[c]) = c
BY DEF IndexOf

\* The names of the types are those of the enumeration.
LEMMA TypesAreKnown ==
  ASSUME NEW i \in DOMAIN ppRecordType
  PROVE  /\ getRecordTypeFromString(ppRecordType[i]) # 0
         /\ ppRecordType[i] \in {"sint", "uint", "bool", "astr", "bstr", "hcxt", "enum"}
<1>1. i \in 1 .. Len(ppRecordType) /\ Len(ppRecordType) \in Nat
  BY DEF ppRecordType
<1>2. ppRecordType[i] \in {"sint", "uint", "bool", "astr", "bstr", "hcxt", "enum"}
  BY <1>1 DEF ppRecordType
<1> DEFINE found == CHOOSE j \in 1 .. Len(ppRecordType) : ppRecordType[j] = ppRecordType[i]
<1> HIDE DEF found
<1>3. found \in 1 .. Len(ppRecordType)
  BY <1>1, Zenon DEF found
<1>4. getRecordTypeFromString(ppRecordType[i]) = found
  BY <1>1, Zenon DEF getRecordTypeFromString, IndexOf, found
<1> QED
  BY <1>1, <1>2, <1>3, <1>4

\* A content type is read back from its name.
LEMMA ContentNamed ==
  ASSUME NEW c \in 1 .. uTotalRecordContentType
  PROVE  /\ getRecordContentTypeFromString(ppRecordContentType[c]) = c
         /\ ppRecordContentType[c] # NoAttr
<1> DEFINE p == ppRecordContentType
<1>0. /\ p[1] = "int" /\ p[2] = "uint" /\ p[3] = "bool" /\ p[4] = "datetime" /\ p[5] = "base64"
      /\ p[6] = "long" /\ p[7] = "ulong" /\ p[8] = "float" /\ p[9] = "double" /\ p[10] = "byte"
      /\ p[11] = "none" /\ p[12] = "unknown1" /\ p[13] = "unknown2" /\ p[14] = "unknown3"
      /\ p[15] = "unknown4"
  BY DEF ppRecordContentType
<1> HIDE DEF p
<1>1. \A i, j \in 1 .. 15 : p[i] = p[j] => i = j
  <2> SUFFICES ASSUME NEW i \in 1 .. 15, NEW j \in 1 .. 15, p[i] = p[j] PROVE i = j
    OBVIOUS
  <2>1. \/ i = 1 \/ i = 2 \/ i = 3 \/ i = 4 \/ i = 5 \/ i = 6 \/ i = 7 \/ i = 8 \/ i = 9
        \/ i = 10 \/ i = 11 \/ i = 12 \/ i = 13 \/ i = 14 \/ i = 15
    OBVIOUS
  <2>2. \/ j = 1 \/ j = 2 \/ j = 3 \/ j = 4 \/ j = 5 \/ j = 6 \/ j = 7 \/ j = 8 \/ j = 9
        \/ j = 10 \/ j = 11 \/ j = 12 \/ j = 13 \/ j = 14 \/ j = 15
    OBVIOUS
  <2> QED
    BY <1>0, <2>1, <2>2
<1>2. IndexOf(ppRecordContentType, uTotalRecordContentType, ppRecordContentType[c]) = c
  <2>1. 15 \in Nat /\ c \in 1 .. 15 /\ \A i \in 1 .. 15 : p[i] = p[c] => i = c
    BY <1>1 DEF uTotalRecordContentType
  <2>2. IndexOf(p, 15, p[c]) = c
    BY ONLY <2>1, IndexFound
  <2> QED
    BY <2>2 DEF uTotalRecordContentType, p
<1>3. ppRecordContentType[c] # NoAttr
  BY NoAttrAssumption DEF ppRecordContentType, uTotalRecordContentType
<1> QED
  BY <1>2, <1>3 DEF getRecordContentTypeFromString, uTotalRecordContentType

\* A set of numbers with zero and the successors of its members has all numbers.
LEMMA Counting ==
  ASSUME NEW S \in SUBSET Nat, 0 \in S, \A n \in S : n + 1 \in S
  PROVE  S = Nat
<1> SUFFICES ASSUME Nat \ S # {} PROVE FALSE
  OBVIOUS
<1>1. PICK n \in Nat \ S : \A m \in Nat \ S : n <= m
  BY LeastOfSet
<1>2. n - 1 \in Nat /\ n - 1 \notin Nat \ S
  BY <1>1
<1> QED
  BY <1>1, <1>2

\* What decodeIntList and decodeIP4AddrList collect, item by item.
IsKept(f, its) ==
  f = [n \in 0 .. Len(its) |-> IF n = 0 THEN << >>
                               ELSE IF its[n] = << >> THEN f[n - 1]
                               ELSE Append(f[n - 1], its[n])]
IsBytes(f, its, text) ==
  f = [n \in 0 .. Len(its) |-> IF n = 0 THEN << >> ELSE f[n - 1] \o Dotted(text, its[n])]

\* An item more.
LEMMA OneMoreItem ==
  ASSUME NEW S, NEW s \in Seq(S), NEW n \in 1 .. Len(s)
  PROVE  Append(SubSeq(s, 1, n - 1), s[n]) = SubSeq(s, 1, n)
<1>1. SubSeq(s, 1, n) = SubSeq(s, 1, n - 1) \o << s[n] >>
  <2>1. 1 \in 1 .. Len(s) /\ n \in 1 .. Len(s)
    OBVIOUS
  <2> QED
    BY <2>1, SubSeqRecursiveSecond
<1>2. SubSeq(s, 1, n - 1) \in Seq(S)
  OBVIOUS
<1> QED
  BY <1>1, <1>2

\* A list of items of which none is blank has all of them (decodeIntList,
\* decodeIP4AddrList).
LEMMA KeptAll ==
  ASSUME NEW S, NEW its \in Seq(S), \A i \in 1 .. Len(its) : its[i] # << >>,
         NEW f, IsKept(f, its)
  PROVE  f[Len(its)] = its
<1> DEFINE L == Len(its)
           G == {n \in Nat : n <= L => f[n] = SubSeq(its, 1, n)}
<1>1. L \in Nat /\ SubSeq(its, 1, 0) = << >> /\ SubSeq(its, 1, L) = its
  BY SubSeqFull
<1>2. /\ f[0] = << >>
      /\ \A n \in 1 .. L : f[n] = Append(f[n - 1], its[n])
  <2>1. \A n \in 0 .. L : f[n] = IF n = 0 THEN << >>
                                 ELSE IF its[n] = << >> THEN f[n - 1]
                                 ELSE Append(f[n - 1], its[n])
    BY DEF IsKept
  <2>2. \A n \in 1 .. L : n \in 0 .. L /\ n # 0
    BY <1>1
  <2>3. 0 \in 0 .. L
    BY <1>1
  <2> QED
    BY <2>1, <2>2, <2>3
<1>3. 0 \in G
  BY <1>1, <1>2
<1>4. ASSUME NEW n \in G PROVE n + 1 \in G
  <2>1. n \in Nat /\ (n + 1) - 1 = n /\ n + 1 \in Nat
    OBVIOUS
  <2>2. ASSUME n + 1 <= L PROVE f[n + 1] = SubSeq(its, 1, n + 1)
    <3>1. n + 1 \in 1 .. L /\ f[n] = SubSeq(its, 1, n)
      BY <1>1, <2>1, <2>2
    <3>2. f[n + 1] = Append(f[n], its[n + 1])
      BY <1>2, <2>1, <3>1
    <3>3. Append(SubSeq(its, 1, n), its[n + 1]) = SubSeq(its, 1, n + 1)
      BY <2>1, <3>1, OneMoreItem
    <3> QED
      BY <3>1, <3>2, <3>3
  <2>3. n + 1 <= L => f[n + 1] = SubSeq(its, 1, n + 1)
    BY <2>2
  <2> QED
    BY <2>1, <2>3
<1>5. G = Nat
  BY <1>3, <1>4, Counting
<1> QED
  BY <1>1, <1>5

\* There is such a list.
LEMMA KeptIs ==
  ASSUME NEW S, NEW its \in Seq(S), \A i \in 1 .. Len(its) : its[i] # << >>
  PROVE  \E f : IsKept(f, its)
<1> DEFINE F == [n \in 0 .. Len(its) |-> SubSeq(its, 1, n)]
<1>1. Len(its) \in Nat /\ F[0] = << >>
  OBVIOUS
<1>2. \A n \in 1 .. Len(its) : F[n] = Append(F[n - 1], its[n])
  BY <1>1, OneMoreItem
<1>3. F = [n \in 0 .. Len(its) |-> IF n = 0 THEN << >> ELSE F[n]]
  BY <1>1
<1>4. \A n \in 0 .. Len(its) : F[n] = IF n = 0 THEN << >>
                                      ELSE IF its[n] = << >> THEN F[n - 1]
                                      ELSE Append(F[n - 1], its[n])
  BY <1>1, <1>2
<1>5. F = [n \in 0 .. Len(its) |-> F[n]]
  OBVIOUS
<1> HIDE DEF F
<1>6. IsKept(F, its)
  BY <1>4, <1>5 DEF IsKept
<1> QED
  BY <1>6

\* So what is not blank is all there.
LEMMA NoneBlank ==
  ASSUME NEW text, NEW S, text.items \in Seq(S),
         \A i \in 1 .. Len(text.items) : text.items[i] # << >>
  PROVE  Items(text) = text.items
<1>1. Items(text) = (CHOOSE f : IsKept(f, text.items))[Len(text.items)]
  BY DEF Items, IsKept
<1>2. IsKept(CHOOSE f : IsKept(f, text.items), text.items)
  BY KeptIs
<1> QED
  BY <1>1, <1>2, KeptAll

\* The items of the text are the bytes of data, four by four.
ByFour(data, its, text, K) ==
  Len(data) = 4 * K /\ \A i \in 1 .. K : Dotted(text, its[i]) = SubSeq(data, 4 * i - 3, 4 * i)

\* The bytes of four by four.
LEMMA FourMore ==
  ASSUME NEW data \in Seq(Byte), NEW its, NEW text, NEW K \in Nat, ByFour(data, its, text, K),
         NEW n \in 1 .. K
  PROVE  SubSeq(data, 1, 4 * n) = SubSeq(data, 1, 4 * (n - 1)) \o Dotted(text, its[n])
<1> DEFINE k == 4 * (n - 1)
           m == 4 * n
<1>1. 1 \in 1 .. Len(data) + 1 /\ k \in 1 - 1 .. Len(data) /\ m \in k .. Len(data)
      /\ m - 3 = k + 1
  BY DEF ByFour
<1>2. Dotted(text, its[n]) = SubSeq(data, m - 3, m)
  BY DEF ByFour
<1> HIDE DEF k, m
<1>3. SubSeq(data, 1, k) \o SubSeq(data, k + 1, m) = SubSeq(data, 1, m)
  BY <1>1, ConcatAdjacentSubSeq
<1>4. SubSeq(data, 1, m) = SubSeq(data, 1, k) \o Dotted(text, its[n])
  BY <1>1, <1>2, <1>3
<1> QED
  BY <1>4 DEF k, m

\* All the bytes are collected.
LEMMA BytesAll ==
  ASSUME NEW data \in Seq(Byte), NEW its, NEW text, NEW K \in Nat,
         Len(its) = K, ByFour(data, its, text, K),
         NEW f, IsBytes(f, its, text)
  PROVE  f[K] = data
<1> DEFINE part(n) == SubSeq(data, 1, 4 * n)
           G == {n \in Nat : n <= K => f[n] = part(n)}
<1>1. part(0) = << >> /\ part(K) = data
  BY SubSeqFull DEF ByFour
<1>2. /\ f[0] = << >>
      /\ \A n \in 1 .. K : f[n] = f[n - 1] \o Dotted(text, its[n])
  <2>1. \A n \in 0 .. K : f[n] = IF n = 0 THEN << >> ELSE f[n - 1] \o Dotted(text, its[n])
    BY DEF IsBytes
  <2>2. 0 \in 0 .. K /\ \A n \in 1 .. K : n \in 0 .. K /\ n # 0
    OBVIOUS
  <2> QED
    BY <2>1, <2>2
<1>3. \A n \in 1 .. K : part(n) = part(n - 1) \o Dotted(text, its[n])
  BY FourMore
<1> HIDE DEF part
<1>4. 0 \in G
  BY <1>1, <1>2
<1>5. ASSUME NEW n \in G PROVE n + 1 \in G
  <2>1. n \in Nat /\ (n + 1) - 1 = n /\ n + 1 \in Nat
    OBVIOUS
  <2>2. ASSUME n + 1 <= K PROVE f[n + 1] = part(n + 1)
    <3>1. n + 1 \in 1 .. K /\ f[n] = part(n)
      BY <2>1, <2>2
    <3> QED
      BY <1>2, <1>3, <2>1, <3>1
  <2>3. n + 1 <= K => f[n + 1] = part(n + 1)
    BY <2>2
  <2> QED
    BY <2>1, <2>3
<1>6. G = Nat
  BY <1>4, <1>5, Counting
<1> QED
  BY <1>1, <1>6

\* They can be collected.
LEMMA BytesIs ==
  ASSUME NEW data \in Seq(Byte), NEW its, NEW text, NEW K \in Nat,
         Len(its) = K, ByFour(data, its, text, K)
  PROVE  \E f : IsBytes(f, its, text)
<1> DEFINE part(n) == SubSeq(data, 1, 4 * n)
           F == [n \in 0 .. K |-> part(n)]
<1>1. part(0) = << >>
  OBVIOUS
<1>2. \A n \in 1 .. K : part(n) = part(n - 1) \o Dotted(text, its[n])
  BY FourMore
<1> HIDE DEF part
<1>3. \A n \in 0 .. K : F[n] = IF n = 0 THEN << >> ELSE F[n - 1] \o Dotted(text, its[n])
  <2>1. \A n \in 0 .. K : n = 0 \/ (n \in 1 .. K /\ n - 1 \in 0 .. K)
    OBVIOUS
  <2> QED
    BY <1>1, <1>2, <2>1
<1>4. F = [n \in 0 .. Len(its) |-> F[n]]
  OBVIOUS
<1> HIDE DEF F
<1>5. IsBytes(F, its, text)
  BY <1>3, <1>4 DEF IsBytes
<1> QED
  BY <1>5

\* The addresses of a list are read back byte by byte.
LEMMA AddressesBack ==
  ASSUME NEW data \in Seq(Byte), data # << >>, Len(data) % 4 = 0
  PROVE  /\ writeIP4AddrList(data) # NoText
         /\ decodeIP4AddrList(writeIP4AddrList(data)) = data
<1> DEFINE K == Len(data) \div 4
           A(i) == SubSeq(data, 4 * i - 3, 4 * i)
           its == [i \in 1 .. K |-> A(i)]
           text == Text(".", its)
<1>1. K \in Nat \ {0} /\ Len(data) = 4 * K /\ Len(data) \in Nat
  OBVIOUS
<1>2. /\ writeIP4AddrList(data) = text
      /\ text.items = its /\ text.sep = "."
  BY <1>1 DEF writeIP4AddrList, Text
<1>3. text # NoText
  BY <1>1, <1>2 DEF NoText, Text
<1>4. \A i \in 1 .. K : /\ A(i) \in Seq(Byte) /\ Len(A(i)) = 4
                        /\ \A j \in 1 .. 4 : A(i)[j] \in Byte
  <2> SUFFICES ASSUME NEW i \in 1 .. K
               PROVE  /\ A(i) \in Seq(Byte) /\ Len(A(i)) = 4
                      /\ \A j \in 1 .. 4 : A(i)[j] \in Byte
    OBVIOUS
  <2>1. 4 * i - 3 \in 1 .. Len(data) /\ 4 * i \in 1 .. Len(data) /\ 4 * i - 3 <= 4 * i
        /\ 4 * i - 3 \in Int /\ 4 * i \in Int /\ 4 * i - (4 * i - 3) + 1 = 4
    BY <1>1
  <2>2. \A j \in 4 * i - 3 .. 4 * i : data[j] \in Byte
    BY <1>1, <2>1
  <2>3. A(i) \in Seq(Byte) /\ Len(A(i)) = 4
    BY <2>1, <2>2, SubSeqProperties
  <2> QED
    BY <2>3
<1> HIDE DEF K, A
<1>5. its \in Seq(Seq(Byte)) /\ Len(its) = K /\ \A i \in 1 .. K : its[i] = A(i)
  BY <1>1, <1>4
<1> HIDE DEF its
<1>6. Items(text) = its
  <2>1. \A i \in 1 .. Len(its) : its[i] # << >>
    BY <1>4, <1>5
  <2> QED
    BY <1>2, <1>5, <2>1, NoneBlank
<1>7. \A i \in 1 .. K : Dotted(text, its[i]) = A(i) /\ decodeIpAddr(Dotted(text, its[i]))
  BY <1>2, <1>4, <1>5 DEF Dotted, decodeIpAddr
<1> HIDE DEF text
<1>8. decodeIP4AddrList(text) = (CHOOSE f : IsBytes(f, its, text))[K]
  <2>1. decodeIP4AddrList(text) =
          IF \A i \in DOMAIN Items(text) : decodeIpAddr(Dotted(text, Items(text)[i]))
          THEN (CHOOSE f : IsBytes(f, Items(text), text))[Len(Items(text))] ELSE << >>
    BY DEF decodeIP4AddrList, IsBytes
  <2>2. DOMAIN its = 1 .. K
    BY <1>5
  <2> QED
    BY <1>5, <1>6, <1>7, <2>1, <2>2
<1>9. ByFour(data, its, text, K)
  BY <1>1, <1>7 DEF A, ByFour
<1>10. IsBytes(CHOOSE f : IsBytes(f, its, text), its, text)
  BY <1>1, <1>5, <1>9, BytesIs
<1>11. (CHOOSE f : IsBytes(f, its, text))[K] = data
  <2> DEFINE g == CHOOSE f : IsBytes(f, its, text)
  <2>1. IsBytes(g, its, text)
    BY <1>10
  <2> HIDE DEF g
  <2>2. g[K] = data
    BY <1>1, <1>5, <1>9, <2>1, BytesAll
  <2> QED
    BY <2>2 DEF g
<1> QED
  BY <1>2, <1>3, <1>8, <1>11

\* A function from the numbers up to n is a sequence of that length.
LEMMA FunctionIsSequence ==
  ASSUME NEW S, NEW n \in Nat, NEW f \in [1 .. n -> S]
  PROVE  f \in Seq(S) /\ Len(f) = n
<1>1. f \in Seq(S)
  BY SeqDef
<1>2. Len(f) \in Nat /\ DOMAIN f = 1 .. Len(f) /\ DOMAIN f = 1 .. n
  BY <1>1
<1> QED
  BY <1>1, <1>2

\* A text with an item is not the empty one.
LEMMA TextIsThere ==
  \A sep, items : /\ items # << >> => Text(sep, items) # NoText
                  /\ Text(sep, items).items = items /\ Text(sep, items).sep = sep
BY DEF Text, NoText

\* A string is read back, also an empty one.
LEMMA DataBack ==
  ASSUME NEW data \in Data
  PROVE  LoadData(PlainText(data)) = {Added(data)}
<1>1. CASE data = << >>
  BY <1>1 DEF LoadData, PlainText
<1>2. CASE data # << >>
  <2>1. PlainText(data) # NoText /\ PlainText(data).items = <<data>>
    BY <1>2, TextIsThere DEF PlainText
  <2> QED
    BY <2>1 DEF LoadData
<1> QED
  BY <1>1, <1>2

\* A word is read back.
LEMMA WordBack ==
  ASSUME NEW data \in [1 .. 1 -> Nat]
  PROVE  LoadWord(PlainText(data)) = {Added(data)}
<1>1. data \in Seq(Nat) /\ Len(data) = 1
  BY FunctionIsSequence
<1>2. PlainText(data) # NoText /\ PlainText(data).items = <<data>>
  <2>1. data # << >>
    BY <1>1
  <2> QED
    BY <2>1, TextIsThere DEF PlainText
<1>3. data = <<data[1]>>
  BY <1>1
<1> QED
  BY <1>2, <1>3 DEF LoadWord, Atoi

\* An address whose text fits the buffer is read back.
LEMMA AddressBack ==
  ASSUME NEW data \in [1 .. 4 -> Byte], ~Unread(writeIP4Address(data))
  PROVE  LoadAddress(writeIP4Address(data)) = {Added(data)}
<1> DEFINE text == writeIP4Address(data)
<1>1. data \in Seq(Byte) /\ Len(data) = 4
  BY FunctionIsSequence
<1>2. SubSeq(data, 1, 4) = data
  BY <1>1, SubSeqFull
<1>3. text # NoText /\ text.items = <<data>> /\ text.sep = "."
  BY <1>2, TextIsThere DEF writeIP4Address
<1>4. Dotted(text, text.items[1]) = data /\ Len(text.items) = 1
  BY <1>3 DEF Dotted
<1>5. decodeIpAddr(data)
  BY <1>1 DEF decodeIpAddr
<1> HIDE DEF text
<1> QED
  BY <1>3, <1>4, <1>5 DEF LoadAddress, text

\* A time whose text fits the buffer is read back, if it is without daylight saving
\* and milliseconds; none fails.
LEMMA TimeBack ==
  ASSUME NEW data \in [1 .. 8 -> Nat], ~Unread(writeCalendar(data))
  PROVE  /\ Failure \notin LoadCalendar(writeCalendar(data))
         /\ data[7] = 0 /\ data[8] = 0 => LoadCalendar(writeCalendar(data)) = {Added(data)}
<1> DEFINE text == writeCalendar(data)
           six == SubSeq(data, 1, 6)
<1>1. data \in Seq(Nat) /\ Len(data) = 8
  BY FunctionIsSequence
<1>2. six \in Seq(Nat) /\ Len(six) = 6 /\ \A i \in 1 .. 6 : six[i] = data[i]
  BY <1>1
<1>3. text # NoText /\ text.items = <<six>>
  BY TextIsThere DEF writeCalendar
<1>4. SubSeq(six, 1, 6) = six
  BY <1>2, SubSeqFull
<1>5. decodeCalendar(text) = six \o <<0, 0>>
  BY <1>3, <1>4 DEF decodeCalendar
<1>6. data[7] = 0 /\ data[8] = 0 => six \o <<0, 0>> = data
  BY <1>1, <1>2
<1>7. ~Unread(text)
  OBVIOUS
<1> HIDE DEF text, six
<1>8. LoadCalendar(text) = {Added(six \o <<0, 0>>)}
  BY <1>5, <1>7 DEF LoadCalendar
<1> QED
  BY <1>6, <1>8 DEF text, Added, Failure

\* So is a MAC address that is not empty.
LEMMA MacBack ==
  ASSUME NEW data \in Data, ~Unread(writeMacAddress(data))
  PROVE  LoadMac(writeMacAddress(data)) = {Added(data)}
<1> DEFINE text == writeMacAddress(data)
<1>0. data # << >>
  BY DEF writeMacAddress, Unread
<1>1. text # NoText /\ text.items = <<data>> /\ text.sep = ":"
  BY <1>0, TextIsThere DEF writeMacAddress
<1>2. decodeMacAddress(text)
  BY <1>1 DEF decodeMacAddress
<1> HIDE DEF text
<1> QED
  BY <1>1, <1>2 DEF LoadMac, text

\* The loading of a list of integers never fails, and a list whose text fits the
\* buffer is read back, if none is above INT_MAX.
LEMMA IntegersBack ==
  ASSUME NEW data \in Data
  PROVE  /\ Failure \notin LoadIntList(writeIntList(data))
         /\ ~Unread(writeIntList(data)) /\ (\A i \in DOMAIN data : data[i] <= IntMax) =>
              LoadIntList(writeIntList(data)) = {Added(data)}
<1> DEFINE its == [i \in DOMAIN data |-> <<data[i]>>]
           text == Text(",", its)
<1>1. Failure \notin LoadIntList(writeIntList(data))
  BY DEF LoadIntList, Added, Failure
<1>2. ASSUME ~Unread(writeIntList(data)), \A i \in DOMAIN data : data[i] <= IntMax
      PROVE  LoadIntList(writeIntList(data)) = {Added(data)}
  <2>0. writeIntList(data) # NoText
    BY <1>2 DEF Unread
  <2>1. writeIntList(data) = text /\ data # << >>
    <3>1. writeIntList(data) = IF data = << >> \/ 4 * Len(data) > 64 THEN NoText ELSE text
      BY DEF writeIntList
    <3> HIDE DEF text
    <3> QED
      BY <2>0, <3>1, Zenon
  <2>2. its \in Seq(Seq(Nat)) /\ Len(its) = Len(data)
        /\ \A i \in 1 .. Len(its) : its[i] = <<data[i]>> /\ its[i] # << >>
    <3>1. Len(data) \in Nat /\ DOMAIN data = 1 .. Len(data)
          /\ \A i \in 1 .. Len(data) : data[i] \in Nat
      BY DEF Data
    <3>2. its \in [1 .. Len(data) -> Seq(Nat)]
      BY <3>1
    <3>3. its \in Seq(Seq(Nat)) /\ Len(its) = Len(data)
      BY <3>1, <3>2, FunctionIsSequence
    <3> QED
      BY <3>1, <3>3
  <2>3. its # << >>
    <3>1. data # << >> /\ data \in Seq(Nat)
      BY <2>1 DEF Data
    <3>2. Len(data) # 0
      BY ONLY <3>1
    <3> QED
      BY <2>2, <3>2
  <2> HIDE DEF its
  <2>4. text # NoText /\ text.items = its
    BY <2>3, TextIsThere
  <2>5. Items(text) = its
    BY <2>2, <2>4, NoneBlank
  <2> HIDE DEF text
  <2>6. ASSUME NEW saturates \in BOOLEAN
        PROVE  decodeIntList(text, saturates) = data
    <3>1. DOMAIN its = 1 .. Len(data) /\ DOMAIN data = 1 .. Len(data)
      BY <2>2 DEF Data
    <3>2. \A i \in 1 .. Len(data) : its[i][1] = data[i] /\ ~(its[i][1] > IntMax)
      <4>1. \A i \in 1 .. Len(data) : data[i] \in Nat /\ data[i] <= IntMax
        BY <1>2, <3>1 DEF Data
      <4>2. \A i \in 1 .. Len(data) : its[i][1] = data[i]
        BY <2>2
      <4> QED
        BY <4>1, <4>2, SizesAssumption
    <3>3. data = [i \in 1 .. Len(data) |-> data[i]]
      BY <3>1 DEF Data
    <3>4. decodeIntList(text, saturates) =
            [i \in 1 .. Len(data) |->
               IF saturates /\ its[i][1] > IntMax THEN IntMax ELSE its[i][1]]
      BY <2>5, <3>1 DEF decodeIntList, Atoi
    <3>5. \A i \in 1 .. Len(data) :
            (IF saturates /\ its[i][1] > IntMax THEN IntMax ELSE its[i][1]) = data[i]
      BY <3>2, Zenon
    <3> QED
      BY <3>3, <3>4, <3>5
  <2>7. {Added(decodeIntList(text, saturates)) : saturates \in BOOLEAN} = {Added(data)}
    BY <2>6
  <2> QED
    BY <1>2, <2>1, <2>7 DEF LoadIntList
<1> QED
  BY <1>1, <1>2

\* A list of addresses whose text fits the buffer is read back.
LEMMA AddressListBack ==
  ASSUME NEW data \in Seq(Byte), ~Unread(writeIP4AddrList(data))
  PROVE  LoadAddressList(writeIP4AddrList(data)) = {Added(data)}
<1>1. data # << >> /\ Len(data) % 4 = 0
  BY DEF Unread, writeIP4AddrList
<1> QED
  BY <1>1, AddressesBack DEF LoadAddressList

-----------------------------------------------------------------------------
(* The elements of records, loaded.                                        *)

\* What loadRecordFromXML does with an element that has a name and a known type.
Outcomes(type, ctype, text) ==
  CASE type \in {"sint", "uint", "hcxt", "enum"} ->
         IF ctype = Content.ip4Addr THEN LoadAddress(text) ELSE LoadWord(text)
    [] type = "bool" -> LoadWord(text)
    [] type = "astr" -> LoadData(text)
    [] type = "bstr" ->
         CASE ctype = Content.ip4Addr     -> LoadAddress(text)
           [] ctype = Content.calendar    -> LoadCalendar(text)
           [] ctype \in IntList           -> LoadIntList(text)
           [] ctype = Content.ip4AddrList -> LoadAddressList(text)
           [] ctype = Content.macAddr     -> LoadMac(text)
           [] OTHER                       -> LoadData(text)

\* A value that is read back as what it was, type by type.
ReadsBack(r) ==
  /\ ~Fails(r)
  /\ r.type = "bool" => r.data[1] \in {0, 1}
  /\ r.type = "bstr" =>
       /\ r.ctype \in IntList => /\ ~Unread(ValueText(r.type, r.ctype, r.data))
                                 /\ \A i \in DOMAIN r.data : r.data[i] <= IntMax
       /\ r.ctype = Content.calendar => r.data[7] = 0 /\ r.data[8] = 0

\* The element of a record has its name, its type and its content type.
LEMMA ElementOfRecord ==
  ASSUME NEW r \in RecordType
  PROVE  LET e == addRecordToXMLHandle2(r)
         IN  /\ e.tag = "Record" /\ e.name = r.name /\ e.perm = NoAttr /\ e.type # NoAttr
             /\ e.name # NoName
             /\ TypeRead(e) = r.type /\ CtypeRead(e) = r.ctype
             /\ e.text = ValueText(r.type, r.ctype, r.data)
             /\ [e EXCEPT !.perm = NoAttr] = e
             /\ loadRecordFromXML(e) =
                  Outcomes(r.type, r.ctype, ValueText(r.type, r.ctype, r.data))
<1> DEFINE c == IF r.ctype = Content.default THEN NoAttr ELSE ppRecordContentType[r.ctype]
           t == ValueText(r.type, r.ctype, r.data)
           e == addRecordToXMLHandle2(r)
<1>1. /\ r.name \in Names /\ r.ctype \in 0 .. uTotalRecordContentType
      /\ \E i \in DOMAIN ppRecordType : r.type = ppRecordType[i]
  BY DEF RecordType
<1>2. e = [tag |-> "Record", name |-> r.name, type |-> r.type, ctype |-> c, perm |-> NoAttr,
           text |-> t]
  BY DEF addRecordToXMLHandle2, Element
<1> HIDE DEF t, e
<1>3. getRecordTypeFromString(r.type) # 0 /\ r.type # NoAttr /\ r.name # NoName
  BY <1>1, TypesAreKnown, NoAttrAssumption, NoNameAssumption
<1>4. (IF c = NoAttr THEN Content.default ELSE getRecordContentTypeFromString(c)) = r.ctype
  <2>1. CASE r.ctype = 0
    BY <2>1 DEF Content
  <2>2. CASE r.ctype # 0
    <3>1. r.ctype \in 1 .. uTotalRecordContentType
      BY <1>1, <2>2 DEF uTotalRecordContentType
    <3>2. c = ppRecordContentType[r.ctype]
      BY <2>2 DEF Content
    <3> QED
      BY <3>1, <3>2, ContentNamed
  <2> QED
    BY <2>1, <2>2
<1> HIDE DEF c
<1>5. e.tag = "Record" /\ e.name = r.name /\ e.type = r.type /\ e.ctype = c /\ e.perm = NoAttr
      /\ e.text = t /\ [e EXCEPT !.perm = NoAttr] = e
  BY <1>2
<1>6. TypeRead(e) = r.type /\ CtypeRead(e) = r.ctype
  BY <1>3, <1>4, <1>5 DEF TypeRead, CtypeRead
<1>7. loadRecordFromXML(e) = Outcomes(r.type, r.ctype, t)
  <2>1. ~(e.name = NoName \/ getRecordTypeFromString(TypeRead(e)) = 0)
    BY <1>3, <1>5, <1>6
  <2> QED
    BY <1>5, <1>6, <2>1, Zenon DEF loadRecordFromXML, Outcomes
<1> QED
  BY <1>3, <1>5, <1>6, <1>7 DEF e, t

\* The kinds of value.
LEMMA ValueKinds ==
  ASSUME NEW r \in RecordType
  PROVE  /\ r.type \in {"sint", "uint", "bool", "astr", "bstr", "hcxt", "enum"}
         /\ r.data \in Data
         /\ r.type \in {"sint", "uint", "hcxt", "bstr"} /\ r.ctype = Content.ip4Addr =>
              r.data \in [1 .. 4 -> Byte]
         /\ r.type = "bstr" /\ r.ctype = Content.calendar => r.data \in [1 .. 8 -> Nat]
         /\ r.type = "bstr" /\ r.ctype = Content.ip4AddrList => r.data \in Seq(Byte)
         /\ r.type = "bool" \/ (r.type \in {"sint", "uint", "hcxt"} /\ r.ctype # Content.ip4Addr) =>
              r.data \in [1 .. 1 -> Nat]
<1>1. /\ \E i \in DOMAIN ppRecordType : r.type = ppRecordType[i]
      /\ r.data \in Data /\ r.data \in DataOf(r.type, r.ctype)
  BY DEF RecordType
<1>2. r.type \in {"sint", "uint", "bool", "astr", "bstr", "hcxt", "enum"}
  BY <1>1, TypesAreKnown
<1>3. /\ Content.ip4Addr = 2 /\ Content.calendar = 9 /\ Content.ip4AddrList = 4
      /\ IntList = {14, 15}
  BY DEF Content, IntList
<1> DEFINE T == r.type
           C == r.ctype
           D == r.data
<1>4. D \in Data /\ D \in DataOf(T, C)
  BY <1>1
<1> HIDE DEF T, C, D
<1>5. T \in {"sint", "uint", "hcxt", "bstr"} /\ C = Content.ip4Addr => D \in [1 .. 4 -> Byte]
  BY <1>3, <1>4 DEF DataOf
<1>6. T = "bstr" /\ C = Content.calendar => D \in [1 .. 8 -> Nat]
  <2>1. T = "bstr" /\ C = Content.calendar => D \in [1 .. 8 -> Short]
    BY <1>3, <1>4 DEF DataOf
  <2>2. Short \subseteq Nat
    BY DEF Short
  <2>3. ASSUME NEW f \in [1 .. 8 -> Short] PROVE f \in [1 .. 8 -> Nat]
    BY <2>2
  <2> QED
    BY <2>1, <2>3
<1>7. T = "bstr" /\ C = Content.ip4AddrList => D \in Seq(Byte)
  BY <1>3, <1>4 DEF DataOf
<1>8. T = "bool" \/ (T \in {"sint", "uint", "hcxt"} /\ C # Content.ip4Addr) =>
        D \in [1 .. 1 -> Nat]
  <2>1. Word \subseteq Nat
    BY SizesAssumption DEF Word
  <2> QED
    BY <1>3, <1>4, <2>1 DEF DataOf
<1> QED
  BY <1>2, <1>4, <1>5, <1>6, <1>7, <1>8 DEF T, C, D

\* Only values that cannot be read can fail, and those that ReadsBack are what they were.
LEMMA ValuesBack ==
  ASSUME NEW r \in RecordType
  PROVE  LET got == Outcomes(r.type, r.ctype, ValueText(r.type, r.ctype, r.data))
         IN  /\ Failure \in got => Fails(r)
             /\ ReadsBack(r) => got = {Added(r.data)}
<1> DEFINE T == r.type
           C == r.ctype
           D == r.data
           got == Outcomes(T, C, ValueText(T, C, D))
<1>1. /\ T \in {"sint", "uint", "bool", "astr", "bstr", "hcxt", "enum"} /\ D \in Data
      /\ T \in {"sint", "uint", "hcxt", "bstr"} /\ C = Content.ip4Addr => D \in [1 .. 4 -> Byte]
      /\ T = "bstr" /\ C = Content.calendar => D \in [1 .. 8 -> Nat]
      /\ T = "bstr" /\ C = Content.ip4AddrList => D \in Seq(Byte)
      /\ T = "bool" \/ (T \in {"sint", "uint", "hcxt"} /\ C # Content.ip4Addr) =>
           D \in [1 .. 1 -> Nat]
  BY ValueKinds
<1>2. /\ Content.ip4Addr = 2 /\ Content.calendar = 9 /\ Content.ip4AddrList = 4
      /\ Content.macAddr = 3 /\ IntList = {14, 15}
  BY DEF Content, IntList
<1> DEFINE V == ValueText(T, C, D)
<1>3. /\ Fails(r) <=>
           \/ T = "enum"
           \/ /\ \/ T \in {"sint", "uint", "hcxt", "bstr"} /\ C = Content.ip4Addr
                 \/ T = "bstr" /\ C \in {Content.calendar, Content.ip4AddrList, Content.macAddr}
              /\ Unread(V)
      /\ ReadsBack(r) <=>
           /\ ~Fails(r) /\ (T = "bool" => D[1] \in {0, 1})
           /\ T = "bstr" => /\ C \in IntList => /\ ~Unread(V)
                                                /\ \A i \in DOMAIN D : D[i] <= IntMax
                            /\ C = Content.calendar => D[7] = 0 /\ D[8] = 0
  BY Zenon DEF Fails, ReadsBack
<1>4. \A data : Failure \notin {Added(data)}
  BY DEF Failure, Added
<1>0. got = Outcomes(T, C, V)
  OBVIOUS
<1> HIDE DEF T, C, D
<1> SUFFICES (Failure \in got => Fails(r)) /\ (ReadsBack(r) => got = {Added(D)})
  BY DEF T, C, D
<1> HIDE DEF got, V
<1>5. CASE T = "enum"
  BY <1>3, <1>5
<1>6. CASE T \in {"sint", "uint", "hcxt"} /\ C # Content.ip4Addr
  <2>1. got = LoadWord(PlainText(D))
    BY <1>0, <1>6 DEF V, Outcomes, ValueText
  <2>2. got = {Added(D)}
    BY <1>1, <1>6, <2>1, WordBack
  <2> QED
    BY <1>4, <2>2
<1>7. CASE T \in {"sint", "uint", "hcxt", "bstr"} /\ C = Content.ip4Addr
  <2>1. V = writeIP4Address(D) /\ got = LoadAddress(V)
    BY <1>0, <1>2, <1>7 DEF V, Outcomes, ValueText
  <2>2. ~Unread(V) => got = {Added(D)}
    BY <1>1, <1>7, <2>1, AddressBack
  <2> QED
    BY <1>3, <1>4, <1>7, <2>2
<1>8. CASE T = "astr"
  <2>1. got = LoadData(PlainText(D))
    BY <1>0, <1>8 DEF V, Outcomes, ValueText
  <2>2. got = {Added(D)}
    BY <1>1, <2>1, DataBack
  <2> QED
    BY <1>4, <2>2
<1>9. CASE T = "bstr" /\ C = Content.calendar
  <2>1. V = writeCalendar(D) /\ got = LoadCalendar(V)
    BY <1>0, <1>2, <1>9 DEF V, Outcomes, ValueText
  <2> QED
    BY <1>1, <1>3, <1>9, <2>1, TimeBack
<1>10. CASE T = "bstr" /\ C \in IntList
  <2>1. V = writeIntList(D) /\ got = LoadIntList(V)
    BY <1>0, <1>2, <1>10 DEF V, Outcomes, ValueText
  <2> QED
    BY <1>1, <1>3, <1>10, <2>1, IntegersBack
<1>11. CASE T = "bstr" /\ C = Content.ip4AddrList
  <2>1. V = writeIP4AddrList(D) /\ got = LoadAddressList(V)
    BY <1>0, <1>2, <1>11 DEF V, Outcomes, ValueText
  <2> QED
    BY <1>1, <1>3, <1>4, <1>11, <2>1, AddressListBack
<1>12. CASE T = "bstr" /\ C = Content.macAddr
  <2>1. V = writeMacAddress(D) /\ got = LoadMac(V)
    BY <1>0, <1>2, <1>12 DEF V, Outcomes, ValueText
  <2> QED
    BY <1>1, <1>3, <1>4, <1>12, <2>1, MacBack
<1>13. CASE /\ T = "bstr" /\ C \notin IntList
            /\ C \notin {Content.ip4Addr, Content.calendar, Content.ip4AddrList, Content.macAddr}
  <2>1. got = LoadData(PlainText(D))
    BY <1>0, <1>13 DEF V, Outcomes, ValueText
  <2>2. got = {Added(D)}
    BY <1>1, <2>1, DataBack
  <2> QED
    BY <1>4, <2>2
<1>14. CASE T = "bool"
  <2> DEFINE W == <<IF D[1] = 0 THEN 0 ELSE 1>>
  <2>1. got = LoadWord(PlainText(W))
    BY <1>0, <1>14 DEF V, Outcomes, ValueText
  <2>2. W \in [1 .. 1 -> Nat]
    OBVIOUS
  <2>3. D[1] \in {0, 1} => W = D
    BY <1>1, <1>14
  <2> HIDE DEF W
  <2>4. got = {Added(W)}
    BY <2>1, <2>2, WordBack
  <2> QED
    BY <1>3, <1>4, <1>14, <2>3, <2>4
<1> QED
  BY <1>1, <1>5, <1>6, <1>7, <1>8, <1>9, <1>10, <1>11, <1>12, <1>13, <1>14

-----------------------------------------------------------------------------
(* The outline of a file: its folders, and its records in them.            *)

\* What a file can have in it.
AnyElement == FileElements \cup {FolderElement(f) : f \in FolderType} \cup {FolderEnd}

\* An element leads from a folder to a folder, of which k were begun before it.
Goes(fs, e, k, c, k1, c1) ==
  /\ e.tag = "Folder" => /\ k1 = k + 1 /\ k1 \in 1 .. Len(fs)
                         /\ e = FolderElement(fs[k1]) /\ c1 = fs[k1].name
  /\ e.tag = "/Folder" => k1 = k /\ c1 = Root
  /\ e.tag \notin {"Folder", "/Folder"} => k1 = k /\ c1 = c

\* The number of folders begun, and the folder, after each element of a file.
IsOutline(E, fs, l) ==
  /\ l.k \in [0 .. Len(E) -> Nat]
  /\ l.k[0] = 0 /\ l.cur[0] = Root
  /\ \A i \in 1 .. Len(E) : Goes(fs, E[i], l.k[i - 1], l.cur[i - 1], l.k[i], l.cur[i])

\* A record with its folder, as in In.
With(r, c) == [name |-> r.name, folder |-> c, type |-> r.type, ctype |-> r.ctype,
               data |-> r.data]

\* The records of a file are those of X, each at one place.
IsElementOf(e, r) == r \in RecordType /\ e = addRecordToXMLHandle2(r)
Recorded(E, l, X) ==
  /\ \A i \in 1 .. Len(E) : E[i].tag = "Record" =>
       \E r : IsElementOf(E[i], r) /\ With(r, l.cur[i]) \in X
  /\ \A x \in X : \E i \in 1 .. Len(E) : \E r : IsElementOf(E[i], r) /\ x = With(r, l.cur[i])
  /\ \A i, j \in 1 .. Len(E) :
       E[i].tag = "Record" /\ E[j].tag = "Record" /\ E[i].name = E[j].name
         /\ l.cur[i] = l.cur[j] => i = j

\* The outline of a longer file.
Grown(E, T, l, k, c) ==
  [k   |-> [i \in 0 .. Len(E) + Len(T) |-> IF i <= Len(E) THEN l.k[i] ELSE k],
   cur |-> [i \in 0 .. Len(E) + Len(T) |-> IF i <= Len(E) THEN l.cur[i] ELSE c]]

\* What a longer sequence has where.
LEMMA Joined ==
  ASSUME NEW S, NEW s \in Seq(S), NEW t \in Seq(S)
  PROVE  /\ s \o t \in Seq(S) /\ Len(s \o t) = Len(s) + Len(t)
         /\ Len(s) \in Nat /\ Len(t) \in Nat
         /\ \A i \in 1 .. Len(s) : (s \o t)[i] = s[i]
         /\ \A i \in 1 .. Len(t) : (s \o t)[Len(s) + i] = t[i]
         /\ \A i \in 1 .. Len(s) + Len(t) :
              i \in 1 .. Len(s) \/ (i > Len(s) /\ i - Len(s) \in 1 .. Len(t)
                                    /\ (s \o t)[i] = t[i - Len(s)])
OBVIOUS

\* What the outline of a longer file has where.
LEMMA GrownIs ==
  ASSUME NEW E \in Seq(AnyElement), NEW T \in Seq(AnyElement), NEW l, NEW k, NEW c
  PROVE  /\ \A i \in 0 .. Len(E) : /\ Grown(E, T, l, k, c).k[i] = l.k[i]
                                   /\ Grown(E, T, l, k, c).cur[i] = l.cur[i]
         /\ \A i \in Len(E) + 1 .. Len(E) + Len(T) : /\ Grown(E, T, l, k, c).k[i] = k
                                                     /\ Grown(E, T, l, k, c).cur[i] = c
<1>1. Len(E) \in Nat /\ Len(T) \in Nat
  OBVIOUS
<1>2. /\ Grown(E, T, l, k, c).k =
           [i \in 0 .. Len(E) + Len(T) |-> IF i <= Len(E) THEN l.k[i] ELSE k]
      /\ Grown(E, T, l, k, c).cur =
           [i \in 0 .. Len(E) + Len(T) |-> IF i <= Len(E) THEN l.cur[i] ELSE c]
  BY DEF Grown
<1>3. \A i \in 0 .. Len(E) : i \in 0 .. Len(E) + Len(T) /\ i <= Len(E)
  BY <1>1
<1>4. \A i \in Len(E) + 1 .. Len(E) + Len(T) : i \in 0 .. Len(E) + Len(T) /\ ~(i <= Len(E))
  BY <1>1
<1> QED
  BY <1>2, <1>3, <1>4

\* A file goes on in one folder.
LEMMA OutlineGrows ==
  ASSUME NEW E \in Seq(AnyElement), NEW T \in Seq(AnyElement), NEW fs, NEW l,
         IsOutline(E, fs, l), NEW k \in Nat, NEW c,
         T # << >> => Goes(fs, T[1], l.k[Len(E)], l.cur[Len(E)], k, c),
         \A i \in 2 .. Len(T) : Goes(fs, T[i], k, c, k, c)
  PROVE  IsOutline(E \o T, fs, Grown(E, T, l, k, c))
<1> DEFINE m == Grown(E, T, l, k, c)
           U == E \o T
           L == Len(E)
           M == Len(T)
<1>1. L \in Nat /\ M \in Nat /\ Len(U) = L + M
  BY Joined
<1>2. /\ \A i \in 0 .. L : m.k[i] = l.k[i] /\ m.cur[i] = l.cur[i]
      /\ \A i \in L + 1 .. L + M : m.k[i] = k /\ m.cur[i] = c
  BY GrownIs
<1>3. m.k \in [0 .. L + M -> Nat]
  <2>1. \A i \in 0 .. L + M : i <= L => i \in 0 .. L
    BY <1>1
  <2>2. \A i \in 0 .. L : l.k[i] \in Nat
    BY DEF IsOutline
  <2> QED
    BY <1>1, <2>1, <2>2 DEF Grown
<1> HIDE DEF m
<1>4. m.k[0] = 0 /\ m.cur[0] = Root
  BY <1>1, <1>2 DEF IsOutline
<1>5. ASSUME NEW i \in 1 .. L
      PROVE  Goes(fs, U[i], m.k[i - 1], m.cur[i - 1], m.k[i], m.cur[i])
  <2>1. i \in 0 .. L /\ i - 1 \in 0 .. L /\ U[i] = E[i]
    BY <1>1, Joined
  <2>2. Goes(fs, E[i], l.k[i - 1], l.cur[i - 1], l.k[i], l.cur[i])
    BY DEF IsOutline
  <2> QED
    BY <1>2, <2>1, <2>2
<1>6. ASSUME NEW i \in L + 1 .. L + M
      PROVE  Goes(fs, U[i], m.k[i - 1], m.cur[i - 1], m.k[i], m.cur[i])
  <2>1. i - L \in 1 .. M /\ U[i] = T[i - L] /\ m.k[i] = k /\ m.cur[i] = c
    BY <1>1, <1>2, Joined
  <2>2. CASE i = L + 1
    <3>1. i - L = 1 /\ i - 1 = L /\ T # << >> /\ L \in 0 .. L
      BY <1>1, <2>1, <2>2
    <3>2. Goes(fs, T[1], m.k[L], m.cur[L], k, c)
      BY <1>2, <3>1
    <3> QED
      BY <2>1, <3>1, <3>2
  <2>3. CASE i # L + 1
    <3>1. i - L \in 2 .. M /\ i - 1 \in L + 1 .. L + M
      BY <1>1, <2>3
    <3> QED
      BY <1>2, <2>1, <3>1
  <2> QED
    BY <2>2, <2>3
<1>7. \A i \in 1 .. L + M : i \in 1 .. L \/ i \in L + 1 .. L + M
  BY <1>1
<1> QED
  BY <1>1, <1>3, <1>4, <1>5, <1>6, <1>7 DEF IsOutline, m

\* More elements that are no records change nothing about the records.
LEMMA RecordedStays ==
  ASSUME NEW E \in Seq(AnyElement), NEW T \in Seq(AnyElement), NEW l, NEW X, Recorded(E, l, X),
         NEW k, NEW c, \A i \in 1 .. Len(T) : T[i].tag # "Record"
  PROVE  Recorded(E \o T, Grown(E, T, l, k, c), X)
<1> DEFINE m == Grown(E, T, l, k, c)
           U == E \o T
           L == Len(E)
           M == Len(T)
<1>1. L \in Nat /\ M \in Nat /\ Len(U) = L + M
  BY Joined
<1>2. \A i \in 1 .. L : m.cur[i] = l.cur[i] /\ U[i] = E[i] /\ i \in 1 .. Len(U)
  <2>1. \A i \in 1 .. L : i \in 0 .. L /\ i \in 1 .. L + M
    BY <1>1
  <2> QED
    BY <1>1, <2>1, GrownIs, Joined
<1>3. \A i \in 1 .. Len(U) : U[i].tag = "Record" => i \in 1 .. L
  <2>1. \A i \in 1 .. L + M : i \in 1 .. L \/ (i - L \in 1 .. M /\ U[i] = T[i - L])
    BY Joined
  <2> QED
    BY <1>1, <2>1
<1> HIDE DEF m, U
<1>4. Recorded(U, m, X)
  BY <1>2, <1>3 DEF Recorded
<1> QED
  BY <1>4 DEF m, U

\* The elements of the records of a folder.
LEMMA ElementsAre ==
  ASSUME NEW own \in Seq(RecordType)
  PROVE  /\ Elements(own) \in Seq(FileElements) /\ Len(Elements(own)) = Len(own)
         /\ \A i \in 1 .. Len(own) : /\ own[i] \in RecordType
                                     /\ Elements(own)[i] = addRecordToXMLHandle2(own[i])
                                     /\ IsElementOf(Elements(own)[i], own[i])
                                     /\ Elements(own)[i].tag = "Record"
                                     /\ Elements(own)[i].name = own[i].name
<1>1. Len(own) \in Nat /\ DOMAIN own = 1 .. Len(own)
      /\ \A i \in 1 .. Len(own) : own[i] \in RecordType
  OBVIOUS
<1>2. Elements(own) = [i \in 1 .. Len(own) |-> addRecordToXMLHandle2(own[i])]
  BY <1>1 DEF Elements
<1>3. Elements(own) \in [1 .. Len(own) -> FileElements]
  BY <1>1, <1>2 DEF FileElements
<1>4. Elements(own) \in Seq(FileElements) /\ Len(Elements(own)) = Len(own)
  BY <1>1, <1>3, FunctionIsSequence
<1>5. \A i \in 1 .. Len(own) : Elements(own)[i] = addRecordToXMLHandle2(own[i])
  BY <1>2
<1>6. \A i \in 1 .. Len(own) : IsElementOf(Elements(own)[i], own[i])
  BY <1>1, <1>5 DEF IsElementOf
<1>7. \A r : addRecordToXMLHandle2(r).tag = "Record" /\ addRecordToXMLHandle2(r).name = r.name
  BY DEF addRecordToXMLHandle2, Element
<1> QED
  BY <1>1, <1>4, <1>5, <1>6, <1>7

\* The records of a folder are added to those that were there.
LEMMA RecordedGrows ==
  ASSUME NEW E \in Seq(AnyElement), NEW own \in Seq(RecordType), NamedOnce(own), NEW l, NEW X,
         Recorded(E, l, X), NEW k, NEW c, \A x \in X : x.folder # c
  PROVE  Recorded(E \o Elements(own), Grown(E, Elements(own), l, k, c), X \cup In(c, own))
<1> DEFINE T == Elements(own)
           m == Grown(E, T, l, k, c)
           U == E \o T
           L == Len(E)
           M == Len(own)
           Y == X \cup In(c, own)
<1>1. T \in Seq(AnyElement) /\ Len(T) = M
  <2>1. FileElements \subseteq AnyElement
    BY DEF AnyElement
  <2> QED
    BY <2>1, ElementsAre
<1>2. L \in Nat /\ M \in Nat /\ Len(U) = L + M
  <2> HIDE DEF T
  <2>1. Len(U) = L + Len(T) /\ L \in Nat /\ Len(T) \in Nat
    BY <1>1, Joined
  <2> QED
    BY <1>1, <2>1
<1>3. \A i \in 1 .. L : m.cur[i] = l.cur[i] /\ U[i] = E[i] /\ i \in 1 .. Len(U)
  <2>1. \A i \in 1 .. L : i \in 0 .. L /\ i \in 1 .. L + M
    BY <1>2
  <2> QED
    BY <1>1, <1>2, <2>1, GrownIs, Joined
<1>4. \A i \in 1 .. M : /\ L + i \in 1 .. Len(U) /\ m.cur[L + i] = c
                        /\ IsElementOf(U[L + i], own[i]) /\ U[L + i].tag = "Record"
                        /\ U[L + i].name = own[i].name
  <2>1. \A i \in 1 .. M : L + i \in L + 1 .. L + M /\ L + i \in 1 .. L + M
    BY <1>2
  <2>2. \A i \in 1 .. M : U[L + i] = T[i]
    BY <1>1, Joined
  <2>3. \A i \in 1 .. M : m.cur[L + i] = c
    BY <1>1, <2>1, GrownIs
  <2> QED
    BY <1>2, <2>1, <2>2, <2>3, ElementsAre
<1>5. \A i \in 1 .. Len(U) : i \in 1 .. L \/ \E j \in 1 .. M : i = L + j
  <2>1. \A i \in 1 .. L + M : i \in 1 .. L \/ (i - L \in 1 .. M /\ i = L + (i - L))
    BY <1>2
  <2> QED
    BY <1>2, <2>1
<1>6. /\ \A i \in 1 .. M : With(own[i], c) \in Y
      /\ \A y \in Y : y \in X \/ \E i \in 1 .. M : y = With(own[i], c)
  <2>1. In(c, own) = {With(own[i], c) : i \in 1 .. M}
    <3>1. DOMAIN own = 1 .. M
      OBVIOUS
    <3>2. Range(own) = {own[i] : i \in 1 .. M}
      BY <3>1 DEF Range
    <3>3. In(c, own) = {With(r, c) : r \in Range(own)}
      BY DEF In, With
    <3> QED
      BY <3>2, <3>3
  <2> QED
    BY <2>1
<1>7. \A i \in 1 .. L : E[i].tag = "Record" => l.cur[i] # c
  <2>1. \A i \in 1 .. L : E[i].tag = "Record" => \E r : With(r, l.cur[i]) \in X
    BY DEF Recorded
  <2>2. \A r, d : With(r, d).folder = d
    BY DEF With
  <2> QED
    BY <2>1, <2>2
<1>8. \A i, j \in 1 .. M : own[i].name = own[j].name => i = j
  BY DEF NamedOnce
<1> HIDE DEF m, U, Y, T
<1>9. \A i \in 1 .. Len(U) : U[i].tag = "Record" =>
        \E r : IsElementOf(U[i], r) /\ With(r, m.cur[i]) \in Y
  <2> SUFFICES ASSUME NEW i \in 1 .. Len(U), U[i].tag = "Record"
               PROVE  \E r : IsElementOf(U[i], r) /\ With(r, m.cur[i]) \in Y
    OBVIOUS
  <2>1. CASE i \in 1 .. L
    <3>1. PICK r : IsElementOf(E[i], r) /\ With(r, l.cur[i]) \in X
      BY <1>3, <2>1 DEF Recorded
    <3> QED
      BY <1>3, <2>1, <3>1 DEF Y
  <2>2. CASE \E j \in 1 .. M : i = L + j
    BY <1>4, <1>6, <2>2
  <2> QED
    BY <1>5, <2>1, <2>2
<1>10. \A y \in Y : \E i \in 1 .. Len(U) : \E r : IsElementOf(U[i], r) /\ y = With(r, m.cur[i])
  <2> SUFFICES ASSUME NEW y \in Y
               PROVE  \E i \in 1 .. Len(U) : \E r : IsElementOf(U[i], r) /\ y = With(r, m.cur[i])
    OBVIOUS
  <2>1. CASE y \in X
    <3>1. PICK i \in 1 .. L : \E r : IsElementOf(E[i], r) /\ y = With(r, l.cur[i])
      BY <2>1 DEF Recorded
    <3> QED
      BY <1>3, <3>1
  <2>2. CASE \E i \in 1 .. M : y = With(own[i], c)
    <3>1. PICK i \in 1 .. M : y = With(own[i], c)
      BY <2>2
    <3>2. /\ L + i \in 1 .. Len(U) /\ IsElementOf(U[L + i], own[i])
          /\ y = With(own[i], m.cur[L + i])
      BY <1>4, <3>1
    <3> QED
      BY <3>2
  <2> QED
    BY <1>6, <2>1, <2>2
<1>11. ASSUME NEW i \in 1 .. Len(U), NEW j \in 1 .. Len(U), U[i].tag = "Record",
              U[j].tag = "Record", U[i].name = U[j].name, m.cur[i] = m.cur[j]
       PROVE  i = j
  <2>1. CASE i \in 1 .. L /\ j \in 1 .. L
    BY <1>3, <1>11, <2>1 DEF Recorded
  <2>2. CASE i \in 1 .. L /\ \E b \in 1 .. M : j = L + b
    BY <1>3, <1>4, <1>7, <1>11, <2>2
  <2>3. CASE j \in 1 .. L /\ \E b \in 1 .. M : i = L + b
    BY <1>3, <1>4, <1>7, <1>11, <2>3
  <2>4. CASE (\E b \in 1 .. M : i = L + b) /\ \E b \in 1 .. M : j = L + b
    BY <1>4, <1>8, <1>11, <2>4
  <2> QED
    BY <1>5, <2>1, <2>2, <2>3, <2>4
<1>12. Recorded(U, m, Y)
  BY <1>9, <1>10, <1>11 DEF Recorded
<1> QED
  BY <1>12 DEF U, m, Y, T

-----------------------------------------------------------------------------
(* The file of a repository, folder by folder.                             *)

\* What PsmSysFolderToXMLHandle writes, up to a folder.
FolderAfter(E, f) == E \o <<FolderElement(f)>> \o Elements(f.records) \o <<FolderEnd>>
IsUpTo(f, repo, N) ==
  f = [n \in 0 .. N |-> IF n = 0 THEN Elements(repo.records)
                        ELSE FolderAfter(f[n - 1], repo.folders[n])]

\* The elements of a folder are written after those of the folders before it.
LEMMA UpToGoesOn ==
  ASSUME NEW f, NEW repo, NEW N \in Nat, IsUpTo(f, repo, N)
  PROVE  /\ f[0] = Elements(repo.records)
         /\ \A n \in 1 .. N : f[n] = FolderAfter(f[n - 1], repo.folders[n])
<1>1. \A n \in 0 .. N : f[n] = IF n = 0 THEN Elements(repo.records)
                                ELSE FolderAfter(f[n - 1], repo.folders[n])
  BY DEF IsUpTo
<1>2. 0 \in 0 .. N /\ \A n \in 1 .. N : n \in 0 .. N /\ n # 0
  OBVIOUS
<1> QED
  BY <1>1, <1>2

\* The recursion of the folders has a solution.
LEMMA UpToIs ==
  ASSUME NEW repo, NEW N \in Nat
  PROVE  \E f : IsUpTo(f, repo, N)
<1> DEFINE chunk(g, n) == FolderAfter(g, repo.folders[n])
           first == Elements(repo.records)
           Is(f, M) == f = [n \in 0 .. M |-> IF n = 0 THEN first ELSE chunk(f[n - 1], n)]
           G == {M \in Nat : \E f : Is(f, M)}
<1>1. \A f, M : IsUpTo(f, repo, M) <=> Is(f, M)
  BY DEF IsUpTo
<1> HIDE DEF chunk, first
<1>2. 0 \in G
  <2> DEFINE f == [n \in 0 .. 0 |-> first]
  <2>1. \A n \in 0 .. 0 : n = 0
    OBVIOUS
  <2>2. f = [n \in 0 .. 0 |-> IF n = 0 THEN first ELSE chunk(f[n - 1], n)]
    BY <2>1
  <2> QED
    BY <2>2
<1>3. ASSUME NEW M \in G PROVE M + 1 \in G
  <2>1. M \in Nat /\ M + 1 \in Nat /\ M + 1 # 0 /\ (M + 1) - 1 = M
    OBVIOUS
  <2>2. PICK f : Is(f, M)
    OBVIOUS
  <2> DEFINE next == chunk(f[M], M + 1)
             g == [n \in 0 .. M + 1 |-> IF n = M + 1 THEN next ELSE f[n]]
  <2>3. \A n \in 0 .. M : f[n] = IF n = 0 THEN first ELSE chunk(f[n - 1], n)
    BY <2>2
  <2>4. /\ \A n \in 0 .. M : n \in 0 .. M + 1 /\ n # M + 1
        /\ \A n \in 0 .. M + 1 : n = M + 1 \/ n \in 0 .. M
        /\ \A n \in 0 .. M : n # 0 => n - 1 \in 0 .. M
        /\ M + 1 \in 0 .. M + 1 /\ M \in 0 .. M
    BY <2>1
  <2>5. g[M + 1] = next /\ \A n \in 0 .. M : g[n] = f[n]
    BY <2>4
  <2>6. g = [n \in 0 .. M + 1 |-> g[n]]
    OBVIOUS
  <2> HIDE DEF g
  <2>7. \A n \in 0 .. M + 1 : g[n] = IF n = 0 THEN first ELSE chunk(g[n - 1], n)
    <3>1. g[M + 1] = chunk(g[M], M + 1)
      BY <2>4, <2>5
    <3>2. \A n \in 0 .. M : g[n] = IF n = 0 THEN first ELSE chunk(g[n - 1], n)
      BY <2>3, <2>4, <2>5
    <3> QED
      BY <2>1, <2>4, <3>1, <3>2
  <2>8. Is(g, M + 1)
    BY <2>6, <2>7
  <2> HIDE DEF Is
  <2> QED
    BY <2>1, <2>8
<1>4. G = Nat
  <2> HIDE DEF Is
  <2>1. G \in SUBSET Nat
    OBVIOUS
  <2> HIDE DEF G
  <2> QED
    BY <1>2, <1>3, <2>1, Counting
<1> QED
  BY <1>1, <1>4

\* The file is the last of it.
LEMMA FileIsUpTo ==
  ASSUME NEW repo, Len(repo.folders) \in Nat
  PROVE  \E f : /\ IsUpTo(f, repo, Len(repo.folders))
                /\ PsmSysFolderToXMLHandle(repo) = f[Len(repo.folders)]
<1>1. PsmSysFolderToXMLHandle(repo) =
        (CHOOSE f : IsUpTo(f, repo, Len(repo.folders)))[Len(repo.folders)]
  BY DEF PsmSysFolderToXMLHandle, IsUpTo, FolderAfter
<1> QED
  BY <1>1, UpToIs

\* What is saved up to a folder: an outline, and the records with their folders.
RecordsUpTo(repo, n) ==
  In(Root, repo.records)
    \cup UNION {In(repo.folders[m].name, repo.folders[m].records) : m \in 1 .. n}
IsDrawn(E, repo, n, l) ==
  /\ IsOutline(E, repo.folders, l) /\ l.k[Len(E)] = n /\ l.cur[Len(E)] = Root
  /\ Recorded(E, l, RecordsUpTo(repo, n))
Drawn(E, repo, n) == E \in Seq(AnyElement) /\ \E l : IsDrawn(E, repo, n, l)

\* A repository has the parts that its set says.
LEMMA RepositoryIs ==
  ASSUME NEW repo \in Repositories
  PROVE  /\ repo.records \in Seq(RecordType) /\ NamedOnce(repo.records)
         /\ repo.folders \in Seq(FolderType) /\ NamedOnce(repo.folders)
         /\ repo.foreign \in Seq(ElementType) /\ Len(repo.folders) \in Nat
         /\ \A n \in 1 .. Len(repo.folders) :
              /\ repo.folders[n] \in FolderType /\ repo.folders[n].records \in Seq(RecordType)
              /\ repo.folders[n].name # Root /\ NamedOnce(repo.folders[n].records)
         /\ \A i \in 1 .. Len(repo.foreign) : repo.foreign[i].tag \notin {"Folder", "/Folder"}
<1>1. /\ repo.records \in Seq(RecordType) /\ repo.folders \in Seq(FolderType)
      /\ repo.foreign \in Seq(ElementType)
  BY RepositoriesAssumption
<1>2. /\ Len(repo.folders) \in Nat /\ DOMAIN repo.folders = 1 .. Len(repo.folders)
      /\ DOMAIN repo.foreign = 1 .. Len(repo.foreign)
      /\ \A n \in 1 .. Len(repo.folders) : repo.folders[n] \in FolderType
  BY <1>1
<1>3. \A f \in FolderType : f.records \in Seq(RecordType)
  BY DEF FolderType
<1> QED
  BY <1>1, <1>2, <1>3, RepositoryAssumption

\* What is joined has elements.
LEMMA JoinedElements ==
  \A E, T \in Seq(AnyElement) :
    E \o T \in Seq(AnyElement) /\ Len(E \o T) = Len(E) + Len(T) /\ Len(E \o T) \in Nat
OBVIOUS

\* The outline ends where the second part does.
LEMMA EndOfGrown ==
  ASSUME NEW E \in Seq(AnyElement), NEW T \in Seq(AnyElement), NEW l, NEW k, NEW c,
         T = << >> => l.k[Len(E)] = k /\ l.cur[Len(E)] = c
  PROVE  /\ Grown(E, T, l, k, c).k[Len(E \o T)] = k
         /\ Grown(E, T, l, k, c).cur[Len(E \o T)] = c
<1>1. E \o T \in Seq(AnyElement) /\ Len(E \o T) = Len(E) + Len(T)
      /\ Len(E) \in Nat /\ Len(T) \in Nat
  OBVIOUS
<1> DEFINE L == Len(E)
           M == Len(T)
           m == Grown(E, T, l, k, c)
<1>2. /\ \A i \in 0 .. L : m.k[i] = l.k[i] /\ m.cur[i] = l.cur[i]
      /\ \A i \in L + 1 .. L + M : m.k[i] = k /\ m.cur[i] = c
  BY GrownIs
<1>3. T = << >> => L + M \in 0 .. L /\ L + M = L
  BY <1>1
<1>4. T # << >> => L + M \in L + 1 .. L + M
  BY <1>1
<1> HIDE DEF m, L, M
<1>5. m.k[L + M] = k /\ m.cur[L + M] = c
  BY <1>2, <1>3, <1>4 DEF L
<1> QED
  BY <1>1, <1>5 DEF m, L, M

\* The records of the provision folder.
LEMMA DrawnFirst ==
  ASSUME NEW repo \in Repositories
  PROVE  Drawn(Elements(repo.records), repo, 0)
<1> DEFINE T == Elements(repo.records)
           E == << >>
           l == [k |-> [i \in 0 .. 0 |-> 0], cur |-> [i \in 0 .. 0 |-> Root]]
           m == Grown(E, T, l, 0, Root)
<1>1. repo.records \in Seq(RecordType) /\ NamedOnce(repo.records)
  BY RepositoryIs
<1>2. /\ T \in Seq(AnyElement) /\ Len(T) = Len(repo.records) /\ Len(T) \in Nat
      /\ \A i \in 1 .. Len(T) : T[i].tag = "Record"
  <2>1. FileElements \subseteq AnyElement
    BY DEF AnyElement
  <2> QED
    BY <1>1, <2>1, ElementsAre
<1>3. E \in Seq(AnyElement) /\ Len(E) = 0 /\ l.k[0] = 0 /\ l.cur[0] = Root
  OBVIOUS
<1>4. IsOutline(E, repo.folders, l)
  <2>1. l.k \in [0 .. 0 -> Nat]
    OBVIOUS
  <2>2. 1 .. Len(E) = {}
    BY <1>3
  <2> HIDE DEF E, l
  <2> QED
    BY <1>3, <2>1, <2>2 DEF IsOutline
<1>5. Recorded(E, l, {})
  BY DEF Recorded
<1> HIDE DEF T, E, l
<1>6. \A i \in 1 .. Len(T) : Goes(repo.folders, T[i], 0, Root, 0, Root)
  BY <1>2 DEF Goes
<1>7. IsOutline(E \o T, repo.folders, m)
  <2>1. T # << >> => Goes(repo.folders, T[1], l.k[Len(E)], l.cur[Len(E)], 0, Root)
    BY <1>2, <1>3, <1>6
  <2>2. \A i \in 2 .. Len(T) : Goes(repo.folders, T[i], 0, Root, 0, Root)
    BY <1>2, <1>6
  <2>3. 0 \in Nat
    OBVIOUS
  <2> HIDE DEF m
  <2>4. IsOutline(E \o T, repo.folders, Grown(E, T, l, 0, Root))
    BY ONLY <1>2, <1>3, <1>4, <2>1, <2>2, <2>3, OutlineGrows
  <2> QED
    BY <2>4 DEF m
<1>8. Recorded(E \o T, m, {} \cup In(Root, repo.records))
  BY <1>1, <1>3, <1>5, RecordedGrows DEF T
<1>9. E \o T = T
  BY <1>2 DEF E
<1>10. m.k[Len(T)] = 0 /\ m.cur[Len(T)] = Root
  <2>1. T = << >> => l.k[Len(E)] = 0 /\ l.cur[Len(E)] = Root
    BY <1>3
  <2>2. /\ Grown(E, T, l, 0, Root).k[Len(E \o T)] = 0
        /\ Grown(E, T, l, 0, Root).cur[Len(E \o T)] = Root
    <3>0. E \in Seq(AnyElement) /\ T \in Seq(AnyElement)
      BY <1>2, <1>3
    <3>1. Grown(E, T, l, 0, Root).k[Len(E \o T)] = 0
      BY ONLY <2>1, <3>0, EndOfGrown
    <3>2. Grown(E, T, l, 0, Root).cur[Len(E \o T)] = Root
      BY ONLY <2>1, <3>0, EndOfGrown
    <3> QED
      BY <3>1, <3>2
  <2> QED
    BY <1>9, <2>2
<1>11. RecordsUpTo(repo, 0) = {} \cup In(Root, repo.records)
  BY DEF RecordsUpTo
<1> HIDE DEF m
<1>12. IsDrawn(T, repo, 0, m)
  BY <1>7, <1>8, <1>9, <1>10, <1>11 DEF IsDrawn
<1> QED
  BY <1>2, <1>12 DEF Drawn, T

\* The next folder is drawn after those before it.
LEMMA DrawnNext ==
  ASSUME NEW repo \in Repositories, NEW n \in 1 .. Len(repo.folders), NEW E,
         Drawn(E, repo, n - 1)
  PROVE  Drawn(FolderAfter(E, repo.folders[n]), repo, n)
<1> DEFINE fs == repo.folders
           f == fs[n]
           A == <<FolderElement(f)>>
           B == Elements(f.records)
           C == <<FolderEnd>>
           E1 == E \o A
           E2 == E1 \o B
           E3 == E2 \o C
<1>1. E \in Seq(AnyElement) /\ Len(E) \in Nat
  BY DEF Drawn
<1>2. /\ n \in Nat /\ n - 1 \in Nat /\ (n - 1) + 1 = n /\ f \in FolderType
      /\ f.records \in Seq(RecordType) /\ NamedOnce(f.records) /\ f.name # Root
      /\ Len(fs) \in Nat
      /\ \A i \in 1 .. Len(fs) : fs[i].name = f.name => i = n
  <2>1. \A i, j \in 1 .. Len(fs) : fs[i].name = fs[j].name => i = j
    BY RepositoryIs DEF NamedOnce
  <2> QED
    BY <2>1, RepositoryIs
<1>3. /\ A \in Seq(AnyElement) /\ B \in Seq(AnyElement) /\ C \in Seq(AnyElement)
      /\ Len(A) = 1 /\ Len(C) = 1 /\ A # << >> /\ C # << >>
      /\ A[1] = FolderElement(f) /\ C[1] = FolderEnd
      /\ \A i \in 1 .. Len(B) : B[i].tag = "Record"
  <2>1. FileElements \subseteq AnyElement /\ FolderElement(f) \in AnyElement
        /\ FolderEnd \in AnyElement
    BY <1>2 DEF AnyElement
  <2>2. B \in Seq(AnyElement) /\ \A i \in 1 .. Len(B) : B[i].tag = "Record"
    BY <1>2, <2>1, ElementsAre
  <2> QED
    BY <2>1, <2>2
<1>4. FolderElement(f).tag = "Folder" /\ FolderEnd.tag = "/Folder"
  BY DEF FolderElement, FolderEnd
<1>5. PICK l : IsDrawn(E, repo, n - 1, l)
  BY DEF Drawn
<1> DEFINE X == RecordsUpTo(repo, n - 1)
           l1 == Grown(E, A, l, n, f.name)
           l2 == Grown(E1, B, l1, n, f.name)
           l3 == Grown(E2, C, l2, n, Root)
<1>6. IsOutline(E, fs, l) /\ l.k[Len(E)] = n - 1 /\ l.cur[Len(E)] = Root /\ Recorded(E, l, X)
  BY <1>5 DEF IsDrawn
<1>7. \A x \in X : x.folder # f.name
  <2>1. \A c, own : \A x \in In(c, own) : x.folder = c
    BY DEF In
  <2>2. \A m \in 1 .. n - 1 : m \in 1 .. Len(fs) /\ m # n
    BY <1>2
  <2>3. \A m \in 1 .. n - 1 : fs[m].name # f.name
    BY <1>2, <2>2
  <2> QED
    BY <1>2, <2>1, <2>3 DEF RecordsUpTo
<1>8. RecordsUpTo(repo, n) = X \cup In(f.name, f.records)
  <2>1. 1 .. n = 1 .. (n - 1) \cup {n}
    BY <1>2
  <2> QED
    BY <2>1 DEF RecordsUpTo
<1> HIDE DEF A, B, C, X, E1, E2, E3, l1, l2, l3
<1>9. /\ E1 \in Seq(AnyElement) /\ Len(E1) = Len(E) + 1 /\ Len(E1) \in Nat
      /\ IsOutline(E1, fs, l1) /\ Recorded(E1, l1, X)
      /\ l1.k[Len(E1)] = n /\ l1.cur[Len(E1)] = f.name
  <2>1. Goes(fs, A[1], l.k[Len(E)], l.cur[Len(E)], n, f.name)
    BY <1>2, <1>3, <1>4, <1>6 DEF Goes
  <2>2. \A i \in 2 .. Len(A) : Goes(fs, A[i], n, f.name, n, f.name)
    BY <1>3
  <2>3. IsOutline(E1, fs, l1)
    BY <1>1, <1>2, <1>3, <1>6, <2>1, <2>2, OutlineGrows DEF E1, l1
  <2>4. Recorded(E1, l1, X)
    <3>1. \A i \in 1 .. Len(A) : A[i].tag # "Record"
      BY <1>3, <1>4
    <3> QED
      BY <1>1, <1>3, <1>6, <3>1, RecordedStays DEF E1, l1
  <2>6. E \o A \in Seq(AnyElement) /\ Len(E \o A) = Len(E) + Len(A)
        /\ Len(E \o A) \in Nat
    BY <1>1, <1>3, JoinedElements, Zenon
  <2>5. /\ Grown(E, A, l, n, f.name).k[Len(E \o A)] = n
        /\ Grown(E, A, l, n, f.name).cur[Len(E \o A)] = f.name
    <3>1. A = << >> => l.k[Len(E)] = n /\ l.cur[Len(E)] = f.name
      BY <1>1, <1>3
    <3>2. E \in Seq(AnyElement) /\ A \in Seq(AnyElement)
      BY <1>1, <1>3
    <3>3. Grown(E, A, l, n, f.name).k[Len(E \o A)] = n
      BY ONLY <3>1, <3>2, EndOfGrown
    <3>4. Grown(E, A, l, n, f.name).cur[Len(E \o A)] = f.name
      BY ONLY <3>1, <3>2, EndOfGrown
    <3> QED
      BY <3>3, <3>4
  <2> QED
    BY <1>3, <2>3, <2>4, <2>5, <2>6 DEF E1, l1
<1>10. /\ E2 \in Seq(AnyElement) /\ Len(E2) = Len(E1) + Len(B) /\ Len(E2) \in Nat
       /\ IsOutline(E2, fs, l2) /\ Recorded(E2, l2, RecordsUpTo(repo, n))
       /\ l2.k[Len(E2)] = n /\ l2.cur[Len(E2)] = f.name
  <2>1. \A i \in 1 .. Len(B) : Goes(fs, B[i], n, f.name, n, f.name)
    BY <1>3 DEF Goes
  <2>2. Len(B) \in Nat
    BY <1>3
  <2>3. B # << >> => Goes(fs, B[1], l1.k[Len(E1)], l1.cur[Len(E1)], n, f.name)
    <3>1. B # << >> => 1 \in 1 .. Len(B)
      BY <1>3, <2>2
    <3> QED
      BY <1>9, <2>1, <3>1
  <2>4. \A i \in 2 .. Len(B) : Goes(fs, B[i], n, f.name, n, f.name)
    BY <2>1, <2>2
  <2>5. IsOutline(E2, fs, l2)
    BY <1>2, <1>3, <1>9, <2>3, <2>4, OutlineGrows DEF E2, l2
  <2>6. Recorded(E2, l2, RecordsUpTo(repo, n))
    <3>1. Recorded(E1 \o Elements(f.records), Grown(E1, Elements(f.records), l1, n, f.name),
                   X \cup In(f.name, f.records))
      BY <1>2, <1>7, <1>9, RecordedGrows
    <3> QED
      BY <1>8, <3>1 DEF E2, l2, B
  <2>8. E1 \o B \in Seq(AnyElement) /\ Len(E1 \o B) = Len(E1) + Len(B)
        /\ Len(E1 \o B) \in Nat
    BY <1>3, <1>9, JoinedElements, Zenon
  <2>7. /\ Grown(E1, B, l1, n, f.name).k[Len(E1 \o B)] = n
        /\ Grown(E1, B, l1, n, f.name).cur[Len(E1 \o B)] = f.name
    <3>1. B = << >> => l1.k[Len(E1)] = n /\ l1.cur[Len(E1)] = f.name
      BY <1>3, <1>9
    <3>2. E1 \in Seq(AnyElement) /\ B \in Seq(AnyElement)
      BY <1>3, <1>9
    <3>3. Grown(E1, B, l1, n, f.name).k[Len(E1 \o B)] = n
      BY ONLY <3>1, <3>2, EndOfGrown
    <3>4. Grown(E1, B, l1, n, f.name).cur[Len(E1 \o B)] = f.name
      BY ONLY <3>1, <3>2, EndOfGrown
    <3> QED
      BY <3>3, <3>4
  <2> QED
    BY <2>5, <2>6, <2>7, <2>8 DEF E2, l2
<1>11. /\ E3 \in Seq(AnyElement) /\ IsOutline(E3, fs, l3)
       /\ Recorded(E3, l3, RecordsUpTo(repo, n))
       /\ l3.k[Len(E3)] = n /\ l3.cur[Len(E3)] = Root
  <2>1. Goes(fs, C[1], l2.k[Len(E2)], l2.cur[Len(E2)], n, Root)
    BY <1>3, <1>4, <1>10 DEF Goes
  <2>2. \A i \in 2 .. Len(C) : Goes(fs, C[i], n, Root, n, Root)
    BY <1>3
  <2>3. IsOutline(E3, fs, l3)
    BY <1>2, <1>3, <1>10, <2>1, <2>2, OutlineGrows DEF E3, l3
  <2>4. Recorded(E3, l3, RecordsUpTo(repo, n))
    <3>1. \A i \in 1 .. Len(C) : C[i].tag # "Record"
      BY <1>3, <1>4
    <3> QED
      BY <1>3, <1>10, <3>1, RecordedStays DEF E3, l3
  <2>6. E2 \o C \in Seq(AnyElement) /\ Len(E2 \o C) = Len(E2) + Len(C)
        /\ Len(E2 \o C) \in Nat
    BY <1>3, <1>10, JoinedElements, Zenon
  <2>5. /\ Grown(E2, C, l2, n, Root).k[Len(E2 \o C)] = n
        /\ Grown(E2, C, l2, n, Root).cur[Len(E2 \o C)] = Root
    <3>1. C = << >> => l2.k[Len(E2)] = n /\ l2.cur[Len(E2)] = Root
      BY <1>3, <1>10
    <3>2. E2 \in Seq(AnyElement) /\ C \in Seq(AnyElement)
      BY <1>3, <1>10
    <3>3. Grown(E2, C, l2, n, Root).k[Len(E2 \o C)] = n
      BY ONLY <3>1, <3>2, EndOfGrown
    <3>4. Grown(E2, C, l2, n, Root).cur[Len(E2 \o C)] = Root
      BY ONLY <3>1, <3>2, EndOfGrown
    <3> QED
      BY <3>3, <3>4
  <2> QED
    BY <1>3, <2>3, <2>4, <2>5, <2>6 DEF E3, l3
<1>12. IsDrawn(E3, repo, n, l3)
  BY <1>11 DEF IsDrawn
<1> QED
  BY <1>11, <1>12 DEF Drawn, FolderAfter, E3, E2, E1, A, B, C

\* The file of a repository, without what was put into it by hand.
LEMMA FileDrawn ==
  ASSUME NEW repo \in Repositories
  PROVE  Drawn(PsmSysFolderToXMLHandle(repo), repo, Len(repo.folders))
<1> DEFINE N == Len(repo.folders)
<1>1. N \in Nat
  BY RepositoryIs
<1>2. PICK f : IsUpTo(f, repo, N) /\ PsmSysFolderToXMLHandle(repo) = f[N]
  BY <1>1, FileIsUpTo
<1> DEFINE G == {n \in Nat : n <= N => Drawn(f[n], repo, n)}
<1>3. 0 \in G
  BY <1>1, <1>2, DrawnFirst, UpToGoesOn
<1>4. ASSUME NEW n \in G PROVE n + 1 \in G
  <2>1. n \in Nat /\ (n + 1) - 1 = n /\ n + 1 \in Nat
    OBVIOUS
  <2>2. ASSUME n + 1 <= N PROVE Drawn(f[n + 1], repo, n + 1)
    <3>1. n + 1 \in 1 .. N /\ Drawn(f[(n + 1) - 1], repo, (n + 1) - 1)
      BY <1>1, <2>1, <2>2
    <3> DEFINE k == n + 1
    <3>0. k \in 1 .. N
      BY <3>1
    <3> HIDE DEF k, N
    <3>2. f[k] = FolderAfter(f[k - 1], repo.folders[k])
      <4>1. N \in Nat /\ IsUpTo(f, repo, N)
        BY <1>1, <1>2 DEF N
      <4> QED
        BY <3>0, <4>1, UpToGoesOn
    <3>3. k \in 1 .. N /\ Drawn(f[k - 1], repo, k - 1)
      BY <3>1 DEF k, N
    <3>4. Drawn(f[k], repo, k)
      BY <3>2, <3>3, DrawnNext DEF N
    <3> QED
      BY <3>4 DEF k
  <2> QED
    BY <2>1, <2>2
<1>5. G = Nat
  BY <1>3, <1>4, Counting
<1> QED
  BY <1>1, <1>2, <1>5

\* An outcome that is a failure is the one failure there is.
LEMMA FailureIsOne ==
  ASSUME NEW e, NEW o \in loadRecordFromXML(e), o.status = "failure"
  PROVE  o = Failure
<1> DEFINE text == e.text
           One(S) == \A x \in S : x.status = "failure" => x = Failure
<1>1. \A data : Added(data).status # "failure"
  BY DEF Added
<1>2. Skipped.status # "failure"
  BY DEF Skipped
<1>3. One(LoadWord(text)) /\ One(LoadAddress(text)) /\ One(LoadCalendar(text))
  BY <1>1, <1>2 DEF LoadWord, LoadAddress, LoadCalendar
<1>4. One(LoadIntList(text)) /\ One(LoadAddressList(text)) /\ One(LoadMac(text))
      /\ One(LoadData(text))
  BY <1>1, <1>2 DEF LoadIntList, LoadAddressList, LoadMac, LoadData
<1>5. One({Failure})
  OBVIOUS
<1> HIDE DEF text
<1> DEFINE type == TypeRead(e)
           ctype == CtypeRead(e)
<1>6. CASE e.name = NoName \/ getRecordTypeFromString(type) = 0
  <2>1. loadRecordFromXML(e) = {Failure}
    BY <1>6 DEF loadRecordFromXML
  <2> QED
    BY <2>1
<1>7. CASE ~(e.name = NoName \/ getRecordTypeFromString(type) = 0)
  <2>1. type \in {"sint", "uint", "bool", "astr", "bstr", "hcxt", "enum"}
    <3>1. \E i \in 1 .. Len(ppRecordType) : ppRecordType[i] = type
      BY <1>7 DEF getRecordTypeFromString, IndexOf
    <3>2. \A i \in 1 .. Len(ppRecordType) : i \in DOMAIN ppRecordType
      BY DEF ppRecordType
    <3> QED
      BY <3>1, <3>2, TypesAreKnown
  <2>2. loadRecordFromXML(e) = Outcomes(type, ctype, text)
    BY <1>7, Zenon DEF loadRecordFromXML, Outcomes, text
  <2> HIDE DEF type, ctype, One
  <2>3. CASE type \in {"sint", "uint", "hcxt", "enum", "bool", "astr"}
    <3>1. Outcomes(type, ctype, text) \in {LoadAddress(text), LoadWord(text), LoadData(text)}
      BY <2>3 DEF Outcomes
    <3> QED
      BY <1>3, <1>4, <2>2, <3>1 DEF One
  <2>4. CASE type = "bstr"
    <3>1. Outcomes(type, ctype, text) \in {LoadAddress(text), LoadCalendar(text), LoadIntList(text),
                                           LoadAddressList(text), LoadMac(text), LoadData(text)}
      BY <2>4 DEF Outcomes
    <3> QED
      BY <1>3, <1>4, <2>2, <3>1 DEF One
  <2> QED
    BY <2>1, <2>3, <2>4
<1> QED
  BY <1>6, <1>7

-----------------------------------------------------------------------------
(* The file as it is read back.                                            *)

\* The file is what was saved, then what was put into it by hand.
LEMMA FileIs ==
  ASSUME NEW repo \in Repositories
  PROVE  LET own == PsmSysFolderToXMLHandle(repo)
         IN  /\ own \in Seq(AnyElement) /\ FileOf(repo) \in Seq(AnyElement)
             /\ Len(own) \in Nat /\ Len(FileOf(repo)) = Len(own) + Len(repo.foreign)
             /\ Len(FileOf(repo)) \in Nat
             /\ \A i \in 1 .. Len(own) : FileOf(repo)[i] = own[i] /\ i \in 1 .. Len(FileOf(repo))
             /\ \A i \in 1 .. Len(FileOf(repo)) :
                  \/ i \in 1 .. Len(own)
                  \/ \E j \in 1 .. Len(repo.foreign) :
                       i = Len(own) + j /\ FileOf(repo)[i] = repo.foreign[j]
<1> DEFINE own == PsmSysFolderToXMLHandle(repo)
           f == repo.foreign
<1>1. own \in Seq(AnyElement)
  BY FileDrawn DEF Drawn
<1>2. f \in Seq(AnyElement)
  <2>1. ElementType \subseteq AnyElement
    BY DEF AnyElement, FileElements
  <2> QED
    BY <2>1, RepositoryIs
<1>3. FileOf(repo) = own \o f
  BY DEF FileOf
<1> HIDE DEF own, f
<1>4. \A i \in 1 .. Len(own) + Len(f) :
        i \in 1 .. Len(own)
          \/ (i - Len(own) \in 1 .. Len(f) /\ i = Len(own) + (i - Len(own))
              /\ (own \o f)[i] = f[i - Len(own)])
  BY <1>1, <1>2
<1>5. /\ own \o f \in Seq(AnyElement) /\ Len(own \o f) = Len(own) + Len(f)
      /\ Len(own) \in Nat /\ Len(own \o f) \in Nat
      /\ \A i \in 1 .. Len(own) : (own \o f)[i] = own[i] /\ i \in 1 .. Len(own) + Len(f)
  BY <1>1, <1>2
<1> QED
  BY <1>1, <1>3, <1>4, <1>5 DEF own, f

\* How a file leads from folder to folder, and where its records are.
Lays(repo, l) ==
  /\ IsOutline(FileOf(repo), repo.folders, l) /\ l.k[Len(FileOf(repo))] = Len(repo.folders)
  /\ Recorded(PsmSysFolderToXMLHandle(repo), l, RecordsOf(repo))
Lay(repo) == CHOOSE l : Lays(repo, l)

\* The records in the folders are those of the folders up to the last.
LEMMA RecordsUpToLast ==
  ASSUME NEW repo \in Repositories
  PROVE  RecordsUpTo(repo, Len(repo.folders)) = RecordsOf(repo)
<1>1. DOMAIN repo.folders = 1 .. Len(repo.folders)
  BY RepositoryIs
<1>2. Range(repo.folders) = {repo.folders[m] : m \in 1 .. Len(repo.folders)}
  BY <1>1 DEF Range
<1> QED
  BY <1>2 DEF RecordsUpTo, RecordsOf

\* Recorded looks at an outline only at the places of the file.
LEMMA RecordedSame ==
  ASSUME NEW E, NEW l, NEW m, NEW X, Recorded(E, l, X),
         \A i \in 1 .. Len(E) : m.cur[i] = l.cur[i]
  PROVE  Recorded(E, m, X)
<1>1. \A i \in 1 .. Len(E) : E[i].tag = "Record" =>
        \E r : IsElementOf(E[i], r) /\ With(r, m.cur[i]) \in X
  BY Zenon DEF Recorded
<1>2. \A x \in X : \E i \in 1 .. Len(E) : \E r : IsElementOf(E[i], r) /\ x = With(r, m.cur[i])
  <2> SUFFICES ASSUME NEW x \in X
               PROVE  \E i \in 1 .. Len(E) : \E r : IsElementOf(E[i], r) /\ x = With(r, m.cur[i])
    OBVIOUS
  <2>1. PICK i \in 1 .. Len(E) : \E r : IsElementOf(E[i], r) /\ x = With(r, l.cur[i])
    BY DEF Recorded
  <2>2. m.cur[i] = l.cur[i]
    OBVIOUS
  <2> QED
    BY <2>1, <2>2
<1>3. \A i, j \in 1 .. Len(E) :
        E[i].tag = "Record" /\ E[j].tag = "Record" /\ E[i].name = E[j].name
          /\ m.cur[i] = m.cur[j] => i = j
  BY DEF Recorded
<1> QED
  BY <1>1, <1>2, <1>3 DEF Recorded

\* The file of a repository leads through all its folders.
LEMMA FileLaid ==
  ASSUME NEW repo \in Repositories
  PROVE  Lays(repo, Lay(repo))
<1> DEFINE E == PsmSysFolderToXMLHandle(repo)
           T == repo.foreign
           n == Len(repo.folders)
<1>1. E \in Seq(AnyElement) /\ T \in Seq(AnyElement) /\ Len(T) \in Nat
      /\ \A i \in 1 .. Len(T) : T[i].tag \notin {"Folder", "/Folder"}
  <2>1. ElementType \subseteq AnyElement
    BY DEF AnyElement, FileElements
  <2> QED
    BY <2>1, FileIs, RepositoryIs
<1>2. PICK l : IsDrawn(E, repo, n, l)
  BY FileDrawn DEF Drawn
<1> DEFINE m == Grown(E, T, l, n, Root)
<1> HIDE DEF E, T, n
<1>3. /\ IsOutline(E, repo.folders, l) /\ l.k[Len(E)] = n /\ l.cur[Len(E)] = Root
      /\ Recorded(E, l, RecordsUpTo(repo, n)) /\ n \in Nat
  BY <1>2, RepositoryIs DEF IsDrawn, n
<1>4. \A i \in 1 .. Len(T) : Goes(repo.folders, T[i], n, Root, n, Root)
  BY <1>1 DEF Goes
<1>5. IsOutline(E \o T, repo.folders, m)
  <2>1. T # << >> => Goes(repo.folders, T[1], l.k[Len(E)], l.cur[Len(E)], n, Root)
    <3>1. T # << >> => 1 \in 1 .. Len(T)
      BY <1>1
    <3> QED
      BY <1>3, <1>4, <3>1
  <2>2. \A i \in 2 .. Len(T) : Goes(repo.folders, T[i], n, Root, n, Root)
    BY <1>1, <1>4
  <2> QED
    BY <1>1, <1>3, <2>1, <2>2, OutlineGrows
<1>6. m.k[Len(E \o T)] = n
  <2>1. T = << >> => l.k[Len(E)] = n /\ l.cur[Len(E)] = Root
    BY <1>3
  <2>2. E \in Seq(AnyElement) /\ T \in Seq(AnyElement)
    BY <1>1
  <2> QED
    BY ONLY <2>1, <2>2, EndOfGrown
<1>7. \A i \in 1 .. Len(E) : m.cur[i] = l.cur[i]
  <2>1. \A i \in 1 .. Len(E) : i \in 0 .. Len(E)
    BY <1>1
  <2> QED
    BY <1>1, <2>1, GrownIs
<1> HIDE DEF m
<1>8. Recorded(E, m, RecordsUpTo(repo, n))
  BY <1>3, <1>7, RecordedSame
<1>9. Lays(repo, m)
  BY <1>5, <1>6, <1>8, RecordsUpToLast DEF Lays, FileOf, E, T, n
<1> QED
  BY <1>9 DEF Lay

\* The element of a parameter, as Params makes it.
ParamElement(p) == Element(p.name, "astr", NoAttr, NoAttr, PlainText(p.value))

\* What loading an element does, by its name, type, content type and text.
LEMMA LoadsBy ==
  \A e : loadRecordFromXML(e) =
           IF e.name = NoName \/ getRecordTypeFromString(TypeRead(e)) = 0 THEN {Failure}
           ELSE Outcomes(TypeRead(e), CtypeRead(e), e.text)
BY Zenon DEF loadRecordFromXML, Outcomes

\* What a line takes of an element loads as the element does.
LEMMA EntryLoads ==
  ASSUME NEW e \in FileElements, Entry(e) # NoEntry
  PROVE  /\ e.tag = "Record" /\ Entry(e).tag = "Record" /\ Entry(e).name = e.name
         /\ loadRecordFromXML(Entry(e)) = loadRecordFromXML(e)
<1> DEFINE g == [e EXCEPT !.perm = NoAttr]
<1>1. e.tag = "Record" /\ Entry(e) = g
  BY DEF Entry
<1>2. g.tag = e.tag /\ g.name = e.name /\ g.type = e.type /\ g.ctype = e.ctype /\ g.text = e.text
  <2>1. CASE e \in ElementType
    BY <2>1 DEF ElementType
  <2>2. CASE e \in {addRecordToXMLHandle2(r) : r \in RecordType}
    BY <2>2 DEF addRecordToXMLHandle2, Element
  <2> QED
    BY <2>1, <2>2 DEF FileElements
<1> HIDE DEF g
<1>3. TypeRead(g) = TypeRead(e) /\ CtypeRead(g) = CtypeRead(e)
  BY <1>2 DEF TypeRead, CtypeRead
<1>4. loadRecordFromXML(g) = loadRecordFromXML(e)
  BY <1>2, <1>3, LoadsBy
<1> QED
  BY <1>1, <1>2, <1>4

\* A parameter is loaded as a string, and that does not fail.
LEMMA ParamLoads ==
  ASSUME NEW p \in ParamType
  PROVE  ParamElement(p).tag = "Record" /\ Failure \notin loadRecordFromXML(ParamElement(p))
<1> DEFINE e == ParamElement(p)
<1>1. /\ e.tag = "Record" /\ e.name = p.name /\ e.type = "astr" /\ p.name # NoName
  <2>1. p.name \in Names
    BY DEF ParamType
  <2> QED
    BY <2>1, NoNameAssumption DEF ParamElement, Element
<1> HIDE DEF e
<1>2. TypeRead(e) = "astr" /\ getRecordTypeFromString("astr") # 0
  <2>1. 4 \in DOMAIN ppRecordType /\ ppRecordType[4] = "astr"
    BY DEF ppRecordType
  <2>2. getRecordTypeFromString("astr") # 0
    BY <2>1, TypesAreKnown
  <2>3. NoAttr # "astr"
    BY <2>1, NoAttrAssumption
  <2> QED
    BY <1>1, <2>2, <2>3 DEF TypeRead
<1>3. ~(e.name = NoName \/ getRecordTypeFromString(TypeRead(e)) = 0)
  BY <1>1, <1>2
<1>4. loadRecordFromXML(e) = Outcomes(TypeRead(e), CtypeRead(e), e.text)
  BY <1>3, LoadsBy
<1>5. loadRecordFromXML(e) = LoadData(e.text)
  BY <1>2, <1>4 DEF Outcomes
<1> QED
  BY <1>1, <1>5 DEF LoadData, Added, Failure, e

-----------------------------------------------------------------------------
(* What the items of a load are.                                           *)

\* An item that is not a line of the file.
OtherItem(item, s) ==
  \/ item.source \in {"custom", "missing"} /\ \E p \in ParamType : item.entry = ParamElement(p)
  \/ /\ item.source = "partner"
     /\ \E p \in ParamType : p \in Range(s.partner) /\ item.entry = ParamElement(p)
  \/ item.source = "default" /\ \E i \in DOMAIN s.default : item.entry = Entry(s.default[i])
OtherItems(s) == {item \in ItemType : OtherItem(item, s)}

\* A sequence that begins with A and goes on with members of R.
Led(t, A, R) ==
  /\ t \in Seq(ItemType) /\ Len(A) \in Nat /\ Len(A) <= Len(t)
  /\ \A i \in 1 .. Len(A) : t[i] = A[i]
  /\ \A i \in 1 .. Len(t) : i > Len(A) => t[i] \in R

\* It stays one when more members of R follow.
LEMMA LedOn ==
  ASSUME NEW t, NEW A, NEW R, Led(t, A, R), NEW u, u \in Seq(ItemType), u \in Seq(R)
  PROVE  Led(t \o u, A, R)
<1>1. /\ t \in Seq(ItemType) /\ Len(t) \in Nat /\ Len(u) \in Nat /\ Len(A) \in Nat
      /\ Len(A) <= Len(t) /\ t \o u \in Seq(ItemType) /\ Len(t \o u) = Len(t) + Len(u)
  BY DEF Led
<1>2. \A i \in 1 .. Len(u) : u[i] \in R
  OBVIOUS
<1>3. \A i \in 1 .. Len(t) : (t \o u)[i] = t[i]
  BY <1>1
<1>4. \A i \in 1 .. Len(t) + Len(u) :
        i \in 1 .. Len(t) \/ (i - Len(t) \in 1 .. Len(u) /\ (t \o u)[i] = u[i - Len(t)])
  BY <1>1
<1>5. \A i \in 1 .. Len(A) : i \in 1 .. Len(t)
  BY <1>1
<1> QED
  BY <1>1, <1>2, <1>3, <1>4, <1>5 DEF Led

\* The parameters of a list are items that are no lines of the file.
LEMMA ParamsAreOther ==
  ASSUME NEW params \in Seq(ParamType), NEW s,
         NEW kind \in {"custom", "partner", "missing"}, kind = "partner" => params = s.partner
  PROVE  Params(params, kind) \in Seq(ItemType) /\ Params(params, kind) \in Seq(OtherItems(s))
<1> DEFINE q == Params(params, kind)
<1>1. q \in Seq(ItemType)
  BY ParamsAreItems DEF Kinds
<1>2. /\ Len(params) \in Nat /\ DOMAIN params = 1 .. Len(params)
      /\ \A i \in 1 .. Len(params) : params[i] \in ParamType /\ params[i] \in Range(params)
  BY DEF Range
<1>3. q = [i \in 1 .. Len(params) |-> [entry |-> ParamElement(params[i]), source |-> kind]]
  BY <1>2 DEF Params, ParamElement
<1> HIDE DEF q
<1>4. DOMAIN q = 1 .. Len(params) /\ Len(q) = Len(params)
  BY <1>1, <1>2, <1>3
<1>5. \A i \in 1 .. Len(params) : q[i].entry = ParamElement(params[i]) /\ q[i].source = kind
  BY <1>3
<1>6. \A i \in 1 .. Len(params) : q[i] \in ItemType
  BY <1>1, <1>4
<1>7. \A i \in 1 .. Len(params) : OtherItem(q[i], s)
  BY <1>2, <1>5 DEF OtherItem
<1>8. q \in [1 .. Len(params) -> OtherItems(s)]
  BY <1>3, <1>6, <1>7 DEF OtherItems
<1> QED
  BY <1>1, <1>2, <1>8, FunctionIsSequence DEF q

\* So are the lines of the default file.
LEMMA DefaultsAreOther ==
  ASSUME NEW s \in Sources
  PROVE  /\ Lines(s.default, "default") \in Seq(ItemType)
         /\ Lines(s.default, "default") \in Seq(OtherItems(s))
<1> DEFINE q == Lines(s.default, "default")
           d == s.default
<1>1. d \in Seq(FileElements)
  BY SourcesAssumption DEF FileElements
<1>2. q \in Seq(ItemType)
  BY <1>1, LinesAreItems DEF Kinds
<1>3. Len(d) \in Nat /\ DOMAIN d = 1 .. Len(d)
  BY <1>1
<1>4. q = [i \in 1 .. Len(d) |-> [entry |-> Entry(d[i]), source |-> "default"]]
  BY <1>3 DEF Lines
<1> HIDE DEF q
<1>5. DOMAIN q = 1 .. Len(d)
  BY <1>4
<1>6. \A i \in 1 .. Len(d) : q[i].entry = Entry(d[i]) /\ q[i].source = "default"
  BY <1>4
<1>7. \A i \in 1 .. Len(d) : q[i] \in ItemType
  BY <1>2, <1>5
<1>8. \A i \in 1 .. Len(d) : OtherItem(q[i], s)
  BY <1>3, <1>6 DEF OtherItem
<1>9. q \in [1 .. Len(d) -> OtherItems(s)]
  BY <1>4, <1>7, <1>8 DEF OtherItems
<1> QED
  BY <1>2, <1>3, <1>9, FunctionIsSequence DEF q

\* The items begin with the lines of the file, in their places.
LEMMA ItemsAre ==
  ASSUME NEW repo \in Repositories, repo.folders = << >>, NEW s \in Sources
  PROVE  LET all == ReadOrder(FileOf(repo), s)
         IN  /\ Len(FileOf(repo)) <= Len(all) /\ Len(all) \in Nat
             /\ \A i \in 1 .. Len(FileOf(repo)) :
                  all[i].entry = Entry(FileOf(repo)[i]) /\ all[i].source = "file"
             /\ \A i \in 1 .. Len(all) : i > Len(FileOf(repo)) => OtherItem(all[i], s)
<1> DEFINE F == FileOf(repo)
           A == Lines(F, "file")
           B == Params(s.custom, "custom")
           C == Lines(s.default, "default")
           D == Params(s.partner, "partner")
           G == Params(s.missing, "missing")
           R == OtherItems(s)
<1>1. F \in Seq(FileElements) /\ Len(F) \in Nat /\ DOMAIN F = 1 .. Len(F)
  BY FileWithoutFolders
<1>2. A \in Seq(ItemType)
  BY <1>1, LinesAreItems DEF Kinds
<1> HIDE DEF F
<1>3. A = [i \in 1 .. Len(F) |-> [entry |-> Entry(F[i]), source |-> "file"]]
  BY <1>1 DEF Lines
<1> HIDE DEF A
<1>4. Len(A) = Len(F)
  BY <1>1, <1>2, <1>3
<1>5. \A i \in 1 .. Len(F) : A[i].entry = Entry(F[i]) /\ A[i].source = "file"
  BY <1>3
<1>6. Led(A, A, R)
  BY <1>1, <1>2, <1>4 DEF Led
<1>7. s.custom \in Seq(ParamType) /\ s.partner \in Seq(ParamType) /\ s.missing \in Seq(ParamType)
  BY SourcesAssumption
<1>8. /\ B \in Seq(ItemType) /\ B \in Seq(R) /\ D \in Seq(ItemType) /\ D \in Seq(R)
      /\ G \in Seq(ItemType) /\ G \in Seq(R)
  BY <1>7, ParamsAreOther
<1>9. C \in Seq(ItemType) /\ C \in Seq(R)
  BY DefaultsAreOther
<1> HIDE DEF B, C, D, G, R
<1>10. Led(A \o B, A, R)
  BY <1>6, <1>8, LedOn
<1>11. Led(A \o B \o C, A, R)
  BY <1>9, <1>10, LedOn
<1>12. Led(A \o B \o C \o D, A, R)
  BY <1>8, <1>11, LedOn
<1>13. Led(A \o B \o C \o D \o G, A, R)
  BY <1>8, <1>12, LedOn
<1> DEFINE all == A \o B \o C \o D \o G
<1>14. all = ReadOrder(FileOf(repo), s)
  BY DEF ReadOrder, A, B, C, D, G, F
<1> HIDE DEF all
<1>15. /\ Len(F) <= Len(all) /\ Len(all) \in Nat
       /\ \A i \in 1 .. Len(F) : all[i] = A[i]
       /\ \A i \in 1 .. Len(all) : i > Len(F) => all[i] \in R
  BY <1>4, <1>13 DEF Led, all
<1>16. \A i \in 1 .. Len(all) : i > Len(F) => OtherItem(all[i], s)
  BY <1>15 DEF R, OtherItems
<1> QED
  BY <1>5, <1>14, <1>15, <1>16 DEF F

-----------------------------------------------------------------------------
(* What is in the table and the buffer.                                    *)

\* A record of the table, or in the buffer, is one of the items.
MadeOf(e) == \E i \in 1 .. Len(AllItems) : e = AllItems[i].entry
MadeInv ==
  path = "platform" => /\ \A a \in 1 .. Len(heap) : MadeOf(heap[a])
                       /\ \A a \in 1 .. Len(buffer) : MadeOf(buffer[a])

\* Neither has a record at the start.
LEMMA MadeInvInit == Init => MadeInv
BY DEF Init, HashInit, MadeInv

\* A sequence of which one more is appended.
LEMMA OneAppended ==
  ASSUME NEW S, NEW s \in Seq(S), NEW x
  PROVE  \A i \in 1 .. Len(Append(s, x)) :
           Append(s, x)[i] = x \/ (i \in 1 .. Len(s) /\ Append(s, x)[i] = s[i])
OBVIOUS

\* What is taken is an item, and what is flushed was taken.
LEMMA MadeInvInductive ==
  ASSUME HashInv, PathInv, RestInv, MadeInv, [Next]_vars
  PROVE  MadeInv'
<1> SUFFICES ASSUME path = "platform"
             PROVE  MadeInv'
  BY PathStays DEF MadeInv
<1>1. UNCHANGED <<path, saved, sources>> /\ AllItems' = AllItems
  BY PathStays DEF AllItems
<1>2. \A e : MadeOf(e)' = MadeOf(e)
  BY <1>1 DEF MadeOf
<1>3. /\ heap \in Seq(Entries) /\ buffer \in Seq(Entries)
      /\ \A a \in 1 .. Len(heap) : MadeOf(heap[a])
      /\ \A a \in 1 .. Len(buffer) : MadeOf(buffer[a])
  BY DEF HashInv, HashType, MadeInv
<1>4. CASE Taking
  <2>1. /\ input # << >> /\ input' = Tail(input) /\ buffer' = buffer
        /\ heap' = heap \/ heap' = Append(heap, Head(input).entry)
    BY <1>4 DEF Taking, SkipLine, LoadRecord, KeepRecord, OverwriteRecord, Take, flushing
  <2>2. Taken + 1 \in 1 .. Len(AllItems) /\ Head(input) = AllItems[Taken + 1]
    BY <1>1, <2>1, NextItem
  <2>3. MadeOf(Head(input).entry)
    BY <2>2 DEF MadeOf
  <2>4. \A a \in 1 .. Len(heap') : MadeOf(heap'[a])
    BY <1>3, <2>1, <2>3, OneAppended
  <2> QED
    BY <1>1, <1>2, <1>3, <2>1, <2>4 DEF MadeInv
<1>5. CASE Resting
  <2>1. heap' = heap
    BY <1>5 DEF Resting, FlushBegins, FlushRecord, FlushChain, FlushEnds, FlushFails, FreeRecords
  <2>2. \/ buffer' = buffer \/ buffer' = << >>
        \/ AtRecord /\ buffer' = Append(buffer, heap[rec_hash[bucket][at]])
    BY <1>5 DEF Resting, FlushBegins, FlushRecord, FlushChain, FlushEnds, FlushFails, FreeRecords,
                flushing
  <2>3. AtRecord => MadeOf(heap[rec_hash[bucket][at]])
    <3>1. AtRecord => rec_hash[bucket][at] \in 1 .. Len(heap)
      BY HashAssumption DEF AtRecord, HashInv, HashType
    <3> QED
      BY <1>3, <3>1
  <2>4. \A a \in 1 .. Len(buffer') : MadeOf(buffer'[a])
    <3>1. CASE buffer' = << >>
      BY <3>1
    <3>2. CASE AtRecord /\ buffer' = Append(buffer, heap[rec_hash[bucket][at]])
      BY <1>3, <2>3, <3>2, OneAppended
    <3> QED
      BY <1>3, <2>2, <3>1, <3>2
  <2> QED
    BY <1>1, <1>2, <1>3, <2>1, <2>4 DEF MadeInv
<1>6. CASE UNCHANGED hashVars
  BY <1>1, <1>2, <1>3, <1>6 DEF MadeInv, hashVars
<1> QED
  BY <1>4, <1>5, <1>6, TableStep DEF HashNext, Taking, Resting, vars

\* Where an element comes from that the platform's path hands out.
LEMMA EntryOrigin ==
  ASSUME PathInv, path = "platform", NEW e, MadeOf(e), e # NoEntry
  PROVE  /\ e.tag = "Record"
         /\ Failure \in loadRecordFromXML(e) =>
              \E i \in 1 .. Len(FileOf(saved)) :
                /\ FileOf(saved)[i].tag = "Record"
                /\ Failure \in loadRecordFromXML(FileOf(saved)[i])
<1> DEFINE F == FileOf(saved)
           all == ReadOrder(F, sources)
<1>1. saved \in Repositories /\ saved.folders = << >> /\ sources \in Sources
  BY DEF PathInv
<1>2. F \in Seq(FileElements)
  BY <1>1, FileWithoutFolders
<1>3. PICK i \in 1 .. Len(all) : e = all[i].entry
  BY DEF MadeOf, AllItems
<1>4. /\ Len(F) \in Nat /\ Len(all) \in Nat
      /\ \A j \in 1 .. Len(F) : all[j].entry = Entry(F[j])
      /\ \A j \in 1 .. Len(all) : j > Len(F) => OtherItem(all[j], sources)
  BY <1>1, <1>2, ItemsAre
<1> HIDE DEF F, all
<1>5. CASE i \in 1 .. Len(F)
  <2>1. e = Entry(F[i]) /\ F[i] \in FileElements
    BY <1>2, <1>3, <1>4, <1>5
  <2>2. F[i].tag = "Record" /\ e.tag = "Record" /\ loadRecordFromXML(e) = loadRecordFromXML(F[i])
    BY <2>1, EntryLoads
  <2> QED
    BY <1>5, <2>2 DEF F
<1>6. CASE \E p \in ParamType : e = ParamElement(p)
  BY <1>6, ParamLoads
<1>7. CASE \E j \in DOMAIN sources.default : e = Entry(sources.default[j])
  <2>1. PICK j \in DOMAIN sources.default : e = Entry(sources.default[j])
    BY <1>7
  <2>2. sources.default[j] \in FileElements
    BY <1>1, SourcesAssumption DEF FileElements
  <2>3. e.tag = "Record" /\ loadRecordFromXML(e) = loadRecordFromXML(sources.default[j])
    BY <2>1, <2>2, EntryLoads
  <2>4. Failure \notin loadRecordFromXML(sources.default[j])
    BY <1>1, <2>1, DefaultAssumption
  <2> QED
    BY <2>3, <2>4
<1> QED
  BY <1>3, <1>4, <1>5, <1>6, <1>7 DEF OtherItem

-----------------------------------------------------------------------------
(* What is loaded, and how it leads from folder to folder.                 *)

\* What is loaded, and its outline: on the platform's path all of it is in the
\* provision folder.
Read == IF path = "base" THEN FileOf(saved) ELSE buffer
Chart == IF path = "base" THEN Lay(saved)
         ELSE [k   |-> [i \in 0 .. Len(buffer) |-> 0],
               cur |-> [i \in 0 .. Len(buffer) |-> Root]]
Loadable == AnyElement \cup Entries

\* The chart is the outline of what is loaded.
LEMMA ChartIs ==
  ASSUME HashInv, PathInv, MadeInv
  PROVE  /\ Read \in Seq(Loadable) /\ Len(Read) \in Nat
         /\ IsOutline(Read, saved.folders, Chart)
         /\ Chart.k[Len(Read)] = Len(saved.folders)
<1>1. saved \in Repositories
  BY DEF PathInv
<1>2. CASE path = "base"
  <2>1. Read = FileOf(saved) /\ Chart = Lay(saved)
    BY <1>2 DEF Read, Chart
  <2>2. FileOf(saved) \in Seq(AnyElement) /\ Lays(saved, Lay(saved))
    BY <1>1, FileIs, FileLaid
  <2>3. Read \in Seq(Loadable)
    BY <2>1, <2>2 DEF Loadable
  <2> QED
    BY <2>1, <2>2, <2>3 DEF Lays
<1>3. CASE path = "platform"
  <2>1. Read = buffer /\ buffer \in Seq(Entries) /\ saved.folders = << >>
    BY <1>3 DEF Read, HashInv, HashType, PathInv
  <2>2. Chart = [k |-> [i \in 0 .. Len(Read) |-> 0], cur |-> [i \in 0 .. Len(Read) |-> Root]]
    BY <1>3, <2>1 DEF Chart
  <2>3. Read \in Seq(Loadable) /\ Len(Read) \in Nat
    BY <2>1 DEF Loadable
  <2>4. \A i \in 1 .. Len(Read) : Read[i].tag = "Record"
    <3> SUFFICES ASSUME NEW i \in 1 .. Len(Read)
                 PROVE  Read[i].tag = "Record"
      OBVIOUS
    <3>1. Read[i] \in Entries /\ MadeOf(Read[i])
      BY <1>3, <2>1 DEF MadeInv
    <3>2. Read[i] # NoEntry
      BY <3>1 DEF Entries
    <3> QED
      BY <1>3, <3>1, <3>2, EntryOrigin
  <2>5. /\ Chart.k \in [0 .. Len(Read) -> Nat]
        /\ \A i \in 0 .. Len(Read) : Chart.k[i] = 0 /\ Chart.cur[i] = Root
    BY <2>2
  <2>6. \A i \in 1 .. Len(Read) : i \in 0 .. Len(Read) /\ i - 1 \in 0 .. Len(Read)
    BY <2>3
  <2>7. 0 \in 0 .. Len(Read) /\ Len(Read) \in 0 .. Len(Read)
    BY <2>3
  <2>8. IsOutline(Read, saved.folders, Chart)
    <3>1. \A i \in 1 .. Len(Read) :
            Goes(saved.folders, Read[i], Chart.k[i - 1], Chart.cur[i - 1], Chart.k[i], Chart.cur[i])
      BY <2>4, <2>5, <2>6 DEF Goes
    <3> QED
      BY <2>5, <2>7, <3>1 DEF IsOutline
  <2>9. Chart.k[Len(Read)] = Len(saved.folders)
    BY <2>1, <2>5, <2>7
  <2> QED
    BY <2>3, <2>8, <2>9
<1> QED
  BY <1>2, <1>3 DEF PathInv

\* A load has begun; the elements that are passed; the folders that are there by then.
Begun == pc \in {"load", "loaded", "aborted"}
Done == Len(Read) - Len(doc)

FolderRead(f) == [name |-> f.name, ctype |-> f.ctype, perm |-> f.perm]
FoldersRead(fs, n) == [m \in 1 .. n |-> FolderRead(fs[m])]

\* What is left to load is the end of what there is.
DocInv ==
  Begun => /\ doc \in Seq(Loadable) /\ Len(doc) <= Len(Read)
           /\ \A i \in 1 .. Len(doc) : doc[i] = Read[Done + i]

\* The loader is in the folder of the chart, and has begun as many.
PlaceInv ==
  IF Begun THEN folder = Chart.cur[Done] /\ folders = FoldersRead(saved.folders, Chart.k[Done])
  ELSE folder = Root /\ folders = << >>

\* How a load ends.
EndInv ==
  /\ Begun /\ path = "platform" => phase = "done"
  /\ pc = "loaded" => doc = << >>
  /\ pc = "aborted" => /\ doc # << >> /\ Head(doc).tag = "Record"
                       /\ Failure \in loadRecordFromXML(Head(doc))

\* An element that gives one record, which no other element replaces.
Alone(i, x) ==
  /\ Read[i].tag = "Record" /\ loadRecordFromXML(Read[i]) = {Added(x.data)}
  /\ x = [name |-> Read[i].name, folder |-> Chart.cur[i], type |-> TypeRead(Read[i]),
          ctype |-> CtypeRead(Read[i]), data |-> x.data]
  /\ \A j \in 1 .. Len(Read) :
       Read[j].tag = "Record" /\ Read[j].name = x.name /\ Chart.cur[j] = x.folder => j = i

\* What is passed and alone is in the repository.
KeptInv == Begun => \A i \in 1 .. Done : \A x : Alone(i, x) => x \in records

\* The invariant of a load.
LoadInv == DocInv /\ PlaceInv /\ EndInv /\ KeptInv

\* No folder is there at the start.
LEMMA NoFolderRead == \A fs : FoldersRead(fs, 0) = << >>
<1> SUFFICES ASSUME NEW fs PROVE FoldersRead(fs, 0) = << >>
  OBVIOUS
<1>1. FoldersRead(fs, 0) \in [1 .. 0 -> STRING]
  BY DEF FoldersRead
<1>2. FoldersRead(fs, 0) \in Seq(STRING) /\ Len(FoldersRead(fs, 0)) = 0
  BY <1>1, FunctionIsSequence
<1> QED
  BY <1>2

\* One folder more.
LEMMA FolderMore ==
  ASSUME NEW fs, NEW n \in Nat
  PROVE  Append(FoldersRead(fs, n), FolderRead(fs[n + 1])) = FoldersRead(fs, n + 1)
<1> DEFINE S == {FolderRead(fs[m]) : m \in Nat}
           A == FoldersRead(fs, n)
           B == FoldersRead(fs, n + 1)
<1>1. A \in [1 .. n -> S] /\ B \in [1 .. n + 1 -> S]
  BY DEF FoldersRead
<1>2. A \in Seq(S) /\ Len(A) = n /\ B \in Seq(S) /\ Len(B) = n + 1
  <2> HIDE DEF A, B, S
  <2>1. n + 1 \in Nat
    OBVIOUS
  <2> QED
    BY <1>1, <2>1, FunctionIsSequence
<1>3. /\ \A i \in 1 .. n : i \in 1 .. n + 1 /\ A[i] = B[i]
      /\ n + 1 \in 1 .. n + 1 /\ B[n + 1] = FolderRead(fs[n + 1])
  BY DEF FoldersRead
<1>4. FolderRead(fs[n + 1]) \in S
  OBVIOUS
<1> DEFINE x == FolderRead(fs[n + 1])
<1> HIDE DEF A, B, S, x
<1>5. Append(A, x) \in Seq(S) /\ Len(Append(A, x)) = n + 1
      /\ \A i \in 1 .. n + 1 : Append(A, x)[i] = B[i]
  BY <1>2, <1>3, <1>4 DEF x
<1> QED
  BY <1>2, <1>5 DEF A, B, x

\* What is loaded is loaded from what the chart is of.
LEMMA DoneIs ==
  ASSUME HashInv, PathInv, MadeInv, DocInv, Begun
  PROVE  /\ doc \in Seq(Loadable) /\ Len(doc) \in Nat /\ Len(Read) \in Nat
         /\ Done \in 0 .. Len(Read) /\ Done + Len(doc) = Len(Read)
         /\ doc # << >> => /\ Done + 1 \in 1 .. Len(Read) /\ Head(doc) = Read[Done + 1]
                           /\ Goes(saved.folders, Read[Done + 1], Chart.k[Done], Chart.cur[Done],
                                   Chart.k[Done + 1], Chart.cur[Done + 1])
<1>1. /\ doc \in Seq(Loadable) /\ Len(doc) \in Nat /\ Len(Read) \in Nat /\ Len(doc) <= Len(Read)
      /\ \A i \in 1 .. Len(doc) : doc[i] = Read[Done + i]
  BY ChartIs DEF DocInv
<1>2. Done \in 0 .. Len(Read) /\ Done + Len(doc) = Len(Read)
  BY <1>1 DEF Done
<1>3. ASSUME doc # << >>
      PROVE  /\ Done + 1 \in 1 .. Len(Read) /\ Head(doc) = Read[Done + 1]
             /\ Goes(saved.folders, Read[Done + 1], Chart.k[Done], Chart.cur[Done],
                     Chart.k[Done + 1], Chart.cur[Done + 1])
  <2>1. Len(doc) >= 1 /\ Head(doc) = doc[1] /\ 1 \in 1 .. Len(doc)
    BY <1>1, <1>3
  <2>2. Done + 1 \in 1 .. Len(Read) /\ (Done + 1) - 1 = Done
    BY <1>1, <1>2, <2>1
  <2>3. \A i \in 1 .. Len(Read) :
          Goes(saved.folders, Read[i], Chart.k[i - 1], Chart.cur[i - 1], Chart.k[i], Chart.cur[i])
    BY ChartIs DEF IsOutline
  <2>4. Goes(saved.folders, Read[Done + 1], Chart.k[Done], Chart.cur[Done],
             Chart.k[Done + 1], Chart.cur[Done + 1])
    BY <2>2, <2>3
  <2> QED
    BY <1>1, <2>1, <2>2, <2>4
<1> QED
  BY <1>1, <1>2, <1>3

\* Nothing that is loaded from changes while it is loaded.
LEMMA ReadStays ==
  ASSUME [Next]_vars, pc # "merge"
  PROVE  Read' = Read /\ Chart' = Chart /\ UNCHANGED <<path, saved, phase>>
<1>1. UNCHANGED <<path, saved, sources>>
  BY PathStays
<1>2. UNCHANGED <<buffer, phase>>
  BY DEF Next, Merge, MergeEnds, MergeFails, LoadRecordElement, LoadFolderElement, LoadFolderEnds,
         LoadOtherElement, LoadEndsAt, Step, vars, hashVars
<1> QED
  BY <1>1, <1>2 DEF Read, Chart

\* An element is passed.
LEMMA Passes ==
  ASSUME HashInv, PathInv, MadeInv, DocInv, pc = "load", doc # << >>, doc' = Tail(doc),
         pc' = pc, Read' = Read
  PROVE  DocInv' /\ Done' = Done + 1
<1>1. Begun /\ Begun'
  BY DEF Begun
<1>2. /\ doc \in Seq(Loadable) /\ Len(doc) \in Nat /\ Len(Read) \in Nat
      /\ Done \in 0 .. Len(Read) /\ Done + Len(doc) = Len(Read)
      /\ Len(doc) <= Len(Read) /\ \A i \in 1 .. Len(doc) : doc[i] = Read[Done + i]
  BY <1>1, DoneIs DEF DocInv
<1>3. /\ doc' \in Seq(Loadable) /\ Len(doc') = Len(doc) - 1 /\ Len(doc) >= 1
      /\ \A i \in 1 .. Len(doc') : doc'[i] = doc[i + 1] /\ i + 1 \in 1 .. Len(doc)
  BY <1>2
<1>4. Done' = Done + 1
  BY <1>2, <1>3 DEF Done
<1>5. \A i \in 1 .. Len(doc') : Done + (i + 1) = Done' + i
  BY <1>2, <1>4
<1>6. \A i \in 1 .. Len(doc') : doc'[i] = Read'[Done' + i]
  BY <1>2, <1>3, <1>5
<1>7. Loadable' = Loadable
  BY DEF Loadable
<1> QED
  BY <1>1, <1>2, <1>3, <1>4, <1>6 DEF DocInv

-----------------------------------------------------------------------------
(* The steps of a load.                                                    *)

\* What a load may do in a step.
LoadStep ==
  /\ pc = "load" /\ doc # << >> /\ doc' = Tail(doc) /\ pc' = pc
  /\ Read' = Read /\ Chart' = Chart /\ UNCHANGED <<path, saved, phase>>

\* An element that is passed leads where the chart says.
LEMMA PlaceStep ==
  ASSUME HashInv, PathInv, MadeInv, LoadInv, LoadStep,
         NEW e, e = Head(doc),
         \/ e.tag \notin {"Folder", "/Folder"} /\ UNCHANGED <<folder, folders>>
         \/ e.tag = "/Folder" /\ folder' = Root /\ UNCHANGED folders
         \/ e.tag = "Folder" /\ folder' = e.name
              /\ folders' = Append(folders, [name |-> e.name, ctype |-> e.ctype, perm |-> e.perm])
  PROVE  PlaceInv'
<1>1. Begun /\ Begun' /\ DocInv
  BY DEF LoadStep, Begun, LoadInv
<1>2. Done' = Done + 1 /\ Read' = Read /\ Chart' = Chart /\ saved' = saved /\ doc # << >>
  BY <1>1, Passes DEF LoadStep
<1>3. folder = Chart.cur[Done] /\ folders = FoldersRead(saved.folders, Chart.k[Done])
  BY <1>1 DEF LoadInv, PlaceInv
<1> DEFINE fs == saved.folders
           k == Chart.k[Done]
           k1 == Chart.k[Done + 1]
           c1 == Chart.cur[Done + 1]
<1>4. Done \in 0 .. Len(Read) /\ Goes(fs, e, k, Chart.cur[Done], k1, c1)
  BY <1>1, <1>2, DoneIs
<1>5. k \in Nat
  BY <1>4, ChartIs DEF IsOutline
<1> HIDE DEF fs, k, k1, c1
<1>6. folder' = c1 /\ folders' = FoldersRead(fs, k1)
  <2>1. CASE e.tag \notin {"Folder", "/Folder"}
    <3>1. k1 = k /\ c1 = Chart.cur[Done] /\ UNCHANGED <<folder, folders>>
      BY <1>4, <2>1 DEF Goes
    <3> QED
      BY <1>3, <3>1 DEF fs, k
  <2>2. CASE e.tag = "/Folder"
    <3>1. k1 = k /\ c1 = Root /\ folder' = Root /\ UNCHANGED folders
      BY <1>4, <2>2 DEF Goes
    <3> QED
      BY <1>3, <3>1 DEF fs, k
  <2>3. CASE e.tag = "Folder"
    <3>1. /\ k1 = k + 1 /\ c1 = fs[k1].name /\ e = FolderElement(fs[k1])
          /\ folder' = e.name
          /\ folders' = Append(folders, [name |-> e.name, ctype |-> e.ctype, perm |-> e.perm])
      BY <1>4, <2>3 DEF Goes
    <3>2. e.name = fs[k1].name /\ e.ctype = fs[k1].ctype /\ e.perm = fs[k1].perm
      BY <3>1 DEF FolderElement
    <3>3. folders' = Append(FoldersRead(fs, k), FolderRead(fs[k + 1]))
      BY <1>3, <3>1, <3>2 DEF FolderRead, fs, k
    <3> QED
      BY <1>5, <3>1, <3>2, <3>3, FolderMore
  <2> QED
    BY <2>1, <2>2, <2>3
<1> QED
  BY <1>1, <1>2, <1>6 DEF PlaceInv, fs, k1, c1

\* A record stays when an element is passed that gives no record.
LEMMA KeptStep ==
  ASSUME HashInv, PathInv, MadeInv, LoadInv, LoadStep, UNCHANGED records,
         Head(doc).tag # "Record" \/ \E o \in loadRecordFromXML(Head(doc)) : o.status = "skipped"
  PROVE  KeptInv'
<1>1. Begun /\ Begun' /\ DocInv /\ KeptInv
  BY DEF LoadStep, Begun, LoadInv
<1>2. Done' = Done + 1 /\ Read' = Read /\ Chart' = Chart /\ doc # << >>
  BY <1>1, Passes DEF LoadStep
<1>3. Done \in Nat /\ Head(doc) = Read[Done + 1]
  BY <1>1, <1>2, DoneIs
<1>4. \A i, x : Alone(i, x)' = Alone(i, x)
  BY <1>2 DEF Alone
<1>5. \A x : ~Alone(Done + 1, x)
  BY <1>3 DEF Alone, Added
<1>6. \A i \in 1 .. Done + 1 : i \in 1 .. Done \/ i = Done + 1
  BY <1>3
<1> QED
  BY <1>1, <1>2, <1>4, <1>5, <1>6 DEF KeptInv

\* A record that is alone is set, and stays when others are.
LEMMA KeptWithRecord ==
  ASSUME HashInv, PathInv, MadeInv, LoadInv, LoadStep, Head(doc).tag = "Record",
         NEW o \in loadRecordFromXML(Head(doc)),
         records' = AddRecord2([name |-> Head(doc).name, folder |-> folder,
                                type |-> TypeRead(Head(doc)), ctype |-> CtypeRead(Head(doc)),
                                data |-> o.data])
  PROVE  KeptInv'
<1> DEFINE e == Head(doc)
           r == [name |-> e.name, folder |-> folder, type |-> TypeRead(e), ctype |-> CtypeRead(e),
                 data |-> o.data]
<1>1. Begun /\ Begun' /\ DocInv /\ KeptInv /\ PlaceInv
  BY DEF LoadStep, Begun, LoadInv
<1>2. Done' = Done + 1 /\ Read' = Read /\ Chart' = Chart /\ doc # << >>
  BY <1>1, Passes DEF LoadStep
<1>3. /\ Done \in Nat /\ e = Read[Done + 1] /\ Done + 1 \in 1 .. Len(Read)
      /\ Chart.cur[Done + 1] = folder
  <2>1. /\ Done \in Nat /\ e = Read[Done + 1] /\ Done + 1 \in 1 .. Len(Read)
        /\ Goes(saved.folders, e, Chart.k[Done], Chart.cur[Done],
                Chart.k[Done + 1], Chart.cur[Done + 1])
    BY <1>1, <1>2, DoneIs
  <2>2. Chart.cur[Done + 1] = Chart.cur[Done]
    BY <2>1 DEF Goes
  <2> QED
    BY <1>1, <2>1, <2>2 DEF PlaceInv
<1>4. \A i, x : Alone(i, x)' = Alone(i, x)
  BY <1>2 DEF Alone
<1>5. records' = {s \in records : s.name # r.name \/ s.folder # r.folder} \cup {r}
  BY DEF AddRecord2
<1>6. r.name = e.name /\ r.folder = folder
  OBVIOUS
<1>7. ASSUME NEW x, Alone(Done + 1, x) PROVE x \in records'
  <2>1. /\ loadRecordFromXML(e) = {Added(x.data)}
        /\ x = [name |-> e.name, folder |-> folder, type |-> TypeRead(e),
                ctype |-> CtypeRead(e), data |-> x.data]
    BY <1>3, <1>7 DEF Alone
  <2>2. o.data = x.data
    BY <2>1 DEF Added
  <2>3. x = r
    BY <2>1, <2>2
  <2> QED
    BY <1>5, <2>3
<1> HIDE DEF e, r
<1>8. ASSUME NEW i \in 1 .. Done, NEW x, Alone(i, x) PROVE x \in records'
  <2>1. x \in records
    BY <1>1, <1>8 DEF KeptInv
  <2>2. ~(x.name = r.name /\ x.folder = r.folder)
    <3>1. ASSUME x.name = r.name, x.folder = r.folder PROVE Done + 1 = i
      <4>1. Read[Done + 1].tag = "Record" /\ Read[Done + 1].name = x.name
            /\ Chart.cur[Done + 1] = x.folder
        BY <1>3, <1>6, <3>1 DEF e
      <4> QED
        BY <1>3, <1>8, <4>1 DEF Alone
    <3>2. Done + 1 # i
      BY <1>3
    <3> QED
      BY <3>1, <3>2
  <2> QED
    BY <1>5, <2>1, <2>2
<1>9. \A i \in 1 .. Done + 1 : i \in 1 .. Done \/ i = Done + 1
  BY <1>3
<1> QED
  BY <1>1, <1>2, <1>4, <1>7, <1>8, <1>9 DEF KeptInv

\* A load begins with all there is, in the provision folder.
LEMMA BeginsAll ==
  HashInv /\ PathInv /\ MadeInv /\ Begun /\ doc = Read /\ folder = Root /\ folders = << >>
    => DocInv /\ PlaceInv /\ KeptInv
<1> SUFFICES ASSUME HashInv, PathInv, MadeInv, Begun, doc = Read, folder = Root, folders = << >>
             PROVE  DocInv /\ PlaceInv /\ KeptInv
  OBVIOUS
<1>1. /\ Read \in Seq(Loadable) /\ Len(Read) \in Nat
      /\ Chart.k[0] = 0 /\ Chart.cur[0] = Root
  BY ChartIs DEF IsOutline
<1>2. Done = 0
  BY <1>1 DEF Done
<1>3. DocInv
  BY <1>1, <1>2 DEF DocInv
<1>4. PlaceInv
  BY <1>1, <1>2, NoFolderRead DEF PlaceInv
<1> QED
  BY <1>2, <1>3, <1>4 DEF KeptInv

\* It holds at the start, on either path.
LEMMA LoadInvInit == Init => LoadInv
<1> SUFFICES ASSUME Init
             PROVE  LoadInv
  OBVIOUS
<1>1. HashInv /\ PathInv /\ MadeInv
  BY InitKeeps, PathInvInit, MadeInvInit
<1>2. folder = Root /\ folders = << >>
  BY DEF Init
<1>3. CASE path = "base"
  <2>1. doc = Read
    BY <1>3 DEF Init, Read
  <2>2. pc = "load" \/ pc = "overrun"
    BY <1>3 DEF Init
  <2>3. CASE pc = "load"
    <3>1. Begun
      BY <2>3 DEF Begun
    <3> QED
      BY <1>1, <1>2, <1>3, <2>1, <2>3, <3>1, BeginsAll DEF LoadInv, EndInv
  <2>4. CASE pc = "overrun"
    <3>1. ~Begun
      BY <2>4 DEF Begun
    <3> QED
      BY <1>2, <2>4, <3>1 DEF LoadInv, DocInv, PlaceInv, EndInv, KeptInv
  <2> QED
    BY <2>2, <2>3, <2>4
<1>4. CASE path = "platform"
  <2>1. pc = "merge" \/ pc = "overrun"
    BY <1>4 DEF Init
  <2>2. ~Begun
    BY <2>1 DEF Begun
  <2> QED
    BY <1>2, <2>1, <2>2 DEF LoadInv, DocInv, PlaceInv, EndInv, KeptInv
<1> QED
  BY <1>1, <1>3, <1>4 DEF PathInv

\* The load goes by the chart, and keeps what is alone.
LEMMA LoadInvInductive ==
  ASSUME HashInv, HashInv', PathInv, PathInv', MadeInv, MadeInv', LoadInv, [Next]_vars
  PROVE  LoadInv'
<1>1. CASE UNCHANGED vars
  <2>1. /\ Begun' = Begun /\ Read' = Read /\ Chart' = Chart /\ Done' = Done
        /\ UNCHANGED <<doc, folder, folders, records, pc, path, phase, saved>>
    BY <1>1 DEF vars, pathVars, hashVars, Begun, Read, Chart, Done
  <2>2. \A i, x : Alone(i, x)' = Alone(i, x)
    BY <2>1 DEF Alone
  <2>3. DocInv'
    BY <2>1 DEF LoadInv, DocInv, Loadable
  <2>4. PlaceInv' /\ EndInv' /\ KeptInv'
    BY <2>1, <2>2 DEF LoadInv, PlaceInv, EndInv, KeptInv
  <2> QED
    BY <2>3, <2>4 DEF LoadInv
<1>2. CASE Merge \/ MergeFails
  <2>1. ~Begun /\ ~Begun' /\ UNCHANGED <<folder, folders>>
        /\ pc' # "loaded" /\ pc' # "aborted"
    BY <1>2 DEF Merge, MergeFails, Step, pathVars, Begun
  <2> QED
    BY <2>1 DEF LoadInv, DocInv, PlaceInv, EndInv, KeptInv
<1>3. CASE MergeEnds
  <2>1. /\ ~Begun /\ Begun' /\ pc = "merge" /\ pc' = "load" /\ doc' = buffer /\ phase = "done"
        /\ UNCHANGED <<folder, folders, path, phase, buffer>>
    BY <1>3 DEF MergeEnds, Step, Begun, hashVars
  <2>2. path' # "base"
    BY <2>1 DEF PathInv
  <2>3. doc' = Read'
    BY <2>1, <2>2 DEF Read
  <2>4. folder' = Root /\ folders' = << >>
    BY <2>1 DEF LoadInv, PlaceInv
  <2>5. DocInv' /\ PlaceInv' /\ KeptInv'
    <3>1. (HashInv /\ PathInv /\ MadeInv /\ Begun /\ doc = Read /\ folder = Root
             /\ folders = << >> => DocInv /\ PlaceInv /\ KeptInv)'
      BY BeginsAll, PTL
    <3> QED
      BY <2>1, <2>3, <2>4, <3>1
  <2>6. EndInv'
    BY <2>1 DEF EndInv
  <2> QED
    BY <2>5, <2>6 DEF LoadInv
<1>4. ASSUME pc # "merge"
      PROVE  Read' = Read /\ Chart' = Chart /\ UNCHANGED <<path, saved, phase>>
  BY <1>4, ReadStays
<1>5. CASE LoadRecordElement
  <2> DEFINE e == Head(doc)
  <2>1. /\ pc = "load" /\ doc # << >> /\ e.tag = "Record" /\ Begun /\ Begun'
        /\ UNCHANGED <<folder, folders>>
    BY <1>5 DEF LoadRecordElement, Loads, Begun
  <2>2. PICK o \in loadRecordFromXML(e) :
          IF o.status = "failure"
          THEN pc' = "aborted" /\ UNCHANGED <<doc, records>>
          ELSE /\ doc' = Tail(doc)
               /\ records' = IF o.status = "skipped" THEN records
                             ELSE AddRecord2([name |-> e.name, folder |-> folder,
                                              type |-> TypeRead(e), ctype |-> CtypeRead(e),
                                              data |-> o.data])
               /\ UNCHANGED pc
    BY <1>5 DEF LoadRecordElement
  <2> HIDE DEF e
  <2>3. CASE o.status = "failure"
    <3>1. /\ pc' = "aborted" /\ UNCHANGED <<doc, records>> /\ Failure \in loadRecordFromXML(e)
      BY <2>2, <2>3, FailureIsOne
    <3>2. Done' = Done /\ Read' = Read /\ Chart' = Chart /\ saved' = saved
      BY <1>4, <2>1, <3>1 DEF Done
    <3>3. \A i, x : Alone(i, x)' = Alone(i, x)
      BY <3>2 DEF Alone
    <3>4. DocInv'
      BY <2>1, <3>1, <3>2 DEF LoadInv, DocInv, Loadable
    <3>5. PlaceInv' /\ KeptInv'
      BY <2>1, <3>1, <3>2, <3>3 DEF LoadInv, PlaceInv, KeptInv
    <3>6. EndInv'
      BY <1>4, <2>1, <3>1 DEF LoadInv, EndInv, e
    <3> QED
      BY <3>4, <3>5, <3>6 DEF LoadInv
  <2>4. CASE o.status # "failure"
    <3>1. LoadStep /\ pc' = "load"
      BY <1>4, <2>1, <2>2, <2>4 DEF LoadStep
    <3>2. DocInv'
      BY <2>1, <3>1, Passes DEF LoadStep, LoadInv
    <3>3. PlaceInv'
      BY <2>1, <3>1, PlaceStep DEF e
    <3>4. KeptInv'
      <4>1. CASE o.status = "skipped"
        BY <2>2, <2>4, <3>1, <4>1, KeptStep DEF e
      <4>2. CASE o.status # "skipped"
        BY <2>1, <2>2, <2>4, <3>1, <4>2, KeptWithRecord DEF e
      <4> QED
        BY <4>1, <4>2
    <3>5. EndInv'
      BY <1>4, <2>1, <3>1 DEF LoadInv, EndInv
    <3> QED
      BY <3>2, <3>3, <3>4, <3>5 DEF LoadInv
  <2> QED
    BY <2>3, <2>4
<1>6. CASE LoadFolderElement \/ LoadFolderEnds
  <2> DEFINE e == Head(doc)
  <2>1. /\ pc = "load" /\ doc # << >> /\ doc' = Tail(doc) /\ UNCHANGED <<pc, records>>
        /\ Begun /\ e.tag # "Record"
        /\ \/ e.tag = "/Folder" /\ folder' = Root /\ UNCHANGED folders
           \/ e.tag = "Folder" /\ folder' = e.name
                /\ folders' = Append(folders, [name |-> e.name, ctype |-> e.ctype, perm |-> e.perm])
    BY <1>6 DEF LoadFolderElement, LoadFolderEnds, Loads, Begun
  <2> HIDE DEF e
  <2>2. LoadStep /\ pc' = "load"
    BY <1>4, <2>1 DEF LoadStep
  <2>3. DocInv'
    BY <2>1, <2>2, Passes DEF LoadStep, LoadInv
  <2>4. PlaceInv'
    BY <2>1, <2>2, PlaceStep DEF e
  <2>5. KeptInv'
    BY <2>1, <2>2, KeptStep DEF e
  <2>6. EndInv'
    BY <1>4, <2>1, <2>2 DEF LoadInv, EndInv
  <2> QED
    BY <2>3, <2>4, <2>5, <2>6 DEF LoadInv
<1>7. CASE LoadEndsAt
  <2>1. /\ pc = "load" /\ pc' = "loaded" /\ doc = << >> /\ Begun /\ Begun'
        /\ UNCHANGED <<doc, folder, folders, records>>
    BY <1>7 DEF LoadEndsAt, Step, Begun
  <2>2. Done' = Done /\ Read' = Read /\ Chart' = Chart /\ saved' = saved
    BY <1>4, <2>1 DEF Done
  <2>3. \A i, x : Alone(i, x)' = Alone(i, x)
    BY <2>2 DEF Alone
  <2>4. DocInv'
    BY <2>1, <2>2 DEF LoadInv, DocInv, Loadable
  <2>5. PlaceInv' /\ KeptInv'
    BY <2>1, <2>2, <2>3 DEF LoadInv, PlaceInv, KeptInv
  <2>6. EndInv'
    BY <1>4, <2>1 DEF LoadInv, EndInv
  <2> QED
    BY <2>4, <2>5, <2>6 DEF LoadInv
<1>8. CASE LoadOtherElement
  BY <1>1, <1>8 DEF LoadOtherElement
<1> QED
  BY <1>1, <1>2, <1>3, <1>5, <1>6, <1>7, <1>8 DEF Next

\* The invariants of merging and loading hold together.
PathAll == HashInv /\ PassedWritten /\ OrderInv /\ MadeInv /\ LoadInv

\* They do in every state, each by its own lemmas.
LEMMA PathAllHolds == Spec => []PathAll
<1>1. Init => PathAll
  BY InitKeeps, PassedWrittenInit, OrderInvInit, MadeInvInit, LoadInvInit DEF PathAll
<1>2. PathAll /\ [Next]_vars => PathAll'
  <2> SUFFICES ASSUME PathAll, [Next]_vars
               PROVE  PathAll'
    OBVIOUS
  <2>1. HashInv' /\ PassedWritten' /\ OrderInv'
    BY HashInvInductive, PassedWrittenInductive, OrderInvInductive DEF PathAll
  <2>2. MadeInv'
    BY MadeInvInductive DEF PathAll, OrderInv
  <2>3. LoadInv'
    BY <2>1, <2>2, LoadInvInductive DEF PathAll, OrderInv
  <2> QED
    BY <2>1, <2>2, <2>3 DEF PathAll
<1> QED
  BY <1>1, <1>2, PTL DEF Spec

-----------------------------------------------------------------------------
(* The theorems.                                                           *)

\* A record the repository has can only fail to be loaded when it Fails.
LEMMA OwnFails ==
  ASSUME NEW repo \in Repositories, NEW i \in 1 .. Len(FileOf(repo)),
         FileOf(repo)[i].tag = "Record", Failure \in loadRecordFromXML(FileOf(repo)[i])
  PROVE  \/ \E r \in RecordsOf(repo) : Fails(r)
         \/ \E e \in Range(repo.foreign) : e.tag = "Record" /\ Failure \in loadRecordFromXML(e)
<1> DEFINE own == PsmSysFolderToXMLHandle(repo)
           l == Lay(repo)
<1>1. CASE i \in 1 .. Len(own)
  <2>1. FileOf(repo)[i] = own[i]
    BY <1>1, FileIs
  <2>2. PICK r : IsElementOf(own[i], r) /\ With(r, l.cur[i]) \in RecordsOf(repo)
    BY <1>1, <2>1, FileLaid DEF Lays, Recorded
  <2>3. r \in RecordType /\ own[i] = addRecordToXMLHandle2(r)
    BY <2>2 DEF IsElementOf
  <2>4. Failure \in Outcomes(r.type, r.ctype, ValueText(r.type, r.ctype, r.data))
    BY <2>1, <2>3, ElementOfRecord
  <2>5. Fails(r)
    BY <2>3, <2>4, ValuesBack
  <2>6. Fails(With(r, l.cur[i]))
    BY <2>5 DEF Fails, With
  <2> QED
    BY <2>2, <2>6
<1>2. CASE \E j \in 1 .. Len(repo.foreign) : FileOf(repo)[i] = repo.foreign[j]
  <2>1. PICK j \in 1 .. Len(repo.foreign) : FileOf(repo)[i] = repo.foreign[j]
    BY <1>2
  <2>2. repo.foreign[j] \in Range(repo.foreign)
    BY RepositoryIs DEF Range
  <2> QED
    BY <2>1, <2>2
<1> QED
  BY <1>1, <1>2, FileIs

\* A load that is given up has met a record that can fail, in the repository or
\* among those put into the file by hand.
LEMMA AbortedHas ==
  ASSUME PathAll, pc = "aborted"
  PROVE  \/ \E r \in RecordsOf(saved) : Fails(r)
         \/ \E e \in Range(saved.foreign) : e.tag = "Record" /\ Failure \in loadRecordFromXML(e)
<1>1. HashInv /\ PathInv /\ MadeInv /\ DocInv /\ Begun
  BY DEF PathAll, OrderInv, LoadInv, Begun
<1>2. /\ doc # << >> /\ Head(doc).tag = "Record" /\ Failure \in loadRecordFromXML(Head(doc))
  BY DEF PathAll, LoadInv, EndInv
<1>3. Done + 1 \in 1 .. Len(Read) /\ Head(doc) = Read[Done + 1]
  BY <1>1, <1>2, DoneIs
<1>4. \E i \in 1 .. Len(FileOf(saved)) : /\ FileOf(saved)[i].tag = "Record"
                                         /\ Failure \in loadRecordFromXML(FileOf(saved)[i])
  <2>1. CASE path = "base"
    BY <1>2, <1>3, <2>1 DEF Read
  <2>2. CASE path = "platform"
    <3>1. Read = buffer
      BY <2>2 DEF Read
    <3>2. MadeOf(Head(doc)) /\ Head(doc) \in Entries
      BY <1>1, <1>3, <2>2, <3>1 DEF MadeInv, HashInv, HashType
    <3>3. Head(doc) # NoEntry
      BY <3>2 DEF Entries
    <3> QED
      BY <1>1, <1>2, <2>2, <3>2, <3>3, EntryOrigin
  <2> QED
    BY <1>1, <2>1, <2>2 DEF PathInv
<1>5. saved \in Repositories
  BY <1>1 DEF PathInv
<1> QED
  BY <1>4, <1>5, OwnFails

\* A load ends early only at a record whose text cannot be read, and a save dies only of
\* one whose text overruns the stack.
THEOREM LossContained == Spec => []LossIsContained
<1>1. PathAll => LossIsContained
  <2>1. PathAll => (pc = "overrun" => \E r \in RecordsOf(saved) : Overruns(r))
    BY DEF PathAll, OrderInv, PathInv
  <2> QED
    BY <2>1, AbortedHas DEF LossIsContained
<1> QED
  BY <1>1, PathAllHolds, PTL

\* After a load the folders are those that were saved, in their order.
THEOREM FoldersBack == Spec => []FoldersComeBack
<1>1. PathAll => FoldersComeBack
  <2> SUFFICES ASSUME PathAll, pc = "loaded"
               PROVE  folders = [i \in DOMAIN saved.folders |->
                                   [name |-> saved.folders[i].name,
                                    ctype |-> saved.folders[i].ctype,
                                    perm |-> saved.folders[i].perm]]
    BY DEF FoldersComeBack
  <2>1. HashInv /\ PathInv /\ MadeInv /\ DocInv /\ Begun /\ doc = << >>
    BY DEF PathAll, OrderInv, LoadInv, EndInv, Begun
  <2>2. Done = Len(Read)
    BY <2>1, DoneIs
  <2>3. folders = FoldersRead(saved.folders, Len(saved.folders))
    BY <2>1, <2>2, ChartIs DEF PathAll, LoadInv, PlaceInv
  <2>4. DOMAIN saved.folders = 1 .. Len(saved.folders)
    BY <2>1, RepositoryIs DEF PathInv
  <2> QED
    BY <2>3, <2>4 DEF FoldersRead, FolderRead
<1> QED
  BY <1>1, PathAllHolds, PTL

-----------------------------------------------------------------------------
(* What is saved comes back.                                               *)

\* No record was put into the file by hand.
NothingForeign(repo) == \A e \in Range(repo.foreign) : e.tag # "Record"

\* A record of the repository is at one place of the file, and without records
\* that were put into it by hand no other place has its name in its folder.
OwnAt(repo, i, r, x) ==
  /\ i \in 1 .. Len(FileOf(repo)) /\ r \in RecordType
  /\ FileOf(repo)[i] = addRecordToXMLHandle2(r) /\ x = With(r, Lay(repo).cur[i])
  /\ \A j \in 1 .. Len(FileOf(repo)) :
       /\ FileOf(repo)[j].tag = "Record" /\ FileOf(repo)[j].name = x.name
       /\ Lay(repo).cur[j] = x.folder
       => j = i

\* Every record of the repository has such a place.
LEMMA OwnPlace ==
  ASSUME NEW repo \in Repositories, NothingForeign(repo), NEW x \in RecordsOf(repo)
  PROVE  \E i, r : OwnAt(repo, i, r, x)
<1> DEFINE own == PsmSysFolderToXMLHandle(repo)
           F == FileOf(repo)
           l == Lay(repo)
<1>1. Recorded(own, l, RecordsOf(repo))
  BY FileLaid DEF Lays
<1>2. PICK i \in 1 .. Len(own) : \E r : IsElementOf(own[i], r) /\ x = With(r, l.cur[i])
  BY <1>1 DEF Recorded
<1>3. PICK r : IsElementOf(own[i], r) /\ x = With(r, l.cur[i])
  BY <1>2
<1>4. r \in RecordType /\ own[i] = addRecordToXMLHandle2(r)
  BY <1>3 DEF IsElementOf
<1>5. own[i].tag = "Record" /\ own[i].name = r.name
  BY <1>4, ElementOfRecord
<1>6. x.name = r.name /\ x.folder = l.cur[i]
  BY <1>3 DEF With
<1>7. i \in 1 .. Len(F) /\ F[i] = own[i]
  BY FileIs
<1>8. ASSUME NEW j \in 1 .. Len(F), F[j].tag = "Record", F[j].name = x.name, l.cur[j] = x.folder
      PROVE  j = i
  <2>1. CASE j \in 1 .. Len(own)
    <3>1. F[j] = own[j]
      BY <2>1, FileIs
    <3> QED
      BY <1>1, <1>5, <1>6, <1>8, <2>1, <3>1 DEF Recorded
  <2>2. CASE \E k \in 1 .. Len(repo.foreign) : F[j] = repo.foreign[k]
    <3>1. F[j] \in Range(repo.foreign)
      BY <2>2, RepositoryIs DEF Range
    <3> QED
      BY <1>8, <3>1 DEF NothingForeign
  <2> QED
    BY <2>1, <2>2, FileIs
<1>9. OwnAt(repo, i, r, x)
  BY <1>3, <1>4, <1>7, <1>8 DEF OwnAt
<1> QED
  BY <1>9

\* Without folders every record is in the provision folder.
LEMMA AllInRoot ==
  ASSUME NEW repo, repo.folders = << >>
  PROVE  \A x \in RecordsOf(repo) : x.folder = Root
<1>1. Range(repo.folders) = {}
  BY DEF Range
<1>2. RecordsOf(repo) = In(Root, repo.records)
  BY <1>1 DEF RecordsOf
<1> QED
  BY <1>2 DEF In

\* A Record of the file is of the repository, in its folder.
LEMMA OwnFolder ==
  ASSUME NEW repo \in Repositories, NothingForeign(repo),
         NEW j \in 1 .. Len(FileOf(repo)), FileOf(repo)[j].tag = "Record"
  PROVE  \E y \in RecordsOf(repo) : y.folder = Lay(repo).cur[j]
<1> DEFINE own == PsmSysFolderToXMLHandle(repo)
<1>1. CASE j \in 1 .. Len(own)
  <2>1. own[j].tag = "Record"
    BY <1>1, FileIs
  <2>2. PICK r : With(r, Lay(repo).cur[j]) \in RecordsOf(repo)
    BY <1>1, <2>1, FileLaid DEF Lays, Recorded
  <2> QED
    BY <2>2 DEF With
<1>2. CASE \E k \in 1 .. Len(repo.foreign) : FileOf(repo)[j] = repo.foreign[k]
  <2>1. FileOf(repo)[j] \in Range(repo.foreign)
    BY <1>2, RepositoryIs DEF Range
  <2> QED
    BY <2>1 DEF NothingForeign
<1> QED
  BY <1>1, <1>2, FileIs

\* The element of a record that is Storable gives the record.
LEMMA GivesRecord ==
  ASSUME NEW r \in RecordType, NEW c, Storable(With(r, c))
  PROVE  LET e == addRecordToXMLHandle2(r)
             x == With(r, c)
         IN  /\ e.tag = "Record" /\ loadRecordFromXML(e) = {Added(x.data)}
             /\ x = [name |-> e.name, folder |-> c, type |-> TypeRead(e),
                     ctype |-> CtypeRead(e), data |-> x.data]
             /\ path = "platform" => Entry(e) = e
<1> DEFINE e == addRecordToXMLHandle2(r)
           x == With(r, c)
<1>1. x.name = r.name /\ x.type = r.type /\ x.ctype = r.ctype /\ x.data = r.data
      /\ x = [name |-> r.name, folder |-> c, type |-> r.type, ctype |-> r.ctype,
              data |-> r.data]
  BY DEF With
<1>2. ReadsBack(r) /\ (path = "platform" => ~IsLong(ValueText(r.type, r.ctype, r.data)))
  BY <1>1 DEF Storable, ReadsBack, Fails
<1> HIDE DEF x
<1>3. /\ e.tag = "Record" /\ e.name = r.name /\ e.type # NoAttr /\ e.name # NoName
      /\ TypeRead(e) = r.type /\ CtypeRead(e) = r.ctype
      /\ e.text = ValueText(r.type, r.ctype, r.data)
      /\ [e EXCEPT !.perm = NoAttr] = e
      /\ loadRecordFromXML(e) = Outcomes(r.type, r.ctype, ValueText(r.type, r.ctype, r.data))
  BY ElementOfRecord
<1>4. loadRecordFromXML(e) = {Added(r.data)}
  BY <1>2, <1>3, ValuesBack
<1> HIDE DEF e
<1>5. path = "platform" => Entry(e) = e
  BY <1>2, <1>3 DEF Entry
<1> QED
  BY <1>1, <1>3, <1>4, <1>5 DEF e, x

\* On the base path a record's element is alone in the file.
LEMMA AloneOnBase ==
  ASSUME path = "base", saved \in Repositories, NEW x, Storable(x),
         NEW i, NEW r, OwnAt(saved, i, r, x)
  PROVE  i \in 1 .. Len(Read) /\ Alone(i, x)
<1>1. Read = FileOf(saved) /\ Chart = Lay(saved)
  BY DEF Read, Chart
<1>2. /\ i \in 1 .. Len(Read) /\ r \in RecordType /\ Read[i] = addRecordToXMLHandle2(r)
      /\ x = With(r, Chart.cur[i])
      /\ \A j \in 1 .. Len(Read) :
           Read[j].tag = "Record" /\ Read[j].name = x.name /\ Chart.cur[j] = x.folder => j = i
  BY <1>1 DEF OwnAt
<1>3. Storable(With(r, Chart.cur[i]))
  BY <1>2
<1>4. /\ Read[i].tag = "Record" /\ loadRecordFromXML(Read[i]) = {Added(x.data)}
      /\ x = [name |-> Read[i].name, folder |-> Chart.cur[i], type |-> TypeRead(Read[i]),
              ctype |-> CtypeRead(Read[i]), data |-> x.data]
  BY <1>2, <1>3, GivesRecord
<1> QED
  BY <1>2, <1>4 DEF Alone

\* On the platform's path its line is the only one of the file for the name.
LEMMA OneOffer ==
  ASSUME path = "platform", PathInv, NothingForeign(saved),
         NEW x \in RecordsOf(saved), Storable(x),
         NEW i, NEW r, OwnAt(saved, i, r, x)
  PROVE  /\ i \in DOMAIN AllItems /\ AllItems[i].entry = addRecordToXMLHandle2(r)
         /\ Offers("file", x.name) = {i}
<1> DEFINE F == FileOf(saved)
           all == AllItems
           e == addRecordToXMLHandle2(r)
           l == Lay(saved)
<1>1. saved \in Repositories /\ saved.folders = << >> /\ sources \in Sources
  BY DEF PathInv
<1>2. F \in Seq(FileElements)
  BY <1>1, FileWithoutFolders
<1>3. /\ Len(F) \in Nat /\ Len(all) \in Nat /\ Len(F) <= Len(all)
      /\ \A j \in 1 .. Len(F) : all[j].entry = Entry(F[j]) /\ all[j].source = "file"
      /\ \A j \in 1 .. Len(all) : j > Len(F) => OtherItem(all[j], sources)
  BY <1>1, <1>2, ItemsAre DEF AllItems
<1>4. DOMAIN all = 1 .. Len(all)
  BY AllItemsOrdered DEF InOrder
<1> HIDE DEF all
<1>5. /\ i \in 1 .. Len(F) /\ r \in RecordType /\ F[i] = e /\ x = With(r, l.cur[i])
      /\ \A j \in 1 .. Len(F) :
           F[j].tag = "Record" /\ F[j].name = x.name /\ l.cur[j] = x.folder => j = i
  BY DEF OwnAt
<1>6. x.name = r.name
  BY <1>5 DEF With
<1>7. Entry(e) = e /\ e.name = x.name /\ e.tag = "Record"
  <2>1. Storable(With(r, l.cur[i]))
    BY <1>5
  <2> QED
    BY <1>5, <1>6, <2>1, GivesRecord, ElementOfRecord
<1>8. i \in 1 .. Len(all) /\ all[i].entry = e /\ all[i].source = "file"
  BY <1>3, <1>5, <1>7
<1>9. e # NoEntry
  <2>1. DOMAIN F = 1 .. Len(F)
    BY <1>2
  <2>2. i \in DOMAIN F
    BY <1>5, <2>1
  <2> QED
    BY <1>1, <1>5, <2>2, NoEntryAssumption
<1>10. i \in Offers("file", x.name)
  BY <1>4, <1>7, <1>8, <1>9 DEF Offers, all
<1>11. ASSUME NEW j \in Offers("file", x.name)
       PROVE  j = i
  <2>1. /\ j \in 1 .. Len(all) /\ all[j].source = "file"
        /\ all[j].entry # NoEntry /\ all[j].entry.name = x.name
    BY <1>4, <1>11 DEF Offers, all
  <2>2. j \in 1 .. Len(F)
    BY <1>3, <2>1 DEF OtherItem
  <2>3. F[j] \in FileElements /\ Entry(F[j]) # NoEntry /\ Entry(F[j]).name = x.name
    BY <1>2, <1>3, <2>1, <2>2
  <2>4. F[j].tag = "Record" /\ F[j].name = x.name
    BY <2>3, EntryLoads
  <2>5. l.cur[j] = x.folder
    <3>1. \E y \in RecordsOf(saved) : y.folder = l.cur[j]
      BY <1>1, <2>2, <2>4, OwnFolder
    <3> QED
      BY <1>1, <3>1, AllInRoot
  <2> QED
    BY <1>5, <2>2, <2>4, <2>5
<1> QED
  BY <1>4, <1>8, <1>10, <1>11 DEF all

\* A line of the partner's is one of its parameters.
LEMMA PartnersOffer ==
  ASSUME path = "platform", PathInv, NEW n, Offers("partner", n) # {}
  PROVE  \E p \in Range(sources.partner) : p.name = n
<1> DEFINE F == FileOf(saved)
           all == AllItems
<1>1. saved \in Repositories /\ saved.folders = << >> /\ sources \in Sources
  BY DEF PathInv
<1>2. Len(F) \in Nat
  BY <1>1, FileIs
<1>3. /\ Len(all) \in Nat /\ DOMAIN all = 1 .. Len(all)
      /\ \A j \in 1 .. Len(F) : all[j].source = "file"
      /\ \A j \in 1 .. Len(all) : j > Len(F) => OtherItem(all[j], sources)
  BY <1>1, ItemsAre, AllItemsOrdered DEF AllItems, InOrder
<1>4. PICK j \in DOMAIN all : all[j].source = "partner" /\ all[j].entry.name = n
  BY DEF Offers
<1> HIDE DEF all, F
<1>5. OtherItem(all[j], sources)
  <2>1. j \in 1 .. Len(all) /\ (j \in 1 .. Len(F) \/ j > Len(F))
    BY <1>2, <1>3, <1>4
  <2> QED
    BY <1>3, <1>4, <2>1
<1>6. PICK p : p \in Range(sources.partner) /\ all[j].entry = ParamElement(p)
  BY <1>4, <1>5 DEF OtherItem
<1> QED
  BY <1>4, <1>6 DEF ParamElement, Element

\* On the platform's path a record is alone in the buffer, unless the partner has
\* one of its name.
LEMMA AloneOnPlatform ==
  ASSUME PathAll, path = "platform", phase = "done", NothingForeign(saved),
         NEW x \in RecordsOf(saved), Storable(x), NEW i, NEW r, OwnAt(saved, i, r, x),
         Offers("partner", x.name) = {}
  PROVE  \E f \in 1 .. Len(Read) : Alone(f, x)
<1> DEFINE n == x.name
           e == addRecordToXMLHandle2(r)
           found == {a \in DOMAIN buffer : buffer[a].name = n}
<1>1. HashInv /\ OrderInv /\ PathInv /\ saved \in Repositories /\ saved.folders = << >>
  BY DEF PathAll, OrderInv, PathInv
<1>2. r \in RecordType /\ x = With(r, Lay(saved).cur[i])
  BY DEF OwnAt
<1>3. n = r.name /\ n \in Names /\ x.folder = Root /\ x = With(r, Root)
  <2>1. x.name = r.name /\ x.folder = Lay(saved).cur[i]
    BY <1>2 DEF With
  <2>2. x.folder = Root
    BY <1>1, AllInRoot
  <2> QED
    BY <1>2, <2>1, <2>2 DEF RecordType
<1>4. AllItems[i].entry = e /\ Offers("file", n) = {i}
  BY <1>1, OneOffer
<1>5. /\ (\E source \in Range(Rank) : Offers(source, n) # {}) <=> found # {}
      /\ (\A a, b \in Offers("file", n) : a = b) =>
           \A a, b \in found : a = b /\ \E k \in DOMAIN AllItems :
                               Decides(k, n) /\ buffer[a] = AllItems[k].entry
  BY <1>1, <1>3, HandedOut
<1>6. DOMAIN Rank = 1 .. 5 /\ Rank[1] = "partner" /\ Rank[2] = "file"
  BY DEF Rank
<1>7. "file" \in Range(Rank)
  BY <1>6 DEF Range
<1> HIDE DEF n, e, found
<1>8. PICK f \in found : \E k \in DOMAIN AllItems :
                          Decides(k, n) /\ buffer[f] = AllItems[k].entry
  BY <1>4, <1>5, <1>7
<1>9. \A a \in found : a = f
  BY <1>4, <1>5
<1>10. PICK k \in DOMAIN AllItems : Decides(k, n) /\ buffer[f] = AllItems[k].entry
  BY <1>8
<1>11. k = i
  <2>1. PICK m \in 1 .. 5 : /\ k \in Offers(Rank[m], n)
                            /\ \A l \in 1 .. m - 1 : Offers(Rank[l], n) = {}
    BY <1>6, <1>10 DEF Decides
  <2>2. m # 1
    BY <1>6, <2>1 DEF n
  <2>3. m <= 2
    <3>1. m > 2 => 2 \in 1 .. m - 1
      OBVIOUS
    <3> QED
      BY <1>4, <1>6, <2>1, <3>1
  <2> QED
    BY <1>4, <1>6, <2>1, <2>2, <2>3
<1>12. buffer[f] = e
  BY <1>4, <1>10, <1>11
<1>13. DOMAIN buffer = 1 .. Len(buffer) /\ Len(buffer) \in Nat
  BY <1>1 DEF HashInv, HashType
<1>14. Read = buffer /\ f \in 1 .. Len(Read)
  BY <1>13 DEF Read, found
<1>15. \A j \in 0 .. Len(buffer) : Chart.cur[j] = Root
  BY DEF Chart
<1>16. Chart.cur[f] = Root
  BY <1>13, <1>14, <1>15
<1>17. /\ e.tag = "Record" /\ loadRecordFromXML(e) = {Added(x.data)}
       /\ x = [name |-> e.name, folder |-> Root, type |-> TypeRead(e),
               ctype |-> CtypeRead(e), data |-> x.data]
  <2>1. Storable(With(r, Root))
    BY <1>3
  <2> QED
    BY <1>2, <1>3, <2>1, GivesRecord DEF e
<1>18. \A j \in 1 .. Len(Read) : Read[j].name = x.name => j = f
  BY <1>9, <1>13, <1>14 DEF found, n
<1> QED
  BY <1>12, <1>14, <1>16, <1>17, <1>18 DEF Alone

\* A load that has ended has kept every record that is alone.
LEMMA AloneKept ==
  ASSUME PathAll, pc = "loaded", NEW i \in 1 .. Len(Read), NEW x, Alone(i, x)
  PROVE  x \in records
<1>1. HashInv /\ PathInv /\ MadeInv /\ DocInv /\ Begun /\ doc = << >>
  BY DEF PathAll, OrderInv, LoadInv, EndInv, Begun
<1>2. Done = Len(Read)
  BY <1>1, DoneIs
<1> QED
  BY <1>1, <1>2 DEF PathAll, LoadInv, KeptInv

\* A repository of values that are read back as they were is loaded to its end, and
\* each of its records is what it was saved as, unless the partner has its name.
THEOREM SavedBack == Spec => []SavedComesBack
<1>1. PathAll => SavedComesBack
  <2> SUFFICES ASSUME PathAll, \A r \in RecordsOf(saved) : Storable(r), NothingForeign(saved),
                      pc \in {"loaded", "aborted", "overrun"}
               PROVE  /\ pc = "loaded"
                      /\ \A x \in RecordsOf(saved) :
                           \/ x \in records
                           \/ path = "platform" /\ \E p \in Range(sources.partner) : p.name = x.name
    BY DEF SavedComesBack, NothingForeign
  <2>1. HashInv /\ PathInv /\ saved \in Repositories /\ path \in {"platform", "base"}
    BY DEF PathAll, OrderInv, PathInv
  <2>2. pc = "loaded"
    <3>1. pc # "aborted"
      BY AbortedHas DEF Storable, NothingForeign
    <3>2. pc # "overrun"
      BY <2>1 DEF PathInv, Storable
    <3> QED
      BY <3>1, <3>2
  <2>3. ASSUME NEW x \in RecordsOf(saved)
        PROVE  \/ x \in records
               \/ path = "platform" /\ \E p \in Range(sources.partner) : p.name = x.name
    <3>1. Storable(x)
      OBVIOUS
    <3>2. PICK i, r : OwnAt(saved, i, r, x)
      BY <2>1, OwnPlace
    <3>3. CASE path = "base"
      <4>1. i \in 1 .. Len(Read) /\ Alone(i, x)
        BY <2>1, <3>1, <3>2, <3>3, AloneOnBase
      <4> QED
        BY <2>2, <4>1, AloneKept
    <3>4. CASE path = "platform"
      <4>1. phase = "done"
        BY <2>2, <3>4 DEF PathAll, LoadInv, EndInv, Begun
      <4>2. CASE Offers("partner", x.name) # {}
        BY <2>1, <3>4, <4>2, PartnersOffer
      <4>3. CASE Offers("partner", x.name) = {}
        <5>1. \E f \in 1 .. Len(Read) : Alone(f, x)
          BY <3>1, <3>2, <3>4, <4>1, <4>3, AloneOnPlatform
        <5> QED
          BY <2>2, <5>1, AloneKept
      <4> QED
        BY <4>2, <4>3
    <3> QED
      BY <2>1, <3>3, <3>4
  <2> QED
    BY <2>2, <2>3
<1> QED
  BY <1>1, PathAllHolds, PTL
=============================================================================
