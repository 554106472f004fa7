------------------------ MODULE PsmRecordMapProofs ------------------------
(***************************************************************************)
(* The table of PsmRecordHash implements RecordMap, and what               *)
(* ssp_CfmReadCurConfig hands out is for each name the value of the source *)
(* that goes first, proved for every set of names, hash and sources.       *)
(***************************************************************************)
EXTENDS PsmRecordHashProofs

-----------------------------------------------------------------------------
(* The first entry of a name in a chain.                                   *)

First(S) == CHOOSE i \in S : \A j \in S : i <= j

\* The places of chain c at which name n stands, the records being those of h.
Places(h, c, n) == {i \in 1 .. Len(c) : h[c[i]].name = n}
Look(h, c, n) == IF Places(h, c, n) = {} THEN NoEntry ELSE h[c[First(Places(h, c, n))]]

\* The first of a set is the one that is below all others.
LEMMA FirstIs ==
  ASSUME NEW S \in SUBSET Nat, NEW i \in S, \A j \in S : i <= j
  PROVE  First(S) = i
<1>1. First(S) \in S /\ \A j \in S : First(S) <= j
  BY DEF First
<1>2. First(S) \in Nat /\ i \in Nat /\ First(S) <= i /\ i <= First(S)
  BY <1>1
<1> QED
  BY <1>2

\* A set of numbers that is not empty has a first.
LEMMA FirstFound ==
  ASSUME NEW S \in SUBSET Nat, S # {}
  PROVE  First(S) \in S /\ \A j \in S : First(S) <= j
BY LeastOfSet DEF First

\* The chains insert_record makes, the new record being the next of heap h.
Prepended(h, c) == <<Len(h) + 1>> \o c
Replaced(h, c, n) == [c EXCEPT ![First(Places(h, c, n))] = Len(h) + 1]

\* A heap, a chain on it and an entry that is added.
ChainOn(h, c) ==
  h \in Seq(Entries) /\ c \in Seq(Nat) /\ \A i \in 1 .. Len(c) : c[i] \in 1 .. Len(h)

\* An entry of a chain is none of NoEntry.
LEMMA LookFound ==
  ASSUME NEW h, NEW c, ChainOn(h, c), NEW n, Places(h, c, n) # {}
  PROVE  /\ First(Places(h, c, n)) \in 1 .. Len(c)
         /\ Look(h, c, n) \in Entries /\ Look(h, c, n).name = n /\ Look(h, c, n) # NoEntry
<1>1. Places(h, c, n) \in SUBSET Nat
  BY DEF Places
<1>2. First(Places(h, c, n)) \in Places(h, c, n)
  BY <1>1, FirstFound
<1>3. Look(h, c, n) = h[c[First(Places(h, c, n))]]
  BY DEF Look
<1>4. First(Places(h, c, n)) \in 1 .. Len(c) /\ h[c[First(Places(h, c, n))]].name = n
  BY <1>2 DEF Places
<1>5. h[c[First(Places(h, c, n))]] \in Entries
  BY <1>4 DEF ChainOn
<1> QED
  BY <1>3, <1>4, <1>5, EntriesNamed

\* A record more on the heap changes no chain.
LEMMA LookOnLongerHeap ==
  ASSUME NEW h, NEW c, ChainOn(h, c), NEW e \in Entries, NEW n
  PROVE  /\ Places(Append(h, e), c, n) = Places(h, c, n)
         /\ Look(Append(h, e), c, n) = Look(h, c, n)
<1> DEFINE g == Append(h, e)
<1>1. h \in Seq(Entries) /\ \A r \in 1 .. Len(h) : g[r] = h[r]
  BY DEF ChainOn
<1>2. \A i \in 1 .. Len(c) : g[c[i]] = h[c[i]]
  BY <1>1 DEF ChainOn
<1> HIDE DEF g
<1>3. Places(g, c, n) = Places(h, c, n)
  BY <1>2 DEF Places
<1>4. CASE Places(h, c, n) = {}
  BY <1>3, <1>4 DEF g, Look
<1>5. CASE Places(h, c, n) # {}
  <2>1. First(Places(h, c, n)) \in 1 .. Len(c)
    BY <1>5, LookFound
  <2> QED
    BY <1>2, <1>3, <1>5, <2>1 DEF g, Look
<1> QED
  BY <1>4, <1>5

\* load_records: the name that is there is found as before, a new one at the end.
LEMMA LookAppended ==
  ASSUME NEW h, NEW c, ChainOn(h, c), NEW e \in Entries, NEW n
  PROVE  LET g == Append(h, e)
             d == Append(c, Len(h) + 1)
         IN  /\ ChainOn(g, d)
             /\ Places(g, d, n) = Places(h, c, n) \cup (IF e.name = n THEN {Len(c) + 1} ELSE {})
             /\ Look(g, d, n) = IF e.name = n /\ Places(h, c, n) = {} THEN e ELSE Look(h, c, n)
<1> DEFINE g == Append(h, e)
           d == Append(c, Len(h) + 1)
           P == Places(h, c, n)
<1>1. /\ h \in Seq(Entries) /\ Len(h) \in Nat /\ g \in Seq(Entries) /\ Len(g) = Len(h) + 1
      /\ g[Len(h) + 1] = e
      /\ c \in Seq(Nat) /\ Len(c) \in Nat /\ d \in Seq(Nat) /\ Len(d) = Len(c) + 1
      /\ d[Len(c) + 1] = Len(h) + 1 /\ \A i \in 1 .. Len(c) : d[i] = c[i]
  BY DEF ChainOn
<1>2. \A i \in 1 .. Len(c) : c[i] \in 1 .. Len(h) /\ g[c[i]] = h[c[i]]
  BY DEF ChainOn
<1> HIDE DEF g, d
<1>3. \A i \in 1 .. Len(d) : i \in 1 .. Len(c) \/ i = Len(c) + 1
  BY <1>1
<1>4. ChainOn(g, d)
  <2>1. \A i \in 1 .. Len(c) : d[i] \in 1 .. Len(g)
    BY <1>1, <1>2
  <2>2. d[Len(c) + 1] \in 1 .. Len(g)
    BY <1>1
  <2> QED
    BY <1>1, <1>3, <2>1, <2>2 DEF ChainOn
<1>5. Places(g, d, n) = P \cup (IF e.name = n THEN {Len(c) + 1} ELSE {})
  BY <1>1, <1>2, <1>3 DEF Places
<1>6. Look(g, d, n) = IF e.name = n /\ P = {} THEN e ELSE Look(h, c, n)
  <2>1. P \in SUBSET Nat /\ P \subseteq 1 .. Len(c)
    BY DEF Places
  <2>2. CASE P = {} /\ e.name # n
    BY <1>5, <2>2 DEF Look
  <2>3. CASE P = {} /\ e.name = n
    <3>1. Places(g, d, n) = {Len(c) + 1}
      BY <1>5, <2>3
    <3>2. First({Len(c) + 1}) = Len(c) + 1
      BY <1>1 DEF First
    <3> QED
      BY <1>1, <2>3, <3>1, <3>2 DEF Look
  <2>4. CASE P # {}
    <3>1. First(P) \in P /\ \A j \in P : First(P) <= j
      BY <2>1, <2>4, FirstFound
    <3>2. Places(g, d, n) \in SUBSET Nat /\ First(P) \in Places(g, d, n)
          /\ \A j \in Places(g, d, n) : First(P) <= j
      BY <1>1, <1>5, <2>1, <3>1
    <3> HIDE DEF P
    <3>3. First(Places(g, d, n)) = First(P)
      BY <3>2, FirstIs
    <3>4. g[d[First(P)]] = h[c[First(P)]]
      BY <1>1, <1>2, <2>1, <3>1
    <3> QED
      BY <2>4, <3>2, <3>3, <3>4 DEF Look, P
  <2> QED
    BY <2>2, <2>3, <2>4
<1> QED
  BY <1>4, <1>5, <1>6 DEF g, d

\* insert_record: a new name is found at the head, the others as before.
LEMMA LookPrepended ==
  ASSUME NEW h, NEW c, ChainOn(h, c), NEW e \in Entries, NEW n, Places(h, c, e.name) = {}
  PROVE  LET g == Append(h, e)
             d == Prepended(h, c)
         IN  /\ ChainOn(g, d)
             /\ Places(g, d, n) = IF e.name = n THEN {1} ELSE {i + 1 : i \in Places(h, c, n)}
             /\ Look(g, d, n) = IF e.name = n THEN e ELSE Look(h, c, n)
<1> DEFINE g == Append(h, e)
           d == <<Len(h) + 1>> \o c
           P == Places(h, c, n)
<1>0. h \in Seq(Entries) /\ c \in Seq(Nat) /\ Len(h) \in Nat /\ Len(c) \in Nat
  BY DEF ChainOn
<1>1. /\ g \in Seq(Entries) /\ Len(g) = Len(h) + 1 /\ g[Len(h) + 1] = e
      /\ d \in Seq(Nat) /\ Len(d) = Len(c) + 1
      /\ d[1] = Len(h) + 1 /\ \A i \in 1 .. Len(c) : d[i + 1] = c[i]
  BY <1>0
<1>2. \A i \in 1 .. Len(c) : c[i] \in 1 .. Len(h) /\ g[c[i]] = h[c[i]]
  BY DEF ChainOn
<1> HIDE DEF g, d
<1>3. \A i \in 1 .. Len(d) : i = 1 \/ (i - 1 \in 1 .. Len(c) /\ d[i] = c[i - 1])
  <2> SUFFICES ASSUME NEW i \in 1 .. Len(d), i # 1
               PROVE  i - 1 \in 1 .. Len(c) /\ d[i] = c[i - 1]
    OBVIOUS
  <2>1. i - 1 \in 1 .. Len(c) /\ (i - 1) + 1 = i
    BY <1>0, <1>1
  <2> QED
    BY <1>1, <2>1
<1>4. ChainOn(g, d)
  <2>1. \A i \in 1 .. Len(d) : d[i] \in 1 .. Len(g)
    <3> SUFFICES ASSUME NEW i \in 1 .. Len(d)
                 PROVE  d[i] \in 1 .. Len(g)
      OBVIOUS
    <3>1. CASE i = 1
      BY <1>0, <1>1, <3>1
    <3>2. CASE i # 1
      <4>1. i - 1 \in 1 .. Len(c) /\ d[i] = c[i - 1]
        BY <1>3, <3>2
      <4>2. c[i - 1] \in 1 .. Len(h)
        BY <1>2, <4>1
      <4> QED
        BY <1>0, <1>1, <4>1, <4>2
    <3> QED
      BY <3>1, <3>2
  <2> QED
    BY <1>1, <2>1 DEF ChainOn
<1>5. Places(g, d, n) = IF e.name = n THEN {1} ELSE {i + 1 : i \in P}
  <2>1. \A i \in Places(g, d, n) : i # 1 => i - 1 \in P
    BY <1>2, <1>3 DEF Places
  <2>2. 1 \in Places(g, d, n) <=> e.name = n
    BY <1>0, <1>1 DEF Places
  <2>3. \A i \in P : i + 1 \in Places(g, d, n)
    BY <1>0, <1>1, <1>2 DEF Places
  <2>4. CASE e.name = n
    BY <2>1, <2>2, <2>4
  <2>5. CASE e.name # n
    <3>1. \A i \in Places(g, d, n) : i \in Nat /\ i = (i - 1) + 1
      BY <1>0, <1>1 DEF Places
    <3> HIDE DEF P
    <3>2. \A i \in Places(g, d, n) : i \in {k + 1 : k \in P}
      BY <2>1, <2>2, <2>5, <3>1
    <3> QED
      BY <2>3, <2>5, <3>2
  <2> QED
    BY <2>4, <2>5
<1>6. Look(g, d, n) = IF e.name = n THEN e ELSE Look(h, c, n)
  <2>1. P \in SUBSET Nat /\ P \subseteq 1 .. Len(c)
    BY DEF Places
  <2>2. CASE e.name = n
    <3>1. First({1}) = 1
      BY DEF First
    <3> QED
      BY <1>0, <1>1, <1>5, <2>2, <3>1 DEF Look
  <2>3. CASE e.name # n /\ P = {}
    BY <1>5, <2>3 DEF Look
  <2>4. CASE e.name # n /\ P # {}
    <3>1. First(P) \in P /\ \A j \in P : First(P) <= j
      BY <2>1, <2>4, FirstFound
    <3> DEFINE f == First(P) + 1
    <3> HIDE DEF P
    <3>2. Places(g, d, n) = {i + 1 : i \in P}
      BY <1>5, <2>4 DEF P
    <3>7. First(P) \in Nat /\ \A i \in P : i \in Nat /\ First(P) <= i
      BY <2>1, <3>1
    <3>6. \A i \in P : i \in Nat /\ i + 1 \in Nat /\ First(P) + 1 <= i + 1
      BY <3>7
    <3>3. Places(g, d, n) \in SUBSET Nat /\ f \in Places(g, d, n)
          /\ \A j \in Places(g, d, n) : f <= j
      BY <3>1, <3>2, <3>6
    <3>4. First(Places(g, d, n)) = f
      <4> HIDE DEF f
      <4> QED BY <3>3, FirstIs
    <3>5. g[d[f]] = h[c[First(P)]]
      BY <1>1, <1>2, <2>1, <3>1
    <3> QED
      BY <2>4, <3>3, <3>4, <3>5 DEF Look, P
  <2> QED
    BY <2>2, <2>3, <2>4
<1> QED
  BY <1>4, <1>5, <1>6 DEF g, d, Prepended

\* insert_record with overwrite: the first of the name is the new one.
LEMMA LookReplaced ==
  ASSUME NEW h, NEW c, ChainOn(h, c), NEW e \in Entries, NEW n, Places(h, c, e.name) # {}
  PROVE  LET g == Append(h, e)
             d == Replaced(h, c, e.name)
         IN  /\ ChainOn(g, d)
             /\ Places(g, d, n) = Places(h, c, n)
             /\ Look(g, d, n) = IF e.name = n THEN e ELSE Look(h, c, n)
<1> DEFINE g == Append(h, e)
           p == First(Places(h, c, e.name))
           d == [c EXCEPT ![p] = Len(h) + 1]
           P == Places(h, c, n)
<1>0. h \in Seq(Entries) /\ c \in Seq(Nat) /\ Len(h) \in Nat /\ Len(c) \in Nat
  BY DEF ChainOn
<1>1. p \in 1 .. Len(c) /\ p \in Places(h, c, e.name)
  <2>1. Places(h, c, e.name) \in SUBSET Nat /\ Places(h, c, e.name) \subseteq 1 .. Len(c)
    BY DEF Places
  <2> QED
    BY <2>1, FirstFound
<1> HIDE DEF p
<1>2. /\ g \in Seq(Entries) /\ Len(g) = Len(h) + 1 /\ g[Len(h) + 1] = e
      /\ d \in Seq(Nat) /\ Len(d) = Len(c)
      /\ d[p] = Len(h) + 1 /\ \A i \in 1 .. Len(c) : i # p => d[i] = c[i]
  BY <1>0, <1>1
<1>3. \A i \in 1 .. Len(c) : c[i] \in 1 .. Len(h) /\ g[c[i]] = h[c[i]]
  BY DEF ChainOn
<1> HIDE DEF g, d
<1>4. ChainOn(g, d)
  <2>2. \A i \in 1 .. Len(c) : c[i] \in 1 .. Len(g)
    BY <1>0, <1>2, <1>3
  <2>3. Len(h) + 1 \in 1 .. Len(g)
    BY <1>0, <1>2
  <2>1. \A i \in 1 .. Len(c) : d[i] \in 1 .. Len(g)
    BY <1>2, <2>2, <2>3
  <2> QED
    BY <1>2, <2>1 DEF ChainOn
<1>5. Places(g, d, n) = P
  <2>1. h[c[p]].name = e.name
    BY <1>1 DEF Places
  <2> QED
    BY <1>1, <1>2, <1>3, <2>1 DEF Places
<1>6. Look(g, d, n) = IF e.name = n THEN e ELSE Look(h, c, n)
  <2>1. P \in SUBSET Nat /\ P \subseteq 1 .. Len(c)
    BY DEF Places
  <2>2. CASE P = {}
    BY <1>5, <2>2 DEF Look
  <2>3. CASE P # {} /\ e.name = n
    BY <1>2, <1>5, <2>3 DEF Look, p
  <2>4. CASE P # {} /\ e.name # n
    <3>1. First(P) \in P
      BY <2>1, <2>4, FirstFound
    <3>2. First(P) # p
      BY <1>1, <2>4, <3>1 DEF Places
    <3>3. g[d[First(P)]] = h[c[First(P)]]
      BY <1>2, <1>3, <2>1, <3>1, <3>2
    <3> QED
      BY <1>5, <2>4, <3>3 DEF Look
  <2> QED
    BY <2>2, <2>3, <2>4
<1> QED
  BY <1>4, <1>5, <1>6 DEF g, d, p, Replaced

-----------------------------------------------------------------------------
(* The entry of a name in the table and the buffer.                        *)

Written(n) == {i \in 1 .. Len(buffer) : buffer[i].name = n}
Value(n) ==
  IF Written(n) # {} THEN buffer[First(Written(n))]
  ELSE IF phase \in {"free", "failed"} THEN NoEntry
  ELSE Look(heap, rec_hash[Hash[n]], n)

\* TableEntry, with the places as numbers.
LEMMA TableEntryIsValue == HashType => \A n \in Names : TableEntry(n) = Value(n)
<1> SUFFICES ASSUME HashType, NEW n \in Names
             PROVE  TableEntry(n) = Value(n)
  OBVIOUS
<1> DEFINE c == rec_hash[Hash[n]]
<1>1. Hash[n] \in 1 .. Buckets
  BY HashAssumption
<1>2. c \in Seq(Nat) /\ buffer \in Seq(Entries)
  BY <1>1 DEF HashType
<1>3. DOMAIN c = 1 .. Len(c) /\ DOMAIN buffer = 1 .. Len(buffer)
  BY <1>2
<1> HIDE DEF c
<1>4. Chain(n) = c /\ Matches(c, n) = Places(heap, c, n)
  BY <1>3 DEF Chain, Matches, Places, c
<1>5. FirstMatch(c, n) = First(Places(heap, c, n))
  BY <1>4 DEF FirstMatch, First
<1>6. {i \in DOMAIN buffer : buffer[i].name = n} = Written(n)
  BY <1>3 DEF Written
<1>7. Look(heap, c, n) = IF Matches(c, n) # {} THEN heap[c[FirstMatch(c, n)]] ELSE NoEntry
  BY <1>4, <1>5 DEF Look
<1> QED
  <2> DEFINE F == {i \in DOMAIN buffer : buffer[i].name = n}
             f == CHOOSE i \in F : \A j \in F : i <= j
  <2>1. TableEntry(n) = IF F # {} THEN buffer[f]
                        ELSE IF phase \in {"free", "failed"} THEN NoEntry
                        ELSE IF Matches(Chain(n), n) # {}
                             THEN heap[Chain(n)[FirstMatch(Chain(n), n)]] ELSE NoEntry
    BY DEF TableEntry
  <2>2. F = Written(n) /\ f = First(Written(n))
    BY <1>6 DEF First
  <2> HIDE DEF F, f
  <2> QED
    BY <1>4, <1>7, <2>1, <2>2 DEF Value, c

\* The primed form of TableEntryIsValue.
LEMMA TableEntryIsValueNext ==
  HashType' => \A n \in Names : TableEntry(n)' = Value(n)'
<1>1. (HashType => \A n \in Names : TableEntry(n) = Value(n))'
  BY TableEntryIsValue, PTL
<1> QED
  BY <1>1

\* The chains of the table hold records of its heap.
LEMMA ChainsOnHeap ==
  HashType => \A b \in 1 .. Buckets : ChainOn(heap, rec_hash[b])
BY DEF HashType, ChainOn

\* A step that puts an item, as RecordMap has it.
PutsEntry(e, overwrite) ==
  \A n \in Names :
    TableEntry(n)' = IF e.name = n /\ (TableEntry(n) = NoEntry \/ overwrite) THEN e
                     ELSE TableEntry(n)

\* While the table is filled, the value of a name is what its chain has.
LEMMA ValueWhileFilling ==
  HashInv /\ phase = "fill" => \A n \in Names : Value(n) = Look(heap, rec_hash[Hash[n]], n)
<1> SUFFICES ASSUME HashInv, phase = "fill", NEW n \in Names
             PROVE  Value(n) = Look(heap, rec_hash[Hash[n]], n)
  OBVIOUS
<1>1. buffer = << >>
  BY DEF HashInv, Filling
<1>2. Written(n) = {}
  BY <1>1 DEF Written
<1> QED
  BY <1>2 DEF Value

\* The primed form of ValueWhileFilling.
LEMMA ValueWhileFillingNext ==
  (HashInv /\ phase = "fill")' =>
    \A n \in Names : Value(n)' = Look(heap', rec_hash'[Hash[n]], n)
<1>1. (HashInv /\ phase = "fill" =>
        \A n \in Names : Value(n) = Look(heap, rec_hash[Hash[n]], n))'
  BY ValueWhileFilling, PTL
<1> QED
  BY <1>1

\* One chain changes, on a heap with one record more.
LEMMA ChainPuts ==
  ASSUME HashInv, HashInv', NEW kind, Take(kind), phase' = phase, NEW overwrite \in BOOLEAN,
         \A d \in 1 .. Buckets :
           d # Hash[Head(input).entry.name] => rec_hash'[d] = rec_hash[d],
         \A n \in Names : Hash[n] = Hash[Head(input).entry.name] =>
           LET old == Look(heap, rec_hash[Hash[n]], n)
           IN  Look(heap', rec_hash'[Hash[n]], n) =
                 IF Head(input).entry.name = n /\ (old = NoEntry \/ overwrite)
                 THEN Head(input).entry ELSE old
  PROVE  PutsEntry(Head(input).entry, overwrite)
<1> DEFINE e == Head(input).entry
           V(n) == Look(heap, rec_hash[Hash[n]], n)
           W(n) == Look(heap', rec_hash'[Hash[n]], n)
<1>1. e \in Entries /\ e.name \in Names /\ phase = "fill"
  BY TakeMakesRecord DEF HashInv
<1>2. heap' = Append(heap, e)
  BY DEF Take
<1>3. \A n \in Names : TableEntry(n) = V(n)
  BY <1>1, TableEntryIsValue, ValueWhileFilling DEF HashInv
<1>4. \A n \in Names : TableEntry(n)' = W(n)
  BY <1>1, TableEntryIsValueNext, ValueWhileFillingNext DEF HashInv
<1>5. \A n \in Names : Hash[n] \in 1 .. Buckets /\ ChainOn(heap, rec_hash[Hash[n]])
  BY HashAssumption, ChainsOnHeap DEF HashInv
<1>6. \A n \in Names : Hash[n] # Hash[e.name] => W(n) = V(n)
  <2> SUFFICES ASSUME NEW n \in Names, Hash[n] # Hash[e.name]
               PROVE  W(n) = V(n)
    OBVIOUS
  <2>1. rec_hash'[Hash[n]] = rec_hash[Hash[n]]
    BY <1>5
  <2>2. Look(Append(heap, e), rec_hash[Hash[n]], n) = V(n)
    BY <1>1, <1>5, LookOnLongerHeap
  <2> QED
    BY <1>2, <2>1, <2>2
<1>7. \A n \in Names : Hash[n] = Hash[e.name] =>
        W(n) = IF e.name = n /\ (V(n) = NoEntry \/ overwrite) THEN e ELSE V(n)
  OBVIOUS
<1> HIDE DEF e, V, W
<1>8. \A n \in Names :
        W(n) = IF e.name = n /\ (V(n) = NoEntry \/ overwrite) THEN e ELSE V(n)
  BY <1>6, <1>7
<1>9. PutsEntry(e, overwrite)
  BY <1>3, <1>4, <1>8 DEF PutsEntry
<1> QED
  BY <1>9 DEF e

\* LoadRecord is Put without overwriting.
LEMMA LoadPuts ==
  ASSUME HashInv, HashInv', LoadRecord
  PROVE  PutsEntry(Head(input).entry, FALSE)
<1> DEFINE e == Head(input).entry
           b == Hash[e.name]
<1>1. Take("file") /\ e \in Entries /\ e.name \in Names /\ b \in 1 .. Buckets /\ phase' = phase
  BY TakeMakesRecord DEF LoadRecord, HashInv
<1>2. /\ rec_hash' = [rec_hash EXCEPT ![b] = Append(rec_hash[b], Len(heap) + 1)]
      /\ heap' = Append(heap, e)
  BY DEF LoadRecord, Take, New
<1>3. rec_hash \in [1 .. Buckets -> Seq(Nat)]
  BY DEF HashInv, HashType
<1>4. /\ rec_hash'[b] = Append(rec_hash[b], Len(heap) + 1)
      /\ \A d \in 1 .. Buckets : d # b => rec_hash'[d] = rec_hash[d]
  BY <1>1, <1>2, <1>3
<1>5. ChainOn(heap, rec_hash[b])
  BY <1>1, ChainsOnHeap DEF HashInv
<1>6. \A n \in Names : Hash[n] = b =>
        LET old == Look(heap, rec_hash[Hash[n]], n)
        IN  Look(heap', rec_hash'[Hash[n]], n) =
              IF e.name = n /\ (old = NoEntry \/ FALSE) THEN e ELSE old
  <2> SUFFICES ASSUME NEW n \in Names, Hash[n] = b
               PROVE  Look(heap', rec_hash'[b], n) =
                        IF e.name = n /\ Look(heap, rec_hash[b], n) = NoEntry THEN e
                        ELSE Look(heap, rec_hash[b], n)
    OBVIOUS
  <2> HIDE DEF e, b
  <2>1. Look(heap', rec_hash'[b], n) =
          IF e.name = n /\ Places(heap, rec_hash[b], n) = {} THEN e
          ELSE Look(heap, rec_hash[b], n)
    BY <1>1, <1>2, <1>4, <1>5, LookAppended
  <2>2. Places(heap, rec_hash[b], n) = {} <=> Look(heap, rec_hash[b], n) = NoEntry
    BY <1>5, LookFound DEF Look
  <2> QED
    BY <2>1, <2>2
<1> QED
  BY <1>1, <1>4, <1>6, ChainPuts

\* insert_record puts the entry if there is none of its name, or it overwrites.
LEMMA InsertPuts ==
  ASSUME HashInv, HashInv', NEW kind, Take(kind), NEW overwrite \in BOOLEAN,
         Insert(overwrite, Head(input).entry.name), UNCHANGED <<flushing, phase>>
  PROVE  PutsEntry(Head(input).entry, overwrite)
<1> DEFINE e == Head(input).entry
           b == Hash[e.name]
           c == rec_hash[b]
<1>1. e \in Entries /\ e.name \in Names /\ b \in 1 .. Buckets /\ phase' = phase
  BY TakeMakesRecord DEF HashInv
<1>2. heap' = Append(heap, e) /\ New = Len(heap) + 1
  BY DEF Take, New
<1>3. rec_hash \in [1 .. Buckets -> Seq(Nat)] /\ c \in Seq(Nat) /\ DOMAIN c = 1 .. Len(c)
  BY <1>1 DEF HashInv, HashType
<1>4. ChainOn(heap, c)
  BY <1>1, ChainsOnHeap DEF HashInv
<1>5. Chain(e.name) = c /\ Matches(c, e.name) = Places(heap, c, e.name)
      /\ FirstMatch(c, e.name) = First(Places(heap, c, e.name))
  BY <1>3 DEF Chain, Matches, Places, FirstMatch, First
<1> DEFINE Puts(d) ==
             \A n \in Names : Look(heap', d, n) =
               IF e.name = n /\ (Look(heap, c, n) = NoEntry \/ overwrite) THEN e
               ELSE Look(heap, c, n)
<1>6. \A d : rec_hash' = [rec_hash EXCEPT ![b] = d] /\ Puts(d) => PutsEntry(e, overwrite)
  <2> SUFFICES ASSUME NEW d, rec_hash' = [rec_hash EXCEPT ![b] = d], Puts(d)
               PROVE  PutsEntry(e, overwrite)
    OBVIOUS
  <2>1. rec_hash'[b] = d /\ \A k \in 1 .. Buckets : k # b => rec_hash'[k] = rec_hash[k]
    BY <1>1, <1>3
  <2>2. \A n \in Names : Hash[n] = b =>
          LET old == Look(heap, rec_hash[Hash[n]], n)
          IN  Look(heap', rec_hash'[Hash[n]], n) =
                IF e.name = n /\ (old = NoEntry \/ overwrite) THEN e ELSE old
    BY <2>1
  <2> QED
    BY <1>1, <2>1, <2>2, ChainPuts
<1>7. CASE Places(heap, c, e.name) = {} /\ rec_hash' = [rec_hash EXCEPT ![b] = <<New>> \o @]
  <2> DEFINE d == <<Len(heap) + 1>> \o c
  <2>1. rec_hash' = [rec_hash EXCEPT ![b] = d]
    BY <1>2, <1>7
  <2>2. ASSUME NEW n \in Names
        PROVE  Look(heap', d, n) = IF e.name = n THEN e ELSE Look(heap, c, n)
    <3>1. Places(heap, c, e.name) = {} /\ e \in Entries /\ ChainOn(heap, c)
      BY <1>1, <1>4, <1>7
    <3> HIDE DEF e, c
    <3>2. Look(Append(heap, e), Prepended(heap, c), n) =
          IF e.name = n THEN e ELSE Look(heap, c, n)
      BY ONLY <3>1, LookPrepended
    <3> QED
      BY <1>2, <3>2 DEF Prepended
  <2>3. Look(heap, c, e.name) = NoEntry
    BY <1>7 DEF Look
  <2>4. Puts(d)
    <3> HIDE DEF e, c, d
    <3> QED BY <2>2, <2>3
  <2> QED
    BY <1>6, <2>1, <2>4
<1>8. CASE Places(heap, c, e.name) # {} /\ ~overwrite /\ UNCHANGED rec_hash
  <2>1. rec_hash' = [rec_hash EXCEPT ![b] = c]
    BY <1>1, <1>3, <1>8
  <2>2. \A n \in Names : Look(heap', c, n) = Look(heap, c, n)
    <3> HIDE DEF e, c
    <3> QED BY <1>1, <1>2, <1>4, LookOnLongerHeap
  <2>3. Look(heap, c, e.name) # NoEntry
    <3> HIDE DEF e, c
    <3> QED BY <1>4, <1>8, LookFound
  <2>4. Puts(c)
    <3> HIDE DEF e, c
    <3> QED BY <1>8, <2>2, <2>3
  <2> QED
    BY <1>6, <2>1, <2>4
<1>9. CASE Places(heap, c, e.name) # {} /\ overwrite /\ Replace(e.name)
  <2> DEFINE p == First(Places(heap, c, e.name))
             d == [c EXCEPT ![p] = Len(heap) + 1]
  <2>1. rec_hash' = [rec_hash EXCEPT ![b][p] = Len(heap) + 1]
    BY <1>2, <1>5, <1>9 DEF Replace
  <2> HIDE DEF p
  <2>2. rec_hash' = [rec_hash EXCEPT ![b] = d]
    BY <1>1, <1>3, <2>1
  <2>3. ASSUME NEW n \in Names
        PROVE  Look(heap', d, n) = IF e.name = n THEN e ELSE Look(heap, c, n)
    <3>1. Places(heap, c, e.name) # {} /\ e \in Entries /\ ChainOn(heap, c)
      BY <1>1, <1>4, <1>9
    <3> HIDE DEF e, c
    <3>2. Look(Append(heap, e), Replaced(heap, c, e.name), n) =
          IF e.name = n THEN e ELSE Look(heap, c, n)
      BY ONLY <3>1, LookReplaced
    <3> QED
      BY <1>2, <3>2 DEF p, Replaced
  <2>4. Puts(d)
    <3> HIDE DEF e, c, d
    <3> QED BY <1>9, <2>3
  <2> QED
    BY <1>6, <2>2, <2>4
<1> QED
  BY <1>5, <1>7, <1>8, <1>9 DEF Insert

-----------------------------------------------------------------------------
(* The refinement.                                                         *)

\* A record the flush has passed in its chain is in the buffer under its name.
PassedWritten ==
  phase = "flush" /\ bucket <= Buckets =>
    \A i \in 1 .. Len(rec_hash[bucket]) :
      i < at => \E j \in 1 .. Len(buffer) : buffer[j].name = heap[rec_hash[bucket][i]].name

\* Nothing is passed at the start.
LEMMA PassedWrittenInit == Init => PassedWritten
BY DEF Init, HashInit, PassedWritten

\* A record that the flush has passed stays in the buffer.
LEMMA PassedWrittenInductive == HashInv /\ PassedWritten /\ [Next]_vars => PassedWritten'
<1> SUFFICES ASSUME HashInv, PassedWritten, [Next]_vars
             PROVE  PassedWritten'
  OBVIOUS
<1>1. CASE UNCHANGED hashVars
  BY <1>1 DEF PassedWritten, hashVars
<1>2. CASE FlushRecord
  <2> DEFINE r == rec_hash[bucket][at]
  <2>1. /\ buffer' = Append(buffer, heap[r]) /\ at' = at + 1
        /\ phase = "flush" /\ bucket <= Buckets /\ at <= Len(rec_hash[bucket])
        /\ UNCHANGED <<heap, rec_hash, bucket, phase>>
    BY <1>2 DEF FlushRecord, AtRecord
  <2>2. bucket \in 1 .. Buckets /\ at \in Nat \ {0} /\ buffer \in Seq(Entries)
        /\ rec_hash[bucket] \in Seq(Nat) /\ heap \in Seq(Entries)
    BY <2>1, HashAssumption DEF HashInv, HashType
  <2>3. at \in 1 .. Len(rec_hash[bucket])
    BY <2>1, <2>2
  <2>4. r \in 1 .. Len(heap)
    BY <2>2, <2>3 DEF HashInv, HashType
  <2>5. heap[r] \in Entries
    BY <2>2, <2>4
  <2> HIDE DEF r
  <2>6. /\ Len(buffer') = Len(buffer) + 1 /\ Len(buffer) \in Nat
        /\ buffer'[Len(buffer) + 1] = heap[r]
        /\ \A j \in 1 .. Len(buffer) : buffer'[j] = buffer[j]
    BY <2>1, <2>2, <2>5
  <2>7. ASSUME NEW i \in 1 .. Len(rec_hash[bucket]), i < at + 1
        PROVE  \E j \in 1 .. Len(buffer') : buffer'[j].name = heap[rec_hash[bucket][i]].name
    <3>1. CASE i = at
      BY <2>6, <3>1 DEF r
    <3>2. CASE i < at
      <4>1. PICK j \in 1 .. Len(buffer) : buffer[j].name = heap[rec_hash[bucket][i]].name
        BY <2>1, <3>2 DEF PassedWritten
      <4> QED
        BY <2>6, <4>1
    <3> QED
      BY <2>2, <2>7, <3>1, <3>2
  <2> QED
    BY <2>1, <2>7 DEF PassedWritten
<1>3. CASE FlushBegins
  <2>1. at' = 1 /\ rec_hash' = rec_hash /\ bucket' = 1
    BY <1>3 DEF FlushBegins, HashInv, Filling, flushing, chains
  <2>2. rec_hash \in [1 .. Buckets -> Seq(Nat)]
    BY DEF HashInv, HashType
  <2>3. \A i \in 1 .. Len(rec_hash'[bucket']) : ~(i < at')
    BY <2>1, <2>2, HashAssumption
  <2> QED
    BY <2>3 DEF PassedWritten
<1>4. CASE FlushChain
  <2>1. at' = 1 /\ bucket' = bucket + 1 /\ rec_hash' = [rec_hash EXCEPT ![bucket] = << >>]
    BY <1>4 DEF FlushChain
  <2>2. rec_hash' \in [1 .. Buckets -> Seq(Nat)] /\ bucket' \in Nat \ {0}
    <3>1. rec_hash \in [1 .. Buckets -> Seq(Nat)] /\ bucket \in 1 .. Buckets + 1
      BY DEF HashInv, HashType
    <3>2. << >> \in Seq(Nat)
      OBVIOUS
    <3>3. rec_hash' \in [1 .. Buckets -> Seq(Nat)]
      BY <2>1, <3>1, <3>2
    <3>4. bucket' \in Nat \ {0}
      BY <2>1, <3>1, HashAssumption
    <3> QED
      BY <3>3, <3>4
  <2>3. bucket' <= Buckets => \A i \in 1 .. Len(rec_hash'[bucket']) : ~(i < at')
    BY <2>1, <2>2, HashAssumption
  <2> QED
    BY <2>3 DEF PassedWritten
<1>5. CASE SkipLine \/ LoadRecord \/ KeepRecord \/ OverwriteRecord
  <2>1. phase' = "fill"
    BY <1>5 DEF SkipLine, LoadRecord, KeepRecord, OverwriteRecord, Take
  <2> QED
    BY <2>1 DEF PassedWritten
<1>6. CASE FlushEnds \/ FlushFails \/ FreeRecords
  BY <1>6 DEF FlushEnds, FlushFails, FreeRecords, PassedWritten
<1> QED
  BY <1>1, <1>2, <1>3, <1>4, <1>5, <1>6, TableStep DEF HashNext, vars

\* A record is written: its name has no other value than before.
LEMMA FlushRecordStutters ==
  ASSUME HashInv, PassedWritten, FlushRecord
  PROVE  \A n \in Names : Value(n)' = Value(n)
<1> DEFINE c == rec_hash[bucket]
           r == c[at]
<1>1. /\ buffer' = Append(buffer, heap[r]) /\ phase = "flush" /\ bucket <= Buckets
      /\ at <= Len(c) /\ UNCHANGED <<heap, rec_hash, phase>>
  BY DEF FlushRecord, AtRecord
<1>2. bucket \in 1 .. Buckets /\ at \in Nat \ {0} /\ buffer \in Seq(Entries)
      /\ c \in Seq(Nat) /\ heap \in Seq(Entries) /\ at \in 1 .. Len(c)
  BY <1>1, HashAssumption DEF HashInv, HashType
<1>3. heap[r] \in Entries /\ Hash[heap[r].name] = bucket
  BY <1>2 DEF HashInv, HashType, InItsChain
<1> DEFINE k == Len(buffer) + 1
<1>4. /\ Len(buffer') = k /\ Len(buffer) \in Nat /\ buffer'[k] = heap[r]
      /\ \A j \in 1 .. Len(buffer) : buffer'[j] = buffer[j]
  BY <1>1, <1>2, <1>3
<1> SUFFICES ASSUME NEW n \in Names
             PROVE  Value(n)' = Value(n)
  OBVIOUS
<1>5. Written(n)' = Written(n) \cup (IF heap[r].name = n THEN {k} ELSE {})
  <2> HIDE DEF r
  <2>1. \A j \in 1 .. k : j \in 1 .. Len(buffer) \/ j = k
    BY <1>4
  <2>2. k \in 1 .. k /\ \A j \in 1 .. Len(buffer) : j \in 1 .. k
    BY <1>4
  <2> HIDE DEF k
  <2>3. Written(n)' = {j \in 1 .. k : buffer'[j].name = n}
    BY <1>4 DEF Written
  <2> QED
    BY <1>4, <2>1, <2>2, <2>3 DEF Written
<1>6. Written(n) \in SUBSET Nat /\ Written(n) \subseteq 1 .. Len(buffer)
  BY DEF Written
<1>7. CASE Written(n) # {}
  <2>1. First(Written(n)) \in Written(n) /\ \A j \in Written(n) : First(Written(n)) <= j
    BY <1>6, <1>7, FirstFound
  <2>2. Written(n)' \in SUBSET Nat /\ First(Written(n)) \in Written(n)'
        /\ \A j \in Written(n)' : First(Written(n)) <= j
    <3>1. First(Written(n)) \in 1 .. Len(buffer) /\ k \in Nat /\ First(Written(n)) <= k
      BY <1>4, <1>6, <2>1
    <3> HIDE DEF r, k
    <3> QED
      BY <1>5, <1>6, <2>1, <3>1
  <2>3. First(Written(n)') = First(Written(n))
    BY <2>2, FirstIs
  <2>4. Value(n)' = buffer'[First(Written(n))]
    BY <2>2, <2>3 DEF Value
  <2>5. buffer'[First(Written(n))] = buffer[First(Written(n))]
    BY <1>4, <1>6, <2>1
  <2> QED
    BY <1>7, <2>4, <2>5 DEF Value
<1>8. CASE Written(n) = {} /\ heap[r].name # n
  BY <1>1, <1>5, <1>8 DEF Value
<1>9. CASE Written(n) = {} /\ heap[r].name = n
  <2>1. Value(n)' = heap[r]
    <3>1. First({k}) = k
      BY <1>4 DEF First
    <3>2. Written(n)' = {k}
      BY <1>5, <1>9
    <3> QED
      BY <1>4, <3>1, <3>2 DEF Value
  <2>2. Value(n) = Look(heap, c, n)
    BY <1>1, <1>3, <1>9 DEF Value
  <2>3. at \in Places(heap, c, n)
    BY <1>2, <1>9 DEF Places
  <2>4. \A j \in Places(heap, c, n) : at <= j
    <3> SUFFICES ASSUME NEW j \in Places(heap, c, n), j < at
                 PROVE  FALSE
      BY <1>2 DEF Places
    <3>1. j \in 1 .. Len(c) /\ heap[c[j]].name = n
      BY DEF Places
    <3>2. PICK i \in 1 .. Len(buffer) : buffer[i].name = n
      BY <1>1, <3>1 DEF PassedWritten
    <3> QED
      BY <1>9, <3>2 DEF Written
  <2>5. First(Places(heap, c, n)) = at
    <3>1. Places(heap, c, n) \in SUBSET Nat
      BY DEF Places
    <3> HIDE DEF c, r
    <3> QED
      BY <2>3, <2>4, <3>1, FirstIs
  <2> QED
    BY <2>1, <2>2, <2>3, <2>5 DEF Look
<1> QED
  BY <1>7, <1>8, <1>9

\* A chain that is all written may go.
LEMMA FlushChainStutters ==
  ASSUME HashInv, PassedWritten, FlushChain
  PROVE  \A n \in Names : Value(n)' = Value(n)
<1> SUFFICES ASSUME NEW n \in Names
             PROVE  Value(n)' = Value(n)
  OBVIOUS
<1>1. /\ phase = "flush" /\ bucket <= Buckets /\ at > Len(rec_hash[bucket])
      /\ rec_hash' = [rec_hash EXCEPT ![bucket] = << >>]
      /\ UNCHANGED <<heap, buffer, phase>>
  BY DEF FlushChain
<1>2. bucket \in 1 .. Buckets /\ at \in Nat \ {0} /\ Hash[n] \in 1 .. Buckets
      /\ rec_hash \in [1 .. Buckets -> Seq(Nat)]
  BY <1>1, HashAssumption DEF HashInv, HashType
<1>3. Written(n)' = Written(n)
  BY <1>1 DEF Written
<1>4. CASE Written(n) # {} \/ Hash[n] # bucket
  <2>1. Hash[n] # bucket => rec_hash'[Hash[n]] = rec_hash[Hash[n]]
    BY <1>1, <1>2
  <2> QED
    BY <1>1, <1>3, <1>4, <2>1 DEF Value
<1>5. CASE Written(n) = {} /\ Hash[n] = bucket
  <2>1. Places(heap, rec_hash[bucket], n) = {}
    <3> SUFFICES ASSUME NEW i \in 1 .. Len(rec_hash[bucket]), heap[rec_hash[bucket][i]].name = n
                 PROVE  FALSE
      BY DEF Places
    <3>1. i < at
      BY <1>1, <1>2
    <3>2. PICK j \in 1 .. Len(buffer) : buffer[j].name = n
      BY <1>1, <3>1 DEF PassedWritten
    <3> QED
      BY <1>5, <3>2 DEF Written
  <2>2. Places(heap', rec_hash'[bucket], n) = {}
    BY <1>1, <1>2 DEF Places
  <2> QED
    BY <1>1, <1>3, <1>5, <2>1, <2>2 DEF Value, Look
<1> QED
  BY <1>4, <1>5

\* The rest of the flush, to its end or to free_records.
LEMMA FlushStutters ==
  ASSUME HashInv, PassedWritten,
         FlushBegins \/ FlushRecord \/ FlushChain \/ FlushEnds \/ FreeRecords
  PROVE  \A n \in Names : Value(n)' = Value(n)
<1>1. CASE FlushBegins \/ FlushEnds
  <2>1. /\ phase \notin {"free", "failed"} /\ phase' \notin {"free", "failed"}
        /\ UNCHANGED <<heap, rec_hash, buffer>>
    BY <1>1 DEF FlushBegins, FlushEnds, chains, flushing
  <2> QED
    BY <2>1 DEF Value, Written
<1>2. CASE FreeRecords
  BY <1>2 DEF FreeRecords, flushing, Value, Written
<1> QED
  BY <1>1, <1>2, FlushRecordStutters, FlushChainStutters

\* The buffer that cannot grow takes all values with it.
LEMMA FlushFailsLoses ==
  FlushFails => \A n \in Names : Value(n)' = NoEntry
<1> SUFFICES ASSUME FlushFails, NEW n \in Names
             PROVE  Value(n)' = NoEntry
  OBVIOUS
<1>1. phase' = "free" /\ buffer' = << >>
  BY DEF FlushFails
<1>2. Written(n)' = {}
  BY <1>1 DEF Written
<1> QED
  BY <1>1, <1>2 DEF Value

\* The table as a value of RecordMap's variable.
TableMap == [n \in Names |-> TableEntry(n)]

\* A tail, place by place.
LEMMA TailIs ==
  ASSUME NEW S, NEW s \in Seq(S), s # << >>
  PROVE  Tail(s) = [i \in 1 .. Len(s) - 1 |-> s[i + 1]]
<1> DEFINE t == Tail(s)
<1>1. /\ t \in Seq(S) /\ Len(t) = Len(s) - 1 /\ Len(s) \in Nat
      /\ \A i \in 1 .. Len(s) - 1 : t[i] = s[i + 1]
  OBVIOUS
<1> HIDE DEF t
<1>2. t = [i \in 1 .. Len(t) |-> t[i]]
  BY <1>1
<1>3. t = [i \in 1 .. Len(s) - 1 |-> s[i + 1]]
  BY <1>1, <1>2
<1> QED
  BY <1>3 DEF t

\* When an item is taken, the map's items move up.
LEMMA MapItemsMove ==
  ASSUME input \in Seq(Readable), input # << >>, input' = Tail(input)
  PROVE  /\ MapItems # << >> /\ MapItems' = Tail(MapItems)
         /\ Head(MapItems).entry = Head(input).entry
         /\ Head(MapItems).overwrite = (Head(input).source = "partner")
<1> DEFINE I(item) == [entry |-> item.entry, overwrite |-> item.source = "partner"]
<1>1. /\ DOMAIN input = 1 .. Len(input) /\ Len(input) \in Nat /\ Len(input) >= 1
      /\ input' \in Seq(Readable) /\ Len(input') = Len(input) - 1
      /\ DOMAIN input' = 1 .. Len(input) - 1 /\ Head(input) = input[1]
      /\ \A i \in 1 .. Len(input) - 1 : input'[i] = input[i + 1]
  OBVIOUS
<1>2. /\ MapItems = [i \in 1 .. Len(input) |-> I(input[i])]
      /\ MapItems' = [i \in 1 .. Len(input) - 1 |-> I(input'[i])]
  BY <1>1 DEF MapItems
<1> DEFINE S == {I(input[i]) : i \in 1 .. Len(input)}
<1> HIDE DEF I
<1>3. MapItems \in [1 .. Len(input) -> S]
  BY <1>2
<1>4. MapItems \in Seq(S) /\ Len(MapItems) = Len(input)
  <2> HIDE DEF S
  <2> QED BY <1>1, <1>3
<1>5. \A i \in 1 .. Len(input) : MapItems[i] = I(input[i])
  BY <1>2
<1> HIDE DEF S
<1>6. /\ MapItems # << >> /\ Head(MapItems) = MapItems[1]
      /\ Tail(MapItems) = [i \in 1 .. Len(input) - 1 |-> MapItems[i + 1]]
  <2>1. MapItems # << >> /\ Head(MapItems) = MapItems[1]
    BY <1>1, <1>4
  <2> QED
    BY <1>4, <2>1, TailIs
<1>7. \A i \in 1 .. Len(input) - 1 : MapItems[i + 1] = I(input'[i])
  BY <1>1, <1>5
<1>8. MapItems' = Tail(MapItems)
  BY <1>2, <1>6, <1>7
<1>9. Head(MapItems) = I(Head(input))
  BY <1>1, <1>5, <1>6
<1> QED
  BY <1>6, <1>8, <1>9 DEF I

\* A line or parameter that is taken is passed over or put.
PutsItem ==
  /\ input # << >> /\ input' = Tail(input)
  /\ \/ Head(input).entry = NoEntry /\ \A n \in Names : TableEntry(n)' = TableEntry(n)
     \/ /\ Head(input).entry # NoEntry /\ Head(input).entry.name \in Names
        /\ PutsEntry(Head(input).entry, Head(input).source = "partner")

\* Each of the four steps that take an item puts that item.
LEMMA TakingStepPuts ==
  ASSUME HashInv, HashInv', SkipLine \/ LoadRecord \/ KeepRecord \/ OverwriteRecord
  PROVE  PutsItem
<1>1. CASE SkipLine
  <2>1. /\ input # << >> /\ input' = Tail(input) /\ Head(input).entry = NoEntry
        /\ UNCHANGED <<heap, rec_hash, buffer, phase>>
    BY <1>1 DEF SkipLine, chains, flushing
  <2>2. \A n \in Names : TableEntry(n)' = TableEntry(n)
    BY <2>1 DEF TableEntry, Chain, Matches, FirstMatch
  <2> QED
    BY <2>1, <2>2 DEF PutsItem
<1>2. CASE LoadRecord
  <2>1. Take("file")
    BY <1>2 DEF LoadRecord
  <2>2. PutsEntry(Head(input).entry, Head(input).source = "partner")
    BY <1>2, <2>1, LoadPuts DEF Take
  <2>3. Head(input).entry # NoEntry /\ Head(input).entry.name \in Names
        /\ input # << >> /\ input' = Tail(input)
    BY <2>1, TakeMakesRecord DEF HashInv, Take
  <2> QED
    BY <2>2, <2>3 DEF PutsItem
<1>3. CASE KeepRecord
  <2>1. PICK source \in {"custom", "default", "missing"} : Take(source)
    BY <1>3 DEF KeepRecord
  <2>2. /\ Insert(FALSE, Head(input).entry.name) /\ UNCHANGED <<flushing, phase>>
        /\ (Head(input).source = "partner") = FALSE
    BY <1>3, <2>1 DEF KeepRecord, Take
  <2>3. PutsEntry(Head(input).entry, FALSE)
    BY <2>1, <2>2, InsertPuts
  <2>4. Head(input).entry # NoEntry /\ Head(input).entry.name \in Names
        /\ input # << >> /\ input' = Tail(input)
    BY <2>1, TakeMakesRecord DEF HashInv, Take
  <2> QED
    BY <2>2, <2>3, <2>4 DEF PutsItem
<1>4. CASE OverwriteRecord
  <2>1. /\ Take("partner") /\ Insert(TRUE, Head(input).entry.name)
        /\ UNCHANGED <<flushing, phase>>
    BY <1>4 DEF OverwriteRecord
  <2>2. PutsEntry(Head(input).entry, TRUE) /\ (Head(input).source = "partner") = TRUE
    BY <2>1, InsertPuts DEF Take
  <2>3. Head(input).entry # NoEntry /\ Head(input).entry.name \in Names
        /\ input # << >> /\ input' = Tail(input)
    BY <2>1, TakeMakesRecord DEF HashInv, Take
  <2> QED
    BY <2>2, <2>3 DEF PutsItem
<1> QED
  BY <1>1, <1>2, <1>3, <1>4

\* What is put is put as RecordMap has it.
LEMMA PuttingStepPuts ==
  ASSUME HashInv, PutsItem
  PROVE  Map!PutNext
<1> DEFINE e == Head(input).entry
<1>1. /\ MapItems # << >> /\ MapItems' = Tail(MapItems)
      /\ Head(MapItems).entry = e
      /\ Head(MapItems).overwrite = (Head(input).source = "partner")
  BY MapItemsMove DEF HashInv, HashType, PutsItem
<1>2. TableMap' = IF e # NoEntry /\ (TableMap[e.name] = NoEntry \/ Head(MapItems).overwrite)
                  THEN [TableMap EXCEPT ![e.name] = e] ELSE TableMap
  <2>1. CASE e = NoEntry
    BY <2>1 DEF TableMap, PutsItem
  <2>2. CASE e # NoEntry
    <3>1. e.name \in Names /\ PutsEntry(e, Head(MapItems).overwrite)
      BY <1>1, <2>2 DEF PutsItem
    <3>2. TableMap[e.name] = TableEntry(e.name)
      BY <3>1 DEF TableMap
    <3> DEFINE puts == TableEntry(e.name) = NoEntry \/ Head(MapItems).overwrite
    <3>3. \A n \in Names : TableEntry(n)' = IF e.name = n /\ puts THEN e ELSE TableEntry(n)
      BY <3>1 DEF PutsEntry
    <3> HIDE DEF e, puts
    <3>6. TableMap' = [n \in Names |-> IF e.name = n /\ puts THEN e ELSE TableEntry(n)]
      BY <3>3 DEF TableMap
    <3>4. puts => TableMap' = [TableMap EXCEPT ![e.name] = e]
      BY <3>1, <3>6 DEF TableMap
    <3>5. ~puts => TableMap' = TableMap
      BY <3>6 DEF TableMap
    <3> QED
      BY <2>2, <3>2, <3>4, <3>5 DEF puts, e
  <2> QED
    BY <2>1, <2>2
<1> QED
  BY <1>1, <1>2 DEF Map!PutNext, Map!Put, TableMap

\* Every step of the table is a step of the map, or none.
LEMMA TableStepIsMapStep ==
  ASSUME HashInv, HashInv', PassedWritten, [Next]_vars
  PROVE  Map!Next \/ UNCHANGED <<MapItems, TableMap>>
<1> USE TableEntryIsValue, TableEntryIsValueNext
<1>1. CASE UNCHANGED hashVars
  <2>1. UNCHANGED MapItems
    BY <1>1 DEF hashVars, MapItems
  <2>2. UNCHANGED TableMap
    <3>1. UNCHANGED <<heap, rec_hash, buffer, phase>>
      BY <1>1 DEF hashVars
    <3> QED
      BY <3>1 DEF TableMap, TableEntry, Chain, Matches, FirstMatch
  <2> QED
    BY <2>1, <2>2
<1>2. CASE SkipLine \/ LoadRecord \/ KeepRecord \/ OverwriteRecord
  BY <1>2, TakingStepPuts, PuttingStepPuts DEF Map!Next
<1>3. CASE FlushBegins \/ FlushRecord \/ FlushChain \/ FlushEnds \/ FreeRecords
  <2>1. \A n \in Names : TableEntry(n)' = TableEntry(n)
    BY <1>3, FlushStutters DEF HashInv
  <2>2. UNCHANGED input
    BY <1>3 DEF FlushBegins, FlushRecord, FlushChain, FlushEnds, FreeRecords
  <2> QED
    BY <2>1, <2>2 DEF TableMap, MapItems
<1>4. CASE FlushFails
  <2>1. \A n \in Names : TableEntry(n)' = NoEntry
    BY <1>4, FlushFailsLoses DEF HashInv
  <2>2. input = << >> /\ UNCHANGED input
    BY <1>4 DEF FlushFails, AtRecord, HashInv, Flushing
  <2>3. MapItems = << >> /\ UNCHANGED MapItems
    BY <2>2 DEF MapItems
  <2>4. TableMap' = [n \in Names |-> NoEntry]
    BY <2>1 DEF TableMap
  <2> QED
    BY <2>3, <2>4 DEF Map!Next, Map!Lose, TableMap
<1> QED
  BY <1>1, <1>2, <1>3, <1>4, TableStep DEF HashNext, vars

\* Every behaviour of the chains, filled, flushed and freed record by record, is
\* one of a map that takes the items in turn: the first of a name stays, unless a
\* later one overwrites it, and all are lost if the buffer cannot grow
\* (insert_record, load_records, flush_records).
THEOREM TableRefinesMap == Spec => TableImplementsMap
<1>1. Init => Map!Init
  <2> SUFFICES ASSUME Init
               PROVE  \A n \in Names : TableEntry(n) = NoEntry
    BY DEF Map!Init
  <2>1. HashInv /\ phase = "fill" /\ heap = << >> /\ rec_hash = [b \in 1 .. Buckets |-> << >>]
    BY InitKeeps DEF Init, HashInit
  <2>2. \A n \in Names : Places(heap, rec_hash[Hash[n]], n) = {}
    BY <2>1, HashAssumption DEF Places
  <2> QED
    BY <2>1, <2>2, TableEntryIsValue, ValueWhileFilling DEF Look, HashInv
<1>2. HashInv /\ PassedWritten /\ [Next]_vars => (HashInv /\ PassedWritten)'
  BY HashInvInductive, PassedWrittenInductive
<1>3. HashInv /\ HashInv' /\ PassedWritten /\ [Next]_vars =>
        Map!Next \/ UNCHANGED <<MapItems, TableMap>>
  BY TableStepIsMapStep
<1>4. Init => HashInv /\ PassedWritten
  BY InitKeeps, PassedWrittenInit
<1>5. Map!Next \/ UNCHANGED <<MapItems, TableMap>> =>
        [Map!Next]_<<MapItems, [n \in Names |-> TableEntry(n)]>>
  BY DEF TableMap
<1> QED
  BY <1>1, <1>2, <1>3, <1>4, <1>5, PTL DEF Spec, TableImplementsMap, Map!Spec
=============================================================================
