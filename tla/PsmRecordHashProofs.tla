------------------------ MODULE PsmRecordHashProofs ------------------------
(***************************************************************************)
(* What PsmRecordPath's table of records keeps, proved for every set of    *)
(* names, hash and repository: records stand in the chain of their hash,   *)
(* each at one place; none of a chain is freed, but those the flush has    *)
(* written from the chain it is in; and the flush and free_records leave   *)
(* the chains empty.                                                       *)
(***************************************************************************)
EXTENDS PsmRecordPath, TLAPS, WellFoundedInduction

-----------------------------------------------------------------------------
(* The invariant.                                                          *)

\* What the platform's path can read, and the records it can make.
Readable == UNION {Range(ReadOrder(FileOf(repo), s)) :
                  repo \in {r \in Repositories : r.folders = << >>}, s \in Sources}
Entries == {item.entry : item \in Readable} \ {NoEntry}

HashType ==
  /\ input \in Seq(Readable) /\ heap \in Seq(Entries) /\ buffer \in Seq(Entries)
  /\ rec_hash \in [1 .. Buckets -> Seq(Nat)]
  /\ \A b \in 1 .. Buckets : \A i \in 1 .. Len(rec_hash[b]) :
       rec_hash[b][i] \in 1 .. Len(heap)
  /\ freed \subseteq 1 .. Len(heap) /\ misused \subseteq freed
  /\ bucket \in 1 .. Buckets + 1 /\ at \in Nat \ {0}
  /\ phase \in {"fill", "flush", "free", "done", "failed"}

\* A record stands in the chain of its hash, and there at one place.
InItsChain ==
  \A b \in 1 .. Buckets : \A i \in 1 .. Len(rec_hash[b]) :
    /\ Hash[heap[rec_hash[b][i]].name] = b
    /\ \A j \in 1 .. Len(rec_hash[b]) : rec_hash[b][i] = rec_hash[b][j] => i = j

\* No record of a chain is freed while the table is filled.
Filling ==
  phase = "fill" =>
    /\ misused = {} /\ bucket = 1 /\ at = 1 /\ buffer = << >>
    /\ \A b \in 1 .. Buckets : \A i \in 1 .. Len(rec_hash[b]) : rec_hash[b][i] \notin freed

\* The flush has freed the records it passed in its chain, and emptied those before.
Flushing ==
  phase \in {"flush", "free"} =>
    /\ misused = {} /\ input = << >>
    /\ \A b \in 1 .. Buckets : \A i \in 1 .. Len(rec_hash[b]) :
         rec_hash[b][i] \in freed <=> b = bucket /\ i < at
    /\ \A b \in 1 .. Buckets : b < bucket => rec_hash[b] = << >>
    /\ bucket \in 1 .. Buckets => at <= Len(rec_hash[bucket]) + 1
    /\ phase = "free" => bucket \in 1 .. Buckets

Emptied ==
  phase \in {"done", "failed"} =>
    /\ \A b \in 1 .. Buckets : rec_hash[b] = << >>
    /\ phase = "done" => misused = {}
    /\ phase = "failed" /\ misused # {} => at > 1

\* pc, and the folder that is being loaded.
LoadType ==
  /\ pc \in {"merge", "load", "loaded", "aborted", "out of memory", "overrun"}
  /\ folders \in Seq(Range(folders))
  /\ folder = Root \/ \E i \in 1 .. Len(folders) : folders[i].name = folder

HashInv == HashType /\ InItsChain /\ Filling /\ Flushing /\ Emptied

-----------------------------------------------------------------------------
(* What can be read.                                                       *)

\* The elements of a file, and the entries that are taken of them.
FileElements == ElementType \cup {addRecordToXMLHandle2(r) : r \in RecordType}
Kinds == {"file", "custom", "default", "partner", "missing"}
EntryType ==
  {e \in {[f EXCEPT !.perm = NoAttr] : f \in FileElements} : e.name \in Names}
    \cup {Element(p.name, "astr", NoAttr, NoAttr, PlainText(p.value)) : p \in ParamType}
ItemType == [entry : EntryType \cup {NoEntry}, source : Kinds]

\* An element of a file is a record with a name, or without one.
LEMMA ElementFields ==
  \A e \in FileElements :
    e.tag = "Record" => e.name \in Names \cup {NoName} /\ [e EXCEPT !.perm = NoAttr].name = e.name
<1> SUFFICES ASSUME NEW e \in FileElements
             PROVE  /\ e.name \in Names \cup {NoName}
                    /\ [e EXCEPT !.perm = NoAttr].name = e.name
  OBVIOUS
<1>1. CASE e \in ElementType
  BY <1>1 DEF ElementType
<1>2. CASE e \in {addRecordToXMLHandle2(r) : r \in RecordType}
  <2>1. PICK r \in RecordType : e = addRecordToXMLHandle2(r)
    BY <1>2
  <2> DEFINE c == IF r.ctype = Content.default THEN NoAttr ELSE ppRecordContentType[r.ctype]
             t == ValueText(r.type, r.ctype, r.data)
  <2>2. e = Element(r.name, r.type, c, NoAttr, t)
    BY <2>1 DEF addRecordToXMLHandle2
  <2> HIDE DEF c, t
  <2> QED
    BY <2>2 DEF Element, RecordType
<1> QED
  BY <1>1, <1>2 DEF FileElements

\* The entry of an element (record_parse) is one, or none.
LEMMA EntryIsOne ==
  \A e \in FileElements : Entry(e) \in EntryType \cup {NoEntry}
BY ElementFields DEF Entry, EntryType

\* Lines and parameters are sequences of items.
LEMMA LinesAreItems ==
  \A els \in Seq(FileElements), kind \in Kinds : Lines(els, kind) \in Seq(ItemType)
<1> SUFFICES ASSUME NEW els \in Seq(FileElements), NEW kind \in Kinds
             PROVE  Lines(els, kind) \in Seq(ItemType)
  OBVIOUS
<1>1. \A i \in DOMAIN els : [entry |-> Entry(els[i]), source |-> kind] \in ItemType
  BY EntryIsOne DEF ItemType
<1>2. DOMAIN els = 1 .. Len(els) /\ Len(els) \in Nat
  OBVIOUS
<1>3. Lines(els, kind) \in [1 .. Len(els) -> ItemType]
  BY <1>1, <1>2 DEF Lines
<1> QED
  BY <1>2, <1>3

\* The parameters of a list become items of the input, one each.
LEMMA ParamsAreItems ==
  \A params \in Seq(ParamType), kind \in Kinds : Params(params, kind) \in Seq(ItemType)
<1> SUFFICES ASSUME NEW params \in Seq(ParamType), NEW kind \in Kinds
             PROVE  Params(params, kind) \in Seq(ItemType)
  OBVIOUS
<1> DEFINE E(p) == Element(p.name, "astr", NoAttr, NoAttr, PlainText(p.value))
<1>1. \A p \in ParamType : E(p) \in EntryType
  BY DEF EntryType
<1>2. DOMAIN params = 1 .. Len(params) /\ Len(params) \in Nat
      /\ \A i \in 1 .. Len(params) : params[i] \in ParamType
  OBVIOUS
<1>3. Params(params, kind) =
        [i \in 1 .. Len(params) |-> [entry |-> E(params[i]), source |-> kind]]
  BY <1>2 DEF Params
<1> HIDE DEF E
<1>4. \A i \in 1 .. Len(params) : [entry |-> E(params[i]), source |-> kind] \in ItemType
  BY <1>1, <1>2 DEF ItemType
<1>5. Params(params, kind) \in [1 .. Len(params) -> ItemType]
  BY <1>3, <1>4
<1> QED
  BY <1>2, <1>5

\* A repository without folders is saved as its records and what was put after them.
LEMMA FileWithoutFolders ==
  ASSUME NEW repo \in Repositories, repo.folders = << >>
  PROVE  /\ PsmSysFolderToXMLHandle(repo) = Elements(repo.records)
         /\ FileOf(repo) \in Seq(FileElements)
<1> DEFINE F == [n \in 0 .. 0 |-> Elements(repo.records)]
           Eq(f) == f = [n \in 0 .. Len(repo.folders) |->
                          IF n = 0 THEN Elements(repo.records)
                          ELSE f[n - 1] \o <<FolderElement(repo.folders[n])>>
                                 \o Elements(repo.folders[n].records) \o <<FolderEnd>>]
<1>1. Len(repo.folders) = 0
  OBVIOUS
<1>2. Eq(F)
  BY <1>1
<1>3. PsmSysFolderToXMLHandle(repo) = (CHOOSE f : Eq(f))[0]
  BY <1>1 DEF PsmSysFolderToXMLHandle
<1>4. Eq(CHOOSE f : Eq(f))
  BY <1>2
<1>5. \A f : Eq(f) => f[0] = Elements(repo.records)
  BY <1>1
<1>6. PsmSysFolderToXMLHandle(repo) = Elements(repo.records)
  BY <1>3, <1>4, <1>5
<1>7. repo.records \in Seq(RecordType) /\ repo.foreign \in Seq(ElementType)
  BY RepositoriesAssumption
<1>8. Elements(repo.records) \in Seq(FileElements)
  <2>1. \A i \in 1 .. Len(repo.records) : addRecordToXMLHandle2(repo.records[i]) \in FileElements
    BY <1>7 DEF FileElements
  <2>2. Elements(repo.records) \in [1 .. Len(repo.records) -> FileElements]
    BY <1>7, <2>1 DEF Elements
  <2> QED
    BY <1>7, <2>2
<1>9. repo.foreign \in Seq(FileElements)
  BY <1>7 DEF FileElements
<1> QED
  BY <1>6, <1>8, <1>9 DEF FileOf

\* What the platform's path reads is a sequence of items.
LEMMA ReadOrderIsItems ==
  ASSUME NEW repo \in Repositories, repo.folders = << >>, NEW s \in Sources
  PROVE  /\ ReadOrder(FileOf(repo), s) \in Seq(ItemType)
         /\ ReadOrder(FileOf(repo), s) \in Seq(Readable)
<1>1. FileOf(repo) \in Seq(FileElements)
  BY FileWithoutFolders
<1>2. /\ s.custom \in Seq(ParamType) /\ s.partner \in Seq(ParamType)
      /\ s.missing \in Seq(ParamType) /\ s.default \in Seq(FileElements)
  BY SourcesAssumption DEF FileElements
<1>3. ReadOrder(FileOf(repo), s) \in Seq(ItemType)
  <2>1. /\ Lines(FileOf(repo), "file") \in Seq(ItemType)
        /\ Lines(s.default, "default") \in Seq(ItemType)
    BY <1>1, <1>2, LinesAreItems DEF Kinds
  <2>2. /\ Params(s.custom, "custom") \in Seq(ItemType)
        /\ Params(s.partner, "partner") \in Seq(ItemType)
        /\ Params(s.missing, "missing") \in Seq(ItemType)
    BY <1>2, ParamsAreItems DEF Kinds
  <2> QED
    BY <2>1, <2>2 DEF ReadOrder
<1>4. Range(ReadOrder(FileOf(repo), s)) \subseteq Readable
  BY DEF Readable
<1> QED
  BY <1>3, <1>4 DEF Range

\* Every item has a source, and an entry with a name if it has one.
LEMMA ReadableItems == Readable \subseteq ItemType /\ Entries \subseteq EntryType
<1>1. Readable \subseteq ItemType
  <2> SUFFICES ASSUME NEW repo \in Repositories, repo.folders = << >>, NEW s \in Sources
               PROVE  Range(ReadOrder(FileOf(repo), s)) \subseteq ItemType
    BY DEF Readable
  <2> QED
    BY ReadOrderIsItems DEF Range
<1> QED
  BY <1>1 DEF Entries, ItemType

\* Every record has a name of the index, and none is NoEntry.
LEMMA EntriesNamed == \A e \in Entries : e.name \in Names /\ e # NoEntry
<1>1. \A p \in ParamType :
        Element(p.name, "astr", NoAttr, NoAttr, PlainText(p.value)).name \in Names
  BY DEF Element, ParamType
<1>2. \A e \in EntryType : e.name \in Names
  BY <1>1 DEF EntryType
<1> QED
  BY <1>2, ReadableItems DEF Entries

-----------------------------------------------------------------------------
(* Places in a chain.                                                      *)

\* The first of a set of places.
LEMMA LeastOfSet ==
  \A S \in SUBSET Nat : S # {} => \E i \in S : \A j \in S : i <= j
<1> SUFFICES ASSUME NEW S \in SUBSET Nat, S # {}
             PROVE  \E i \in S : \A j \in S : i <= j
  OBVIOUS
<1>1. PICK i \in S : \A j \in S : ~(<<j, i>> \in OpToRel(<, Nat))
  BY NatLessThanWellFounded, WFMin
<1>2. \A j \in S : ~(j < i)
  BY <1>1 DEF OpToRel
<1> QED
  BY <1>2

\* A chain that has a name has it at its first place.
LEMMA FirstMatchFound ==
  ASSUME NEW c \in Seq(Nat), NEW n, Matches(c, n) # {}
  PROVE  /\ FirstMatch(c, n) \in Matches(c, n)
         /\ \A j \in Matches(c, n) : FirstMatch(c, n) <= j
         /\ FirstMatch(c, n) \in 1 .. Len(c)
<1>1. Matches(c, n) \subseteq 1 .. Len(c) /\ Matches(c, n) \in SUBSET Nat
  BY DEF Matches
<1>2. \E i \in Matches(c, n) : \A j \in Matches(c, n) : i <= j
  BY <1>1, LeastOfSet
<1> QED
  BY <1>1, <1>2 DEF FirstMatch

-----------------------------------------------------------------------------
(* Filling the table.                                                      *)

\* What the taking of an item makes.
LEMMA TakeMakesRecord ==
  ASSUME HashType, NEW kind, Take(kind)
  PROVE  /\ Head(input) \in Readable /\ Head(input).entry \in Entries
         /\ Head(input).entry.name \in Names
         /\ Hash[Head(input).entry.name] \in 1 .. Buckets
         /\ input' \in Seq(Readable) /\ heap' \in Seq(Entries)
         /\ Len(heap) \in Nat /\ New \in Nat /\ Len(heap') = New
         /\ heap'[New] = Head(input).entry
         /\ \A r \in 1 .. Len(heap) : heap'[r] = heap[r]
         /\ phase = "fill"
<1>1. input \in Seq(Readable) /\ input # << >> /\ heap \in Seq(Entries)
      /\ Head(input).entry # NoEntry /\ heap' = Append(heap, Head(input).entry)
      /\ input' = Tail(input) /\ phase = "fill"
  BY DEF Take, HashType
<1>2. Head(input) \in Readable /\ input' \in Seq(Readable)
  BY <1>1
<1>3. Head(input).entry \in Entries
  BY <1>1, <1>2 DEF Entries
<1>4. Head(input).entry.name \in Names
  BY <1>3, EntriesNamed
<1> DEFINE e == Head(input).entry
<1> HIDE DEF e
<1>5. heap' = Append(heap, e) /\ e \in Entries
  BY <1>1, <1>3 DEF e
<1>6. heap' \in Seq(Entries) /\ Len(heap) \in Nat /\ New \in Nat /\ Len(heap') = New
      /\ heap'[New] = e /\ \A r \in 1 .. Len(heap) : heap'[r] = heap[r]
  BY <1>1, <1>5 DEF New
<1> QED
  BY <1>1, <1>2, <1>3, <1>4, <1>6, HashAssumption DEF e

\* Chain b becomes c: its records are former ones and the new one, none of them freed.
NewChain(b, c) ==
  /\ c \in Seq(Nat)
  /\ \A i \in 1 .. Len(c) : \/ c[i] = New
                            \/ \E k \in 1 .. Len(rec_hash[b]) : c[i] = rec_hash[b][k]
  /\ \A i, j \in 1 .. Len(c) : c[i] = c[j] => i = j
  /\ rec_hash' = [rec_hash EXCEPT ![b] = c]
  /\ freed' \subseteq 1 .. New /\ misused' = {}
  /\ \A i \in 1 .. Len(c) : c[i] \notin freed'
  /\ \A d \in 1 .. Buckets : \A i \in 1 .. Len(rec_hash[d]) :
       d # b => rec_hash[d][i] \notin freed'
  /\ UNCHANGED <<flushing, phase>>

\* A record that is taken into a chain that is well formed keeps the invariant.
LEMMA NewChainKeeps ==
  ASSUME HashInv, NEW kind, Take(kind),
         NEW b, b = Hash[Head(input).entry.name], NEW c, NewChain(b, c)
  PROVE  HashInv'
<1> DEFINE e == Head(input).entry
<1>1. /\ e \in Entries /\ e.name \in Names /\ b \in 1 .. Buckets
      /\ input' \in Seq(Readable) /\ heap' \in Seq(Entries)
      /\ Len(heap) \in Nat /\ New = Len(heap) + 1 /\ New \in Nat /\ Len(heap') = New
      /\ heap'[New] = e /\ \A r \in 1 .. Len(heap) : heap'[r] = heap[r]
      /\ phase = "fill"
  BY TakeMakesRecord DEF HashInv, New
<1> HIDE DEF e
<1>2. rec_hash \in [1 .. Buckets -> Seq(Nat)]
      /\ \A d \in 1 .. Buckets :
            \A i \in 1 .. Len(rec_hash[d]) : rec_hash[d][i] \in 1 .. Len(heap)
  BY DEF HashInv, HashType
<1>3. /\ rec_hash' \in [1 .. Buckets -> Seq(Nat)] /\ rec_hash'[b] = c
      /\ \A d \in 1 .. Buckets : d # b => rec_hash'[d] = rec_hash[d]
  BY <1>1, <1>2 DEF NewChain
<1>4. \A i \in 1 .. Len(c) : c[i] \in 1 .. New /\ Hash[heap'[c[i]].name] = b
  <2> SUFFICES ASSUME NEW i \in 1 .. Len(c)
               PROVE  c[i] \in 1 .. New /\ Hash[heap'[c[i]].name] = b
    OBVIOUS
  <2>1. CASE c[i] = New
    BY <1>1, <2>1 DEF e
  <2>2. ASSUME NEW k \in 1 .. Len(rec_hash[b]), c[i] = rec_hash[b][k]
        PROVE  c[i] \in 1 .. New /\ Hash[heap'[c[i]].name] = b
    <3>1. c[i] \in 1 .. Len(heap)
      BY <1>1, <1>2, <2>2
    <3>2. Hash[heap[rec_hash[b][k]].name] = b
      BY <1>1 DEF HashInv, InItsChain
    <3> QED
      <4>1. heap'[rec_hash[b][k]] = heap[rec_hash[b][k]]
        BY <1>1, <2>2, <3>1
      <4>2. c[i] \in 1 .. New
        BY <1>1, <3>1
      <4> QED
        BY <2>2, <3>2, <4>1, <4>2
  <2> QED
    BY <2>1, <2>2 DEF NewChain
<1>5. \A d \in 1 .. Buckets : \A i \in 1 .. Len(rec_hash'[d]) :
        /\ rec_hash'[d][i] \in 1 .. New /\ Hash[heap'[rec_hash'[d][i]].name] = d
        /\ \A j \in 1 .. Len(rec_hash'[d]) : rec_hash'[d][i] = rec_hash'[d][j] => i = j
        /\ rec_hash'[d][i] \notin freed'
  <2> SUFFICES ASSUME NEW d \in 1 .. Buckets, NEW i \in 1 .. Len(rec_hash'[d])
               PROVE  /\ rec_hash'[d][i] \in 1 .. New /\ Hash[heap'[rec_hash'[d][i]].name] = d
                      /\ \A j \in 1 .. Len(rec_hash'[d]) :
                           rec_hash'[d][i] = rec_hash'[d][j] => i = j
                      /\ rec_hash'[d][i] \notin freed'
    OBVIOUS
  <2>1. CASE d = b
    BY <1>3, <1>4, <2>1 DEF NewChain
  <2>2. CASE d # b
    <3>1. rec_hash'[d] = rec_hash[d] /\ rec_hash[d][i] \in 1 .. Len(heap)
      BY <1>2, <1>3, <2>2
    <3>2. Hash[heap[rec_hash[d][i]].name] = d
          /\ \A j \in 1 .. Len(rec_hash[d]) : rec_hash[d][i] = rec_hash[d][j] => i = j
      BY <3>1 DEF HashInv, InItsChain
    <3> QED
      BY <1>1, <2>2, <3>1, <3>2 DEF NewChain
  <2> QED
    BY <2>1, <2>2
<1>6. bucket = 1 /\ at = 1 /\ buffer = << >> /\ buffer' = << >> /\ bucket' = 1 /\ at' = 1
      /\ phase' = "fill"
  BY <1>1 DEF HashInv, Filling, NewChain, flushing
<1>7. HashType'
  <2>1. /\ bucket' \in 1 .. Buckets + 1 /\ at' \in Nat \ {0} /\ buffer' \in Seq(Entries)
        /\ phase' \in {"fill", "flush", "free", "done", "failed"}
    BY <1>6, HashAssumption
  <2>2. freed' \subseteq 1 .. Len(heap') /\ misused' \subseteq freed'
    BY <1>1 DEF NewChain
  <2>3. \A d \in 1 .. Buckets : \A i \in 1 .. Len(rec_hash'[d]) :
          rec_hash'[d][i] \in 1 .. Len(heap')
    BY <1>1, <1>5
  <2> QED
    BY <1>1, <1>3, <2>1, <2>2, <2>3 DEF HashType
<1>8. InItsChain'
  BY <1>5 DEF InItsChain
<1> QED
  BY <1>5, <1>6, <1>7, <1>8 DEF HashInv, Filling, Flushing, Emptied, NewChain

\* A record that is put at an end of its chain.
PutLast(b) == rec_hash' = [rec_hash EXCEPT ![b] = Append(@, New)]
PutFirst(b) == rec_hash' = [rec_hash EXCEPT ![b] = <<New>> \o @]

\* AddRecToHashTable and AddRecToHashTableRetain add to one chain, at its end or its head.
LEMMA AddedToChain ==
  ASSUME HashInv, NEW kind, Take(kind),
         NEW b, b = Hash[Head(input).entry.name], PutLast(b) \/ PutFirst(b),
         UNCHANGED <<freed, misused, flushing, phase>>
  PROVE  HashInv'
<1>1. /\ b \in 1 .. Buckets /\ Len(heap) \in Nat /\ New = Len(heap) + 1 /\ New \in Nat
      /\ phase = "fill"
  BY TakeMakesRecord DEF HashInv, New
<1> DEFINE old == rec_hash[b]
<1>2. rec_hash \in [1 .. Buckets -> Seq(Nat)] /\ old \in Seq(Nat)
      /\ \A i \in 1 .. Len(old) : old[i] \in 1 .. Len(heap)
  BY <1>1 DEF HashInv, HashType
<1>3. \A i, j \in 1 .. Len(old) : old[i] = old[j] => i = j
  BY <1>1 DEF HashInv, InItsChain
<1>4. /\ \A d \in 1 .. Buckets : \A i \in 1 .. Len(rec_hash[d]) : rec_hash[d][i] \notin freed
      /\ freed \subseteq 1 .. Len(heap) /\ misused = {}
  BY <1>1 DEF HashInv, HashType, Filling
<1>5. New \notin freed /\ freed' \subseteq 1 .. New /\ misused' = {} /\ freed' = freed
  BY <1>1, <1>4
<1>6. \A i \in 1 .. Len(old) : old[i] \notin freed /\ old[i] # New
  BY <1>1, <1>2, <1>4
<1>7. CASE PutLast(b)
  <2> DEFINE c == Append(old, New)
  <2> HIDE DEF old
  <2>1. c \in Seq(Nat) /\ Len(c) = Len(old) + 1 /\ Len(old) \in Nat
        /\ c[Len(old) + 1] = New /\ \A i \in 1 .. Len(old) : c[i] = old[i]
    BY <1>1, <1>2
  <2> HIDE DEF c
  <2>2. \A i \in 1 .. Len(c) : i \in 1 .. Len(old) \/ i = Len(old) + 1
    BY <2>1
  <2>3. \A i, j \in 1 .. Len(c) : c[i] = c[j] => i = j
    BY <1>3, <1>6, <2>1, <2>2
  <2>4. rec_hash' = [rec_hash EXCEPT ![b] = c]
    BY <1>7 DEF c, old, PutLast
  <2>5. \A i \in 1 .. Len(c) : c[i] \notin freed'
                               /\ (c[i] = New \/ \E k \in 1 .. Len(old) : c[i] = old[k])
    BY <1>5, <1>6, <2>1, <2>2
  <2>6. \A d \in 1 .. Buckets : \A i \in 1 .. Len(rec_hash[d]) : rec_hash[d][i] \notin freed'
    BY <1>4, <1>5
  <2>7. UNCHANGED <<flushing, phase>>
    OBVIOUS
  <2>8. NewChain(b, c)
    BY <1>5, <2>1, <2>3, <2>4, <2>5, <2>6, <2>7 DEF old, NewChain
  <2> QED
    BY <2>8, NewChainKeeps
<1>8. CASE PutFirst(b)
  <2> DEFINE c == <<New>> \o old
  <2>0. old \in Seq(Nat) /\ New \in Nat
    BY <1>1, <1>2
  <2> HIDE DEF old
  <2>1. c \in Seq(Nat) /\ Len(c) = Len(old) + 1 /\ Len(old) \in Nat
        /\ c[1] = New /\ \A i \in 1 .. Len(old) : c[i + 1] = old[i]
    BY ONLY <2>0
  <2> HIDE DEF c
  <2>2. ASSUME NEW i \in 1 .. Len(c)
        PROVE  i = 1 \/ (i - 1 \in 1 .. Len(old) /\ c[i] = old[i - 1])
    <3> SUFFICES ASSUME i # 1 PROVE i - 1 \in 1 .. Len(old) /\ c[i] = old[i - 1]
      OBVIOUS
    <3>1. i - 1 \in 1 .. Len(old) /\ (i - 1) + 1 = i
      BY ONLY <2>1, i \in 1 .. Len(c), i # 1
    <3>2. c[(i - 1) + 1] = old[i - 1]
      BY <2>1, <3>1
    <3> QED
      BY <3>1, <3>2
  <2>3. \A i, j \in 1 .. Len(c) : c[i] = c[j] => i = j
    <3> SUFFICES ASSUME NEW i \in 1 .. Len(c), NEW j \in 1 .. Len(c), c[i] = c[j]
                 PROVE  i = j
      OBVIOUS
    <3>1. CASE i = 1 /\ j # 1
      BY <1>6, <2>1, <2>2, <3>1
    <3>2. CASE j = 1 /\ i # 1
      BY <1>6, <2>1, <2>2, <3>2
    <3>3. CASE i # 1 /\ j # 1
      <4>1. i - 1 \in 1 .. Len(old) /\ j - 1 \in 1 .. Len(old) /\ old[i - 1] = old[j - 1]
        BY <2>2, <3>3
      <4>2. i - 1 = j - 1
        BY <1>3, <4>1
      <4> QED
        BY <2>1, <4>2
    <3> QED
      BY <3>1, <3>2, <3>3
  <2>4. rec_hash' = [rec_hash EXCEPT ![b] = c]
    BY <1>8 DEF c, old, PutFirst
  <2>5. \A i \in 1 .. Len(c) : c[i] \notin freed'
                               /\ (c[i] = New \/ \E k \in 1 .. Len(old) : c[i] = old[k])
    BY <1>5, <1>6, <2>1, <2>2
  <2>6. \A d \in 1 .. Buckets : \A i \in 1 .. Len(rec_hash[d]) : rec_hash[d][i] \notin freed'
    BY <1>4, <1>5
  <2>7. UNCHANGED <<flushing, phase>>
    OBVIOUS
  <2>8. NewChain(b, c)
    BY <1>5, <2>1, <2>3, <2>4, <2>5, <2>6, <2>7 DEF old, NewChain
  <2> QED
    BY <2>8, NewChainKeeps
<1> QED
  BY <1>7, <1>8

\* A record that takes the place of the first of its name.
LEMMA ReplacedInChain ==
  ASSUME HashInv, NEW kind, Take(kind),
         NEW n, n = Head(input).entry.name,
         Matches(Chain(n), n) # {}, Replace(n),
         UNCHANGED <<flushing, phase>>
  PROVE  HashInv'
<1> DEFINE b == Hash[n]
           old == rec_hash[b]
           p == FirstMatch(old, n)
           c == [old EXCEPT ![p] = New]
<1>1. /\ b \in 1 .. Buckets /\ Len(heap) \in Nat /\ New = Len(heap) + 1 /\ New \in Nat
      /\ phase = "fill"
  BY TakeMakesRecord DEF HashInv, New
<1>2. rec_hash \in [1 .. Buckets -> Seq(Nat)] /\ old \in Seq(Nat)
      /\ \A d \in 1 .. Buckets :
            \A i \in 1 .. Len(rec_hash[d]) : rec_hash[d][i] \in 1 .. Len(heap)
  BY <1>1 DEF HashInv, HashType
<1>3. p \in 1 .. Len(old)
  BY <1>2, FirstMatchFound DEF Chain
<1>4. /\ rec_hash' = [rec_hash EXCEPT ![b][p] = New]
      /\ freed' = freed \cup {old[p]} /\ misused' = misused \cup ({old[p]} \cap freed)
  BY DEF Replace, Free, Chain
<1>5. rec_hash' = [rec_hash EXCEPT ![b] = c]
  BY <1>1, <1>2, <1>4
<1>6. /\ \A d \in 1 .. Buckets : \A i \in 1 .. Len(rec_hash[d]) :
           /\ rec_hash[d][i] \notin freed
           /\ Hash[heap[rec_hash[d][i]].name] = d
           /\ \A j \in 1 .. Len(rec_hash[d]) : rec_hash[d][i] = rec_hash[d][j] => i = j
      /\ freed \subseteq 1 .. Len(heap) /\ misused = {}
  BY <1>1 DEF HashInv, HashType, Filling, InItsChain
<1>7. misused' = {} /\ freed' \subseteq 1 .. New /\ New \notin freed'
  <2>1. old[p] \in 1 .. Len(heap) /\ old[p] \notin freed
    BY <1>1, <1>2, <1>3, <1>6
  <2> HIDE DEF old, p
  <2>2. misused' = {}
    BY <1>4, <1>6, <2>1
  <2> QED
    BY <1>1, <1>4, <1>6, <2>1, <2>2
<1>8. \A d \in 1 .. Buckets : \A i \in 1 .. Len(rec_hash[d]) :
        d # b => rec_hash[d][i] \notin freed'
  <2> HIDE DEF b, p
  <2>1. Hash[heap[old[p]].name] = b
    BY <1>1, <1>3, <1>6
  <2> HIDE DEF old
  <2> QED
    BY <1>4, <1>6, <2>1
<1> HIDE DEF b, p
<1>9. c \in Seq(Nat) /\ Len(c) = Len(old) /\ c[p] = New
      /\ \A i \in 1 .. Len(old) : i # p => c[i] = old[i]
  BY <1>1, <1>2, <1>3
<1>10. \A i \in 1 .. Len(old) : old[i] # New /\ (i # p => old[i] \notin freed')
  BY <1>1, <1>2, <1>3, <1>4, <1>6
<1> HIDE DEF c
<1>11. \A i \in 1 .. Len(c) :
         c[i] \notin freed' /\ (c[i] = New \/ \E k \in 1 .. Len(old) : c[i] = old[k])
  BY <1>7, <1>9, <1>10
<1>12. \A i, j \in 1 .. Len(old) : old[i] = old[j] => i = j
  BY <1>1, <1>6
<1>13. \A i, j \in 1 .. Len(c) : c[i] = c[j] => i = j
  BY <1>9, <1>10, <1>12
<1>14. b = Hash[Head(input).entry.name]
  BY DEF b
<1> QED
  BY <1>5, <1>7, <1>8, <1>9, <1>11, <1>13, <1>14, NewChainKeeps DEF NewChain

\* A record that is given up since its name is there.
LEMMA GivenUp ==
  ASSUME HashInv, NEW kind, Take(kind), Free({New}), UNCHANGED <<rec_hash, flushing, phase>>
  PROVE  HashInv'
<1>1. /\ input' \in Seq(Readable) /\ heap' \in Seq(Entries)
      /\ Len(heap) \in Nat /\ New = Len(heap) + 1 /\ New \in Nat /\ Len(heap') = New
      /\ \A r \in 1 .. Len(heap) : heap'[r] = heap[r]
      /\ phase = "fill"
  BY TakeMakesRecord DEF HashInv, New
<1>2. \A b \in 1 .. Buckets : \A i \in 1 .. Len(rec_hash[b]) :
        rec_hash[b][i] \in 1 .. Len(heap) /\ rec_hash[b][i] \notin freed
  BY <1>1 DEF HashInv, HashType, Filling
<1>3. freed \subseteq 1 .. Len(heap) /\ misused = {}
  BY <1>1 DEF HashInv, HashType, Filling
<1>4. freed' = freed \cup {New} /\ misused' = {}
  BY <1>1, <1>3 DEF Free
<1>5. \A b \in 1 .. Buckets : \A i \in 1 .. Len(rec_hash[b]) :
        /\ rec_hash[b][i] \in 1 .. New /\ rec_hash[b][i] \notin freed'
        /\ heap'[rec_hash[b][i]] = heap[rec_hash[b][i]]
  BY <1>1, <1>2, <1>4
<1>6. HashType'
  <2>1. /\ bucket' \in 1 .. Buckets + 1 /\ at' \in Nat \ {0} /\ buffer' \in Seq(Entries)
        /\ phase' \in {"fill", "flush", "free", "done", "failed"}
        /\ rec_hash' \in [1 .. Buckets -> Seq(Nat)]
    BY DEF HashInv, HashType, flushing
  <2>2. freed' \subseteq 1 .. Len(heap') /\ misused' \subseteq freed'
    <3>1. 1 .. Len(heap) \subseteq 1 .. New /\ New \in 1 .. New
      BY <1>1
    <3> QED
      BY <1>1, <1>3, <1>4, <3>1
  <2>3. \A d \in 1 .. Buckets : \A i \in 1 .. Len(rec_hash'[d]) :
          rec_hash'[d][i] \in 1 .. Len(heap')
    BY <1>1, <1>5
  <2> QED
    BY <1>1, <2>1, <2>2, <2>3 DEF HashType
<1>7. InItsChain'
  BY <1>5 DEF HashInv, InItsChain
<1>8. Filling'
  BY <1>1, <1>4, <1>5 DEF HashInv, Filling, flushing
<1> QED
  BY <1>1, <1>6, <1>7, <1>8 DEF HashInv, Flushing, Emptied

-----------------------------------------------------------------------------
(* The steps.                                                              *)

\* insert_record.
LEMMA InsertKeeps ==
  ASSUME HashInv, NEW kind, Take(kind), NEW overwrite,
         Insert(overwrite, Head(input).entry.name), UNCHANGED <<flushing, phase>>
  PROVE  HashInv'
<1> DEFINE n == Head(input).entry.name
<1>1. CASE /\ rec_hash' = [rec_hash EXCEPT ![Hash[n]] = <<New>> \o @]
           /\ UNCHANGED <<freed, misused>>
  <2>1. PutFirst(Hash[n]) /\ UNCHANGED <<freed, misused, flushing, phase>>
    BY <1>1 DEF PutFirst
  <2> QED
    BY <2>1, AddedToChain
<1>2. CASE Free({New}) /\ UNCHANGED rec_hash
  <2>1. UNCHANGED <<rec_hash, flushing, phase>>
    BY <1>2
  <2> QED
    BY <1>2, <2>1, GivenUp
<1>3. CASE Matches(Chain(n), n) # {} /\ Replace(n)
  BY <1>3, ReplacedInChain
<1> QED
  BY <1>1, <1>2, <1>3 DEF Insert

\* A line without a record changes the input only.
LEMMA SkipLineKeeps == HashInv /\ SkipLine => HashInv'
<1> SUFFICES ASSUME HashInv, SkipLine
             PROVE  HashInv'
  OBVIOUS
<1>1. /\ phase = "fill" /\ input' = Tail(input) /\ input # << >>
      /\ UNCHANGED <<heap, rec_hash, freed, misused, bucket, at, buffer, phase>>
  BY DEF SkipLine, chains, flushing
<1>2. HashType'
  BY <1>1 DEF HashInv, HashType
<1>3. InItsChain' /\ Filling'
  BY <1>1 DEF HashInv, InItsChain, Filling
<1> QED
  BY <1>1, <1>2, <1>3 DEF HashInv, Flushing, Emptied

\* A record of the file goes to the end of its chain.
LEMMA LoadRecordKeeps == HashInv /\ LoadRecord => HashInv'
<1> SUFFICES ASSUME HashInv, LoadRecord
             PROVE  HashInv'
  OBVIOUS
<1>1. PutLast(Hash[Head(input).entry.name])
  BY DEF LoadRecord, PutLast
<1> QED
  BY <1>1, AddedToChain DEF LoadRecord

\* An insertion keeps it, whichever the flag overwrite.
LEMMA KeepRecordKeeps == HashInv /\ KeepRecord => HashInv'
BY InsertKeeps DEF KeepRecord

\* The same, of a record that replaces what is there.
LEMMA OverwriteRecordKeeps == HashInv /\ OverwriteRecord => HashInv'
BY InsertKeeps DEF OverwriteRecord

\* The first chain is flushed from its first record, nothing being freed yet.
LEMMA FlushBeginsKeeps == HashInv /\ FlushBegins => HashInv'
<1> SUFFICES ASSUME HashInv, FlushBegins
             PROVE  HashInv'
  OBVIOUS
<1>1. /\ phase = "fill" /\ phase' = "flush" /\ input = << >>
      /\ UNCHANGED <<input, heap, rec_hash, freed, misused, bucket, at, buffer>>
  BY DEF FlushBegins, chains, flushing
<1>2. HashType'
  BY <1>1 DEF HashInv, HashType
<1>3. InItsChain'
  BY <1>1 DEF HashInv, InItsChain
<1>4. /\ bucket = 1 /\ at = 1 /\ misused = {}
      /\ \A b \in 1 .. Buckets : \A i \in 1 .. Len(rec_hash[b]) : rec_hash[b][i] \notin freed
      /\ rec_hash \in [1 .. Buckets -> Seq(Nat)]
  BY <1>1 DEF HashInv, HashType, Filling
<1>5. Flushing'
  <2>1. \A b \in 1 .. Buckets : \A i \in 1 .. Len(rec_hash[b]) : ~(i < at)
    BY <1>4
  <2>2. bucket \in 1 .. Buckets => at <= Len(rec_hash[bucket]) + 1
    BY <1>4
  <2>3. \A b \in 1 .. Buckets : ~(b < bucket)
    BY <1>4, HashAssumption
  <2> QED
    BY <1>1, <1>4, <2>1, <2>2, <2>3 DEF Flushing
<1> QED
  BY <1>1, <1>2, <1>3, <1>5 DEF HashInv, Filling, Emptied

\* The record that is written and freed is the one at the head of its chain.
LEMMA FlushRecordKeeps == HashInv /\ FlushRecord => HashInv'
<1> SUFFICES ASSUME HashInv, FlushRecord
             PROVE  HashInv'
  OBVIOUS
<1> DEFINE r == rec_hash[bucket][at]
<1>1. /\ phase = "flush" /\ bucket <= Buckets /\ at <= Len(rec_hash[bucket])
      /\ buffer' = Append(buffer, heap[r]) /\ freed' = freed \cup {r}
      /\ misused' = misused \cup ({r} \cap freed) /\ at' = at + 1
      /\ UNCHANGED <<input, heap, rec_hash, bucket, phase>>
  BY DEF FlushRecord, AtRecord
<1>2. /\ bucket \in 1 .. Buckets /\ at \in 1 .. Len(rec_hash[bucket]) /\ at \in Nat \ {0}
      /\ rec_hash \in [1 .. Buckets -> Seq(Nat)]
  BY <1>1, HashAssumption DEF HashInv, HashType
<1>3. r \in 1 .. Len(heap) /\ heap[r] \in Entries /\ Hash[heap[r].name] = bucket
  BY <1>2 DEF HashInv, HashType, InItsChain
<1>4. /\ misused = {} /\ input = << >>
      /\ \A b \in 1 .. Buckets : \A i \in 1 .. Len(rec_hash[b]) :
           rec_hash[b][i] \in freed <=> b = bucket /\ i < at
      /\ \A b \in 1 .. Buckets : b < bucket => rec_hash[b] = << >>
  BY <1>1 DEF HashInv, Flushing
<1>5. r \notin freed /\ misused' = {}
  <2>1. r \notin freed
    BY <1>2, <1>4
  <2> HIDE DEF r
  <2> QED
    BY <1>1, <1>4, <2>1
<1>6. \A b \in 1 .. Buckets : \A i \in 1 .. Len(rec_hash[b]) :
        rec_hash[b][i] = r <=> b = bucket /\ i = at
  BY <1>2, <1>3 DEF HashInv, InItsChain
<1> HIDE DEF r
<1>7. HashType'
  BY <1>1, <1>2, <1>3, <1>5 DEF HashInv, HashType
<1>8. InItsChain'
  BY <1>1 DEF HashInv, InItsChain
<1>9. \A b \in 1 .. Buckets : \A i \in 1 .. Len(rec_hash[b]) :
        rec_hash[b][i] \in freed' <=> b = bucket /\ i < at + 1
  BY <1>1, <1>2, <1>4, <1>6
<1>10. at + 1 <= Len(rec_hash[bucket]) + 1
  BY <1>1, <1>2
<1>11. Flushing'
  BY <1>1, <1>4, <1>5, <1>9, <1>10 DEF Flushing
<1> QED
  BY <1>1, <1>7, <1>8, <1>11 DEF HashInv, Filling, Emptied

\* The bucket that is left is empty, and the next is entered at its head.
LEMMA FlushChainKeeps == HashInv /\ FlushChain => HashInv'
<1> SUFFICES ASSUME HashInv, FlushChain
             PROVE  HashInv'
  OBVIOUS
<1>1. /\ phase = "flush" /\ bucket <= Buckets /\ at > Len(rec_hash[bucket])
      /\ rec_hash' = [rec_hash EXCEPT ![bucket] = << >>]
      /\ bucket' = bucket + 1 /\ at' = 1
      /\ UNCHANGED <<input, heap, freed, misused, buffer, phase>>
  BY DEF FlushChain
<1>2. /\ bucket \in 1 .. Buckets /\ rec_hash \in [1 .. Buckets -> Seq(Nat)]
  BY <1>1, HashAssumption DEF HashInv, HashType
<1>3. /\ misused = {} /\ input = << >>
      /\ \A b \in 1 .. Buckets : \A i \in 1 .. Len(rec_hash[b]) :
           rec_hash[b][i] \in freed <=> b = bucket /\ i < at
      /\ \A b \in 1 .. Buckets : b < bucket => rec_hash[b] = << >>
  BY <1>1 DEF HashInv, Flushing
<1>4. /\ rec_hash' \in [1 .. Buckets -> Seq(Nat)] /\ rec_hash'[bucket] = << >>
      /\ \A b \in 1 .. Buckets : b # bucket => rec_hash'[b] = rec_hash[b]
  BY <1>1, <1>2
<1>5. \A b \in 1 .. Buckets : \A i \in 1 .. Len(rec_hash'[b]) :
        b # bucket /\ rec_hash'[b] = rec_hash[b]
  BY <1>4
<1>6. HashType'
  <2>1. \A b \in 1 .. Buckets : \A i \in 1 .. Len(rec_hash'[b]) :
          rec_hash'[b][i] \in 1 .. Len(heap)
    BY <1>5 DEF HashInv, HashType
  <2> QED
    BY <1>1, <1>2, <1>4, <2>1, HashAssumption DEF HashInv, HashType
<1>7. InItsChain'
  BY <1>1, <1>5 DEF HashInv, InItsChain
<1>8. \A b \in 1 .. Buckets : \A i \in 1 .. Len(rec_hash'[b]) : ~(i < 1)
  BY <1>4
<1>9. \A b \in 1 .. Buckets : b < bucket + 1 => rec_hash'[b] = << >>
  <2>1. \A b \in 1 .. Buckets : b < bucket + 1 => b = bucket \/ (b < bucket /\ b # bucket)
    BY <1>2, HashAssumption
  <2> QED
    BY <1>3, <1>4, <2>1
<1>10. Flushing'
  <2>1. \A b \in 1 .. Buckets : \A i \in 1 .. Len(rec_hash'[b]) :
          rec_hash'[b][i] \in freed <=> b = bucket' /\ i < at'
    BY <1>1, <1>3, <1>5, <1>8
  <2>2. bucket' \in 1 .. Buckets => at' <= Len(rec_hash'[bucket']) + 1
    BY <1>1, <1>4
  <2> QED
    BY <1>1, <1>3, <1>9, <2>1, <2>2 DEF Flushing
<1> QED
  BY <1>1, <1>6, <1>7, <1>10 DEF HashInv, Filling, Emptied

\* After the last bucket all are empty.
LEMMA FlushEndsKeeps == HashInv /\ FlushEnds => HashInv'
<1> SUFFICES ASSUME HashInv, FlushEnds
             PROVE  HashInv'
  OBVIOUS
<1>1. /\ phase = "flush" /\ bucket > Buckets /\ phase' = "done"
      /\ UNCHANGED <<input, heap, rec_hash, freed, misused, bucket, at, buffer>>
  BY DEF FlushEnds, chains, flushing
<1>2. misused = {} /\ \A b \in 1 .. Buckets : b < bucket => rec_hash[b] = << >>
  BY <1>1 DEF HashInv, Flushing
<1>3. bucket \in Nat
  BY HashAssumption DEF HashInv, HashType
<1>4. \A b \in 1 .. Buckets : rec_hash[b] = << >>
  BY <1>1, <1>2, <1>3, HashAssumption
<1>5. HashType'
  BY <1>1 DEF HashInv, HashType
<1>6. InItsChain'
  BY <1>1 DEF HashInv, InItsChain
<1> QED
  BY <1>1, <1>2, <1>4, <1>5, <1>6 DEF HashInv, Filling, Flushing, Emptied

\* A flush that cannot open its buffer frees nothing.
LEMMA FlushFailsKeeps == HashInv /\ FlushFails => HashInv'
<1> SUFFICES ASSUME HashInv, FlushFails
             PROVE  HashInv'
  OBVIOUS
<1>1. /\ phase = "flush" /\ bucket <= Buckets /\ phase' = "free" /\ buffer' = << >>
      /\ UNCHANGED <<input, heap, rec_hash, freed, misused, bucket, at>>
  BY DEF FlushFails, AtRecord, chains
<1>2. HashType'
  BY <1>1 DEF HashInv, HashType
<1>3. InItsChain'
  BY <1>1 DEF HashInv, InItsChain
<1>4. bucket \in 1 .. Buckets
  BY <1>1, HashAssumption DEF HashInv, HashType
<1>5. Flushing'
  BY <1>1, <1>4 DEF HashInv, Flushing
<1> QED
  BY <1>1, <1>2, <1>3, <1>5 DEF HashInv, Filling, Emptied

\* FreeRecHashTable frees what is left and empties the buckets.
LEMMA FreeRecordsKeeps == HashInv /\ FreeRecords => HashInv'
<1> SUFFICES ASSUME HashInv, FreeRecords
             PROVE  HashInv'
  OBVIOUS
<1> DEFINE Listed == UNION {{rec_hash[b][i] : i \in DOMAIN rec_hash[b]} : b \in 1 .. Buckets}
<1>1. /\ phase = "free" /\ phase' = "failed"
      /\ freed' = freed \cup Listed /\ misused' = misused \cup (Listed \cap freed)
      /\ rec_hash' = [b \in 1 .. Buckets |-> << >>]
      /\ UNCHANGED <<input, heap, bucket, at, buffer>>
  BY DEF FreeRecords, Free, flushing
<1>2. /\ rec_hash \in [1 .. Buckets -> Seq(Nat)]
      /\ \A b \in 1 .. Buckets : DOMAIN rec_hash[b] = 1 .. Len(rec_hash[b])
      /\ at \in Nat \ {0}
  BY DEF HashInv, HashType
<1>3. \A r \in Listed : /\ r \in 1 .. Len(heap)
                        /\ r \in freed => at > 1
  <2> SUFFICES ASSUME NEW r \in Listed
               PROVE  r \in 1 .. Len(heap) /\ (r \in freed => at > 1)
    OBVIOUS
  <2>0. PICK b \in 1 .. Buckets : r \in {rec_hash[b][i] : i \in DOMAIN rec_hash[b]}
    OBVIOUS
  <2>4. PICK i \in 1 .. Len(rec_hash[b]) : r = rec_hash[b][i]
    BY <1>2, <2>0
  <2> HIDE DEF Listed
  <2>1. rec_hash[b][i] \in 1 .. Len(heap)
    BY DEF HashInv, HashType
  <2>2. rec_hash[b][i] \in freed => i < at
    BY <1>1 DEF HashInv, Flushing
  <2>3. i \in Nat \ {0}
    BY <1>2
  <2> QED
    BY <1>2, <2>1, <2>2, <2>3, <2>4
<1> HIDE DEF Listed
<1>4. misused' # {} => at > 1
  <2>1. misused = {}
    BY <1>1 DEF HashInv, Flushing
  <2>2. misused' # {} => \E r \in Listed : r \in freed
    BY <1>1, <2>1
  <2> QED
    BY <1>2, <1>3, <2>2
<1>5. \A b \in 1 .. Buckets : rec_hash'[b] = << >>
  BY <1>1
<1>6. HashType'
  <2>1. freed' \subseteq 1 .. Len(heap) /\ misused' \subseteq freed'
    BY <1>1, <1>3 DEF HashInv, HashType
  <2> QED
    BY <1>1, <1>5, <2>1 DEF HashInv, HashType
<1>7. InItsChain'
  BY <1>5 DEF InItsChain
<1> QED
  BY <1>1, <1>4, <1>5, <1>6, <1>7 DEF HashInv, Filling, Flushing, Emptied

\* Every step of the table keeps the invariant.
LEMMA HashStepKeeps == HashInv /\ HashNext => HashInv'
BY SkipLineKeeps, LoadRecordKeeps, KeepRecordKeeps, OverwriteRecordKeeps, FlushBeginsKeeps,
   FlushRecordKeeps, FlushChainKeeps, FlushEndsKeeps, FlushFailsKeeps, FreeRecordsKeeps
DEF HashNext

-----------------------------------------------------------------------------
(* The theorems.                                                           *)

\* The table of the platform's path is filled from what can be read; the base
\* implementation's is not used.
LEMMA InitKeeps == Init => HashInv /\ LoadType
<1> SUFFICES ASSUME Init
             PROVE  HashInv /\ LoadType
  OBVIOUS
<1>1. input \in Seq(Readable)
  <2>1. CASE path = "platform"
    <3>1. saved \in Repositories /\ saved.folders = << >> /\ sources \in Sources
          /\ input = ReadOrder(FileOf(saved), sources)
      BY <2>1 DEF Init, HashInit
    <3> QED
      BY <3>1, ReadOrderIsItems
  <2>2. CASE path # "platform"
    BY <2>2 DEF Init, HashInit
  <2> QED
    BY <2>1, <2>2
<1>2. /\ heap = << >> /\ rec_hash = [b \in 1 .. Buckets |-> << >>]
      /\ freed = {} /\ misused = {} /\ bucket = 1 /\ at = 1 /\ buffer = << >>
      /\ phase = "fill"
  BY DEF Init, HashInit
<1>3. HashType
  BY <1>1, <1>2, HashAssumption DEF HashType
<1>4. InItsChain /\ Filling /\ Flushing /\ Emptied
  BY <1>2 DEF InItsChain, Filling, Flushing, Emptied
<1>5. LoadType
  <2>1. pc \in {"merge", "load", "overrun"}
    <3>1. pc = (IF path = "base" THEN "load" ELSE "merge") \/ pc = "overrun"
      BY DEF Init
    <3> QED
      BY <3>1
  <2>2. folder = Root /\ folders = << >>
    BY DEF Init
  <2>3. folders \in Seq(Range(folders))
    BY <2>2
  <2> QED
    BY <2>1, <2>2, <2>3 DEF LoadType
<1> QED
  BY <1>3, <1>4, <1>5 DEF HashInv

\* Only the steps of Merge touch the table.
LEMMA TableStep == Next => HashNext \/ UNCHANGED hashVars
BY DEF Next, Merge, MergeEnds, MergeFails, LoadRecordElement, LoadFolderElement, LoadFolderEnds,
       LoadOtherElement, LoadEndsAt, vars

\* So does a step of the caller that leaves the table alone.
LEMMA TableKept == HashInv /\ UNCHANGED hashVars => HashInv'
<1> SUFFICES ASSUME HashInv, UNCHANGED hashVars
             PROVE  HashInv'
  OBVIOUS
<1>1. UNCHANGED <<input, heap, rec_hash, freed, misused, bucket, at, buffer, phase>>
  BY DEF hashVars
<1> QED
  BY <1>1 DEF HashInv, HashType, InItsChain, Filling, Flushing, Emptied

\* Every step keeps the invariant.
LEMMA HashInvInductive == HashInv /\ [Next]_vars => HashInv'
BY HashStepKeeps, TableStep, TableKept DEF vars

\* The folder that is being loaded is the root or one of those that were loaded.
LEMMA LoadTypeInductive == LoadType /\ [Next]_vars => LoadType'
<1> SUFFICES ASSUME LoadType, [Next]_vars
             PROVE  LoadType'
  OBVIOUS
<1>1. CASE UNCHANGED <<folder, folders>> /\ pc' \in {"load", "loaded", "aborted", "out of memory"}
  BY <1>1 DEF LoadType
<1>2. CASE UNCHANGED <<folder, folders, pc>>
  BY <1>2 DEF LoadType
<1>3. CASE LoadFolderElement
  <2> DEFINE f == [name |-> Head(doc).name, ctype |-> Head(doc).ctype, perm |-> Head(doc).perm]
  <2>1. folder' = f.name /\ folders' = Append(folders, f) /\ UNCHANGED pc
    BY <1>3 DEF LoadFolderElement
  <2> HIDE DEF f
  <2>2. folders \in Seq(Range(folders))
    BY DEF LoadType
  <2> DEFINE S == Range(folders) \cup {f}
  <2>3. folders \in Seq(S) /\ f \in S
    BY <2>2
  <2> HIDE DEF S
  <2>4. /\ folders' \in Seq(S) /\ folders'[Len(folders) + 1] = f
        /\ Len(folders') = Len(folders) + 1 /\ Len(folders) \in Nat
    BY <2>1, <2>3
  <2>5. folders' \in Seq(Range(folders'))
    BY <2>4 DEF Range
  <2>6. \E i \in 1 .. Len(folders') : folders'[i].name = folder'
    BY <2>1, <2>4
  <2> QED
    BY <2>1, <2>5, <2>6 DEF LoadType
<1>4. CASE LoadFolderEnds
  BY <1>4 DEF LoadType, LoadFolderEnds
<1>5. CASE Merge \/ LoadOtherElement \/ UNCHANGED vars
  BY <1>2, <1>5 DEF Merge, LoadOtherElement, vars, pathVars
<1>6. CASE MergeEnds \/ MergeFails \/ LoadEndsAt
  BY <1>1, <1>6 DEF MergeEnds, MergeFails, LoadEndsAt, Step
<1>7. CASE LoadRecordElement
  BY <1>1, <1>2, <1>7 DEF LoadRecordElement
<1> QED
  BY <1>3, <1>4, <1>5, <1>6, <1>7 DEF Next

\* In every reachable state a record of the table stands in the chain of its hash
\* and there at one place, and is freed only if the flush has written it and not
\* yet taken its chain out of the table (insert_record, flush_records).
THEOREM TableInvariant == Spec => [](HashInv /\ LoadType)
<1>1. HashInv /\ LoadType /\ [Next]_vars => (HashInv /\ LoadType)'
  BY HashInvInductive, LoadTypeInductive
<1> QED
  BY <1>1, InitKeeps, PTL DEF Spec

\* Types: chains hold records that exist, in the chain their name hashes to
\* (record_hash in load_records and insert_record); the folder that is loaded
\* into is one that is there (loadFolderFromXML).
THEOREM TypesHold == Spec => []TypeOK
<1>1. HashInv /\ LoadType => TypeOK
  <2> SUFFICES ASSUME HashInv, LoadType
               PROVE  TypeOK
    OBVIOUS
  <2>1. /\ heap \in Seq(Entries) /\ DOMAIN heap = 1 .. Len(heap)
        /\ \A b \in 1 .. Buckets : DOMAIN rec_hash[b] = 1 .. Len(rec_hash[b])
    BY DEF HashInv, HashType
  <2>3. folders \in Seq(Range(folders)) => DOMAIN folders = 1 .. Len(folders)
    OBVIOUS
  <2>2. \A b \in 1 .. Buckets : \A i \in DOMAIN rec_hash[b] :
          rec_hash[b][i] \in DOMAIN heap /\ Hash[heap[rec_hash[b][i]].name] = b
    BY <2>1 DEF HashInv, HashType, InItsChain
  <2> QED
    BY <2>1, <2>2, <2>3 DEF HashInv, HashType, LoadType, TypeOK
<1> QED
  BY <1>1, TableInvariant, PTL

\* No record is freed twice, or read after it was freed, but by free_records after
\* a flush that gave up in the middle of a chain (flush_records frees a record when
\* it has written it, and takes the chain out of the table only at its end).
THEOREM RecordsFreedOnce == Spec => []FreedOnce
<1>1. HashInv => FreedOnce
  BY DEF HashInv, HashType, Filling, Flushing, Emptied, FreedOnce
<1> QED
  BY <1>1, TableInvariant, PTL

\* The table is empty when ssp_CfmReadCurConfig returns, also when it fails.
THEOREM TableIsEmptied == Spec => []TableEmptied
<1>1. HashInv => TableEmptied
  BY DEF HashInv, Emptied, TableEmptied
<1> QED
  BY <1>1, TableInvariant, PTL
=============================================================================
