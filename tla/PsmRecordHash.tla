---------------------------- MODULE PsmRecordHash ----------------------------
(***************************************************************************)
(* The hash table of records (ssp_cfmif.c): how ssp_CfmReadCurConfig loads *)
(* the records of a file into its chains, inserts those of the platform,   *)
(* the default file and the partner, and flushes the chains, freeing each  *)
(* record, into the buffer that is parsed and saved.                       *)
(*                                                                         *)
(* The records are objects on the heap, named by their place in it; chains *)
(* are sequences of such names.                                            *)
(***************************************************************************)
EXTENDS Naturals, Sequences

CONSTANTS
  Names,         \* names of records
  Buckets,       \* PSM_REC_HASH_SIZE
  Hash,          \* record_hash
  NoEntry,
  FlushMayFail   \* whether growing the buffer can fail

ASSUME HashAssumption ==
  /\ Buckets \in Nat \ {0}
  /\ Hash \in [Names -> 1 .. Buckets]

VARIABLES
  input,      \* the lines and parameters still to be taken, with their source
  heap,       \* the records made so far
  rec_hash,
  freed,      \* the records that were freed
  misused,    \* history: records freed twice, or read after they were freed
  bucket,     \* the chain the flush is at
  at,         \* and the place in it
  buffer,     \* the entries written to the buffer
  phase       \* "fill", "flush", "free", "done" or "failed"

hashVars == <<input, heap, rec_hash, freed, misused, bucket, at, buffer, phase>>
chains   == <<rec_hash, freed, misused>>
flushing == <<bucket, at, buffer>>

Chain(n) == rec_hash[Hash[n]]

\* The places of a chain at which a name stands.
Matches(chain, n) == {i \in DOMAIN chain : heap[chain[i]].name = n}
FirstMatch(chain, n) == CHOOSE i \in Matches(chain, n) :
                          \A j \in Matches(chain, n) : i <= j

HashInit(sources) ==
  /\ input = sources
  /\ heap = << >> /\ rec_hash = [b \in 1 .. Buckets |-> << >>]
  /\ freed = {} /\ misused = {}
  /\ bucket = 1 /\ at = 1 /\ buffer = << >>
  /\ phase = "fill"

\* The next item is of a kind and makes a record (record_parse, record_create).
Take(kind) ==
  /\ phase = "fill" /\ input # << >>
  /\ Head(input).entry # NoEntry /\ Head(input).source = kind
  /\ heap' = Append(heap, Head(input).entry)
  /\ input' = Tail(input)

New == Len(heap) + 1
Free(records) ==
  /\ freed' = freed \cup records
  /\ misused' = misused \cup (records \cap freed)

\* A line that is not a record, or that record_parse can make nothing of.
SkipLine ==
  /\ phase = "fill" /\ input # << >>
  /\ Head(input).entry = NoEntry
  /\ input' = Tail(input)
  /\ UNCHANGED <<heap, chains, flushing, phase>>

\* load_records: at the end of the chain, whatever is in it.
LoadRecord ==
  /\ Take("file")
  /\ rec_hash' = [rec_hash EXCEPT ![Hash[Head(input).entry.name]] = Append(@, New)]
  /\ UNCHANGED <<freed, misused, flushing, phase>>

\* Mutant: the record that is replaced stays where it was.
ReplaceKeepsOld(n) ==
  LET i == FirstMatch(Chain(n), n)
  IN  /\ rec_hash' = [rec_hash EXCEPT ![Hash[n]] = <<New>> \o @]
      /\ Free({Chain(n)[i]})

\* The new record takes the place of the first of its name.
Replace(n) ==
  LET i == FirstMatch(Chain(n), n)
  IN  /\ rec_hash' = [rec_hash EXCEPT ![Hash[n]][i] = New]
      /\ Free({Chain(n)[i]})

\* Mutant: a new name goes to the first chain.
InsertInFirstChain(overwrite, n) ==
  /\ rec_hash' = [rec_hash EXCEPT ![1] = <<New>> \o @]
  /\ UNCHANGED <<freed, misused>>

\* Mutant: the name that is there is not noticed.
InsertNoSearch(overwrite, n) ==
  /\ rec_hash' = [rec_hash EXCEPT ![Hash[n]] = <<New>> \o @]
  /\ UNCHANGED <<freed, misused>>

\* insert_record.
Insert(overwrite, n) ==
  \/ /\ Matches(Chain(n), n) = {}
     /\ rec_hash' = [rec_hash EXCEPT ![Hash[n]] = <<New>> \o @]
     /\ UNCHANGED <<freed, misused>>
  \/ /\ Matches(Chain(n), n) # {} /\ ~overwrite
     /\ Free({New})
     /\ UNCHANGED rec_hash
  \/ /\ Matches(Chain(n), n) # {} /\ overwrite
     /\ Replace(n)

\* import_custom_params and merge_missing_param keep what is there; so does
\* merge_missing_Partner_params, which inserts what IsParameterMissed did not find.
KeepRecord ==
  /\ \E source \in {"custom", "default", "missing"} : Take(source)
  /\ Insert(FALSE, Head(input).entry.name)
  /\ UNCHANGED <<flushing, phase>>

\* import_custom_partners_params.
OverwriteRecord ==
  /\ Take("partner")
  /\ Insert(TRUE, Head(input).entry.name)
  /\ UNCHANGED <<flushing, phase>>

FlushBegins ==
  /\ phase = "fill" /\ input = << >>
  /\ phase' = "flush"
  /\ UNCHANGED <<input, heap, chains, flushing>>

AtRecord == phase = "flush" /\ bucket <= Buckets /\ at <= Len(rec_hash[bucket])

\* flush_records writes the record and frees it; its chain is only taken out of
\* the table when all of it is written.
FlushRecord ==
  /\ AtRecord
  /\ LET record == rec_hash[bucket][at]
     IN  /\ buffer' = Append(buffer, heap[record])
         /\ freed' = freed \cup {record}
         /\ misused' = misused \cup ({record} \cap freed)
  /\ at' = at + 1
  /\ UNCHANGED <<input, heap, rec_hash, bucket, phase>>

\* Mutant: the chain stays in the table.
FlushLeavesChain ==
  /\ phase = "flush" /\ bucket <= Buckets /\ at > Len(rec_hash[bucket])
  /\ bucket' = bucket + 1 /\ at' = 1
  /\ UNCHANGED <<input, heap, chains, buffer, phase>>

FlushChain ==
  /\ phase = "flush" /\ bucket <= Buckets /\ at > Len(rec_hash[bucket])
  /\ rec_hash' = [rec_hash EXCEPT ![bucket] = << >>]
  /\ bucket' = bucket + 1 /\ at' = 1
  /\ UNCHANGED <<input, heap, freed, misused, buffer, phase>>

FlushEnds ==
  /\ phase = "flush" /\ bucket > Buckets
  /\ phase' = "done"
  /\ UNCHANGED <<input, heap, chains, flushing>>

\* The buffer cannot grow: it is given up, and with it what was flushed.
FlushFails ==
  /\ FlushMayFail /\ AtRecord
  /\ phase' = "free" /\ buffer' = << >>
  /\ UNCHANGED <<input, heap, chains, bucket, at>>

\* free_records, after a flush that failed: it follows each chain from its head.
FreeRecords ==
  /\ phase = "free"
  /\ Free(UNION {{rec_hash[b][i] : i \in DOMAIN rec_hash[b]} : b \in 1 .. Buckets})
  /\ rec_hash' = [b \in 1 .. Buckets |-> << >>]
  /\ phase' = "failed"
  /\ UNCHANGED <<input, heap, flushing>>

HashNext ==
  \/ SkipLine \/ LoadRecord \/ KeepRecord \/ OverwriteRecord
  \/ FlushBegins \/ FlushRecord \/ FlushChain \/ FlushEnds
  \/ FlushFails \/ FreeRecords

-----------------------------------------------------------------------------
(* The table as a map, with the part of it that is already in the buffer.  *)

TableEntry(n) ==
  LET flushed == {i \in DOMAIN buffer : buffer[i].name = n}
  IN  IF flushed # {} THEN buffer[CHOOSE i \in flushed : \A j \in flushed : i <= j]
      ELSE IF phase \in {"free", "failed"} THEN NoEntry
      ELSE IF Matches(Chain(n), n) # {} THEN heap[Chain(n)[FirstMatch(Chain(n), n)]]
      ELSE NoEntry

MapItems == [i \in DOMAIN input |-> [entry |-> input[i].entry,
                                     overwrite |-> input[i].source = "partner"]]
=============================================================================
