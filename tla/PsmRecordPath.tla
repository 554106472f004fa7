---------------------------- MODULE PsmRecordPath ----------------------------
(***************************************************************************)
(* The way of a record from the repository to the files and back: saved as *)
(* an element (PsmFloParse), read as a line and merged with the records of *)
(* the other sources (PsmRecordHash), written to the buffer, and loaded    *)
(* from there.  With the base implementation of the files the element goes *)
(* straight from one to the other; only there do the folders of the        *)
(* repository survive, since the platform's table takes Record lines only. *)
(*                                                                         *)
(* The records live in the provision folder or in folders under it.        *)
(***************************************************************************)
EXTENDS PsmFloParse, PsmRecordHash, Functions

CONSTANTS
  Root,          \* the provision folder
  Repositories,  \* what the repository can hold when it is saved
  Sources,       \* the platform's, default file's and partner's records
  LongData,      \* the strings that do not fit the line buffer, or break the line
  Paths          \* "platform", "base" or both

\* Records, folders and elements; a type is a name for getRecordTypeFromString,
\* which an element may have wrong or lack, as it may lack the others.
Data == Seq(Nat)
RecordType ==
  {r \in [name : Names, type : {ppRecordType[i] : i \in DOMAIN ppRecordType},
          ctype : 0 .. uTotalRecordContentType, data : Data] : r.data \in DataOf(r.type, r.ctype)}
FolderType == [name : STRING, ctype : STRING \cup {NoAttr}, perm : Nat \cup {NoAttr},
               records : Seq(RecordType)]
ElementType == [tag : STRING, name : Names \cup {NoName}, type : STRING \cup {NoAttr},
                ctype : STRING \cup {NoAttr}, perm : Nat \cup {NoAttr},
                text : [sep : STRING, items : Seq(Data)]]
ParamType == [name : Names, value : Data]

ASSUME NoNameAssumption == NoName \notin Names

ASSUME RepositoriesAssumption ==
  Repositories \subseteq [records : Seq(RecordType), folders : Seq(FolderType),
                          foreign : Seq(ElementType)]

\* A repository has each name once in a folder, and each folder once.
NamedOnce(own) == \A i, j \in DOMAIN own : own[i].name = own[j].name => i = j

ASSUME RepositoryAssumption ==
  \A repo \in Repositories :
    /\ NamedOnce(repo.records) /\ NamedOnce(repo.folders)
    /\ \A n \in DOMAIN repo.folders :
         repo.folders[n].name # Root /\ NamedOnce(repo.folders[n].records)
    /\ \A i \in DOMAIN repo.foreign : repo.foreign[i].tag \notin {"Folder", "/Folder"}

ASSUME SourcesAssumption ==
  Sources \subseteq [custom : Seq(ParamType), default : Seq(ElementType),
                     partner : Seq(ParamType), missing : Seq(ParamType)]

VARIABLES
  path,
  saved,     \* the repository when it was saved: its records, its folders with theirs,
             \* so far as addRecordToXMLHandle2 could read them and had memory for them
  sources,
  doc,       \* the elements PsmSysFolderFromXMLHandle has still to load
  folder,    \* the folder it loads into
  records,   \* the repository it loads, each record with its folder
  folders,
  pc         \* "merge", "load", "loaded", "aborted", "out of memory" or "overrun"

pathVars == <<path, saved, sources, doc, folder, records, folders, pc>>
vars == <<hashVars, pathVars>>

-----------------------------------------------------------------------------
(* Saving: PsmSysFolderToXMLHandle.                                        *)

FolderElement(f) == [tag |-> "Folder", name |-> f.name, ctype |-> f.ctype, perm |-> f.perm]
FolderEnd == [tag |-> "/Folder"]

Elements(own) == [i \in DOMAIN own |-> addRecordToXMLHandle2(own[i])]

\* The records of a folder, then its subfolders, each with its permission and
\* content type; the folder type is not written.
PsmSysFolderToXMLHandle(repo) ==
  LET upTo[n \in 0 .. Len(repo.folders)] ==
        IF n = 0 THEN Elements(repo.records)
        ELSE LET f == repo.folders[n]
             IN  upTo[n - 1] \o <<FolderElement(f)>> \o Elements(f.records) \o <<FolderEnd>>
  IN  upTo[Len(repo.folders)]

\* What is read back: also elements that were put into the file by hand.
FileOf(repo) == PsmSysFolderToXMLHandle(repo) \o repo.foreign

ASSUME NoEntryAssumption ==
  \A repo \in Repositories : \A i \in DOMAIN FileOf(repo) : FileOf(repo)[i] # NoEntry

-----------------------------------------------------------------------------
(* Lines.                                                                  *)

IsLong(text) == text.items # << >> /\ text.items[1] \in LongData

\* Mutant: an element of any kind is taken.
EntryOfAnyKind(element) ==
  IF element.tag = "/Folder" THEN NoEntry
  ELSE IF element.name = NoName \/ element.type = NoAttr \/ IsLong(element.text) THEN NoEntry
  ELSE [element EXCEPT !.perm = NoAttr]

\* record_parse: a line is taken when it has a record, to its end, with name
\* and type; the permission is not among what is taken.
Entry(element) ==
  IF element.tag # "Record" THEN NoEntry
  ELSE IF element.name = NoName \/ element.type = NoAttr \/ IsLong(element.text) THEN NoEntry
  ELSE [element EXCEPT !.perm = NoAttr]

\* The records of the default file, which comes with the program, can be read.
ASSUME DefaultAssumption ==
  \A s \in Sources : \A i \in DOMAIN s.default :
    Entry(s.default[i]) # NoEntry => Failure \notin loadRecordFromXML(s.default[i])

ASSUME PathsAssumption == Paths \subseteq {"platform", "base"}

Lines(elements, source) ==
  [i \in DOMAIN elements |-> [entry |-> Entry(elements[i]), source |-> source]]

\* Parameters of the platform and the partner: strings without content type.
Params(params, source) ==
  [i \in DOMAIN params |->
     [entry  |-> Element(params[i].name, "astr", NoAttr, NoAttr, PlainText(params[i].value)),
      source |-> source]]

\* Mutant: the default file is merged before the platform's parameters.
ReadOrderDefaultFirst(file, s) ==
  Lines(file, "file") \o Lines(s.default, "default") \o Params(s.custom, "custom")
    \o Params(s.partner, "partner") \o Params(s.missing, "missing")

\* ssp_CfmReadCurConfig.
ReadOrder(file, s) ==
  Lines(file, "file") \o Params(s.custom, "custom") \o Lines(s.default, "default")
    \o Params(s.partner, "partner") \o Params(s.missing, "missing")

-----------------------------------------------------------------------------
(* The steps.                                                              *)

\* The records of a repository, each with its folder.
In(f, own) == {[name |-> r.name, folder |-> f, type |-> r.type, ctype |-> r.ctype,
                data |-> r.data] : r \in Range(own)}
RecordsOf(repo) ==
  In(Root, repo.records) \cup UNION {In(f.name, f.records) : f \in Range(repo.folders)}

\* The repository has been saved; the base implementation hands out the file,
\* the platform's its lines with those of the other sources.  A save that overruns
\* the stack dies, before it writes a file, or gets on with the whole text.
Init ==
  /\ path \in Paths /\ saved \in Repositories /\ sources \in Sources
  /\ path = "platform" => saved.folders = << >>
  /\ HashInit(IF path = "platform" THEN ReadOrder(FileOf(saved), sources) ELSE << >>)
  /\ doc = IF path = "base" THEN FileOf(saved) ELSE << >>
  /\ \/ pc = IF path = "base" THEN "load" ELSE "merge"
     \/ pc = "overrun" /\ \E r \in RecordsOf(saved) : Overruns(r)
  /\ folder = Root /\ records = {} /\ folders = << >>

Step(from, to) == pc = from /\ pc' = to

Merge ==
  /\ pc = "merge" /\ HashNext
  /\ UNCHANGED pathVars

MergeEnds ==
  /\ phase = "done" /\ Step("merge", "load")
  /\ doc' = buffer
  /\ UNCHANGED <<hashVars, path, saved, sources, folder, records, folders>>

MergeFails ==
  /\ phase = "failed" /\ Step("merge", "out of memory")
  /\ UNCHANGED <<hashVars, path, saved, sources, doc, folder, records, folders>>

\* AddRecord2 sets the record that is there under the name.
AddRecord2(r) ==
  {s \in records : s.name # r.name \/ s.folder # r.folder} \cup {r}

Loads == pc = "load" /\ doc # << >>

LoadRecordElement ==
  /\ Loads /\ Head(doc).tag = "Record"
  /\ \E outcome \in loadRecordFromXML(Head(doc)) :
       IF outcome.status = "failure"
       THEN pc' = "aborted" /\ UNCHANGED <<doc, records>>
       ELSE /\ doc' = Tail(doc)
            /\ records' = IF outcome.status = "skipped" THEN records
                          ELSE AddRecord2([name |-> Head(doc).name, folder |-> folder,
                                           type |-> TypeRead(Head(doc)),
                                           ctype |-> CtypeRead(Head(doc)),
                                           data |-> outcome.data])
            /\ UNCHANGED pc
  /\ UNCHANGED <<hashVars, path, saved, sources, folder, folders>>

\* Mutant: the content type of a folder is not set.
LoadFolderElementPlain ==
  /\ Loads /\ Head(doc).tag = "Folder"
  /\ folder' = Head(doc).name
  /\ folders' = Append(folders, [name |-> Head(doc).name, ctype |-> NoAttr,
                                 perm |-> Head(doc).perm])
  /\ doc' = Tail(doc)
  /\ UNCHANGED <<hashVars, path, saved, sources, records, pc>>

\* loadFolderFromXML, to the recursive call.
LoadFolderElement ==
  /\ Loads /\ Head(doc).tag = "Folder"
  /\ folder' = Head(doc).name
  /\ folders' = Append(folders, [name |-> Head(doc).name, ctype |-> Head(doc).ctype,
                                 perm |-> Head(doc).perm])
  /\ doc' = Tail(doc)
  /\ UNCHANGED <<hashVars, path, saved, sources, records, pc>>

LoadFolderEnds ==
  /\ Loads /\ Head(doc).tag = "/Folder"
  /\ folder' = Root
  /\ doc' = Tail(doc)
  /\ UNCHANGED <<hashVars, path, saved, sources, records, folders, pc>>

\* An element of another kind is "ignored" by going on with the same element.
LoadOtherElement ==
  /\ Loads /\ Head(doc).tag \notin {"Record", "Folder", "/Folder"}
  /\ UNCHANGED vars

LoadEndsAt ==
  /\ doc = << >> /\ Step("load", "loaded")
  /\ UNCHANGED <<hashVars, path, saved, sources, doc, folder, records, folders>>

Next ==
  \/ Merge \/ MergeEnds \/ MergeFails
  \/ LoadRecordElement \/ LoadFolderElement \/ LoadFolderEnds \/ LoadOtherElement
  \/ LoadEndsAt

\* One thread does all of it, without waiting for anybody.
Spec == Init /\ [][Next]_vars /\ WF_vars(Next)

-----------------------------------------------------------------------------
(* Properties.                                                             *)

\* Types of the variables.
TypeOK ==
  /\ pc \in {"merge", "load", "loaded", "aborted", "out of memory", "overrun"}
  /\ phase \in {"fill", "flush", "free", "done", "failed"}
  /\ \A b \in 1 .. Buckets : \A i \in DOMAIN rec_hash[b] :
       rec_hash[b][i] \in DOMAIN heap /\ Hash[heap[rec_hash[b][i]].name] = b
  /\ freed \subseteq DOMAIN heap /\ misused \subseteq freed
  /\ bucket \in 1 .. Buckets + 1 /\ at \in Nat \ {0}
  /\ folder = Root \/ \E i \in DOMAIN folders : folders[i].name = folder

\* The values whose loading may fail: those whose text cannot be read, as none is
\* written (an empty MAC address, an address list that is empty or not of four bytes
\* each) or as it is longer than the loader takes (an address list, mostly).
Fails(r) ==
  \/ r.type = "enum"
  \/ /\ \/ r.type \in {"sint", "uint", "hcxt", "bstr"} /\ r.ctype = Content.ip4Addr
        \/ r.type = "bstr" /\ r.ctype \in {Content.calendar, Content.ip4AddrList, Content.macAddr}
     /\ Unread(ValueText(r.type, r.ctype, r.data))

\* The values whose text is read back as it was.  Not among them: those above; those
\* that overrun the stack, as sixteen words of four digits do, or a MAC address of
\* more than 21 bytes; a list of integers that is empty, has more than 64 bytes or one
\* above INT_MAX; a time with daylight saving or milliseconds; and on the platform's
\* path a text that is too long for a line.
Storable(r) ==
  /\ ~Fails(r) /\ ~Overruns(r)
  /\ path = "platform" => ~IsLong(ValueText(r.type, r.ctype, r.data))
  /\ r.type = "bool" => r.data[1] \in {0, 1}
  /\ r.type = "bstr" =>
       /\ r.ctype \in IntList => /\ ~Unread(ValueText(r.type, r.ctype, r.data))
                                 /\ \A i \in DOMAIN r.data : r.data[i] <= IntMax
       /\ r.ctype = Content.calendar => r.data[7] = 0 /\ r.data[8] = 0

\* A repository of such values is saved and loaded to its end, and every record has the
\* type, the content type and the value it was saved with, unless the partner
\* has one of the name (psm_flo_parse.c with load_records and flush_records).
SavedComesBack ==
  /\ \A r \in RecordsOf(saved) : Storable(r)
  /\ \A e \in Range(saved.foreign) : e.tag # "Record"
  /\ pc \in {"loaded", "aborted", "overrun"}
  => /\ pc = "loaded"
     /\ \A r \in RecordsOf(saved) :
          \/ r \in records
          \/ path = "platform" /\ \E p \in Range(sources.partner) : p.name = r.name

\* The folders come back in their places, with content type and permission
\* (loadFolderFromXML); their records with them, by SavedComesBack.
FoldersComeBack ==
  pc = "loaded" =>
    folders = [i \in DOMAIN saved.folders |->
                 [name |-> saved.folders[i].name, ctype |-> saved.folders[i].ctype,
                  perm |-> saved.folders[i].perm]]

\* One value that is not Storable costs no other record, unless it is one that Fails,
\* or a record was put into the file that cannot be read: their loading may end the
\* load, and what was loaded by then is a part of the repository.  Or it overruns the
\* stack: the save may die.
LossIsContained ==
  /\ pc = "aborted" =>
       \/ \E r \in RecordsOf(saved) : Fails(r)
       \/ \E e \in Range(saved.foreign) : e.tag = "Record" /\ Failure \in loadRecordFromXML(e)
  /\ pc = "overrun" => \E r \in RecordsOf(saved) : Overruns(r)

\* The items of a source that offer a name a value, by their place in the order
\* of reading.
AllItems == ReadOrder(FileOf(saved), sources)
Offers(source, n) ==
  {i \in DOMAIN AllItems : /\ AllItems[i].source = source
                          /\ AllItems[i].entry # NoEntry /\ AllItems[i].entry.name = n}

\* The value a name is to have: the last of the partner's, else the first of the
\* file's, of the platform's, of the default file's, of the bootstrap file's.
Rank == <<"partner", "file", "custom", "default", "missing">>
Decides(i, n) ==
  \E k \in DOMAIN Rank :
    /\ i \in Offers(Rank[k], n)
    /\ \A l \in 1 .. k - 1 : Offers(Rank[l], n) = {}
    /\ \A j \in Offers(Rank[k], n) : IF Rank[k] = "partner" THEN j <= i ELSE i <= j

\* ssp_CfmReadCurConfig hands out exactly one element for each name that any
\* source has, that of the source which goes first.  (The file has a name at
\* most once, unless it was edited by hand; if so, each of its elements is
\* handed out.)
SourcesInOrder ==
  phase = "done" /\ pc = "merge" =>
    \A n \in Names :
      LET found == {i \in DOMAIN buffer : buffer[i].name = n}
      IN  /\ (\E source \in Range(Rank) : Offers(source, n) # {}) <=> found # {}
          /\ (\A i, j \in Offers("file", n) : i = j) =>
               \A i, j \in found : i = j /\ \E k \in DOMAIN AllItems :
                                   Decides(k, n) /\ buffer[i] = AllItems[k].entry

\* The chains implement the map from names to entries: each step puts one entry
\* as RecordMap says, until the memory for the buffer is missing.
Map == INSTANCE RecordMap WITH input <- MapItems, map <- [n \in Names |-> TableEntry(n)]
TableImplementsMap == Map!Spec

\* No record is freed twice or read after it was freed, but when the buffer
\* cannot grow in the middle of a chain: free_records then starts at a head
\* that flush_records has freed.
FreedOnce == misused # {} => phase = "failed" /\ at > 1

\* After a load, also one that failed, the table is empty for the next one.
TableEmptied ==
  phase \in {"done", "failed"} => \A b \in 1 .. Buckets : rec_hash[b] = << >>

\* The load ends, when the file has only records and folders.
LoadEnds ==
  <>(pc \in {"loaded", "aborted", "out of memory", "overrun"})
    \/ (path = "base" /\ \E e \in Range(saved.foreign) : e.tag # "Record")
=============================================================================
