----------------------------- MODULE PsmFloParse -----------------------------
(***************************************************************************)
(* How a record of the repository becomes a <Record> element and comes     *)
(* back (psm_flo_parse.c): the names of types and content types, and the   *)
(* text of the values of each.                                             *)
(*                                                                         *)
(* The value of a record is a sequence of numbers: the characters of a     *)
(* string, the bytes of an address or of a blob, the words of a list, the  *)
(* fields of a time, one word for the other types.  A text is a sequence   *)
(* of items (a comma is what separates them), each a sequence of numbers,  *)
(* together with the character between those numbers; the empty text has   *)
(* no items.  A ULONG is 4 bytes, as the sizes written in the code assume. *)
(***************************************************************************)
EXTENDS Naturals, Sequences, FiniteSets, Functions

CONSTANTS
  NoName, NoAttr,   \* a missing name, or another missing attribute of an element
  ValueSize,        \* the size of pValue, SYS_MAX_RECORD_NAME_SIZE + 1
  IntMax            \* INT_MAX; a smaller one may stand for it

ASSUME SizesAssumption == ValueSize \in Nat /\ IntMax \in Nat

Byte  == 0 .. 255
Short == 0 .. 65535           \* USHORT
Word  == 0 .. 2 * IntMax + 1  \* ULONG

\* The enumerations SYS_REP_RECORD_TYPE_* (from 1) and SYS_RECORD_CONTENT_*:
\* the names are those they are saved under.
ppRecordType == <<"sint", "uint", "bool", "astr", "bstr", "hcxt", "enum">>

ppRecordContentType ==
  <<"int", "uint", "bool", "datetime", "base64", "long", "ulong", "float", "double",
    "byte", "none", "unknown1", "unknown2", "unknown3", "unknown4", "unknown5">>

ppRecordContentType_old ==
  <<"mapped", "ip4Addr", "macAddr", "ip4AddrList", "port", "seconds", "minutes", "hours",
    "calendar", "password", "masked", "button", "switch", "sintList", "uintList">>

uTotalRecordContentType == 15

ASSUME NoAttrAssumption ==
  /\ \A i \in DOMAIN ppRecordType : NoAttr # ppRecordType[i]
  /\ \A i \in DOMAIN ppRecordContentType : NoAttr # ppRecordContentType[i]

Content == [default |-> 0, ip4Addr |-> 2, macAddr |-> 3, ip4AddrList |-> 4,
            calendar |-> 9, sintList |-> 14, uintList |-> 15]
IntList == {Content.sintList, Content.uintList}

IndexOf(names, n, name) == IF \E i \in 1 .. n : names[i] = name
                           THEN CHOOSE i \in 1 .. n : names[i] = name
                           ELSE 0

getRecordTypeFromString(name) == IndexOf(ppRecordType, Len(ppRecordType), name)

\* A legacy name is the content type at its own place, so a record that is read
\* under one is saved under the new name of that place.
getRecordContentTypeFromString(name) ==
  LET new == IndexOf(ppRecordContentType, uTotalRecordContentType, name)
  IN  IF new # 0 THEN new
      ELSE IndexOf(ppRecordContentType_old, uTotalRecordContentType, name)

-----------------------------------------------------------------------------
(* Texts.                                                                  *)

Text(sep, items) == [sep |-> sep, items |-> items]
NoText == Text("", << >>)
PlainText(data) == IF data = << >> THEN NoText ELSE Text("", <<data>>)

\* The number at the head of an item; the functions that read one stop at the
\* first character that is not a digit.
Atoi(item) == item[1]

\* The characters of a number: two hexadecimal digits, a field of a time with
\* leading zeros, the decimal digits, or one character.
Digits(n) == 1 + Cardinality({k \in 1 .. 9 : 10 ^ k <= n})
Padded(n, width) == IF Digits(n) < width THEN width ELSE Digits(n)
Width(sep, k, n) ==
  CASE sep = ":"           -> 2
    [] sep = "/"           -> Padded(n, IF k = 1 THEN 4 ELSE 2)
    [] sep \in {",", "."} -> Digits(n)
    [] OTHER               -> 1

\* The length of a text: its numbers, and what separates them and the items.
ItemLength(sep, item) ==
  SumFunction([k \in DOMAIN item |->
                 Width(sep, k, item[k]) + (IF sep # "" /\ k < Len(item) THEN 1 ELSE 0)])
TextLength(text) ==
  SumFunction([i \in DOMAIN text.items |->
                 ItemLength(text.sep, text.items[i]) + (IF i < Len(text.items) THEN 1 ELSE 0)])

\* Most values are read into pValue: an empty text, or one that does not fit
\* with its end, is not.
Unread(text) == text = NoText \/ TextLength(text) >= ValueSize

\* The items that are not blank.
Items(text) ==
  LET kept[n \in 0 .. Len(text.items)] ==
        IF n = 0 THEN << >>
        ELSE IF text.items[n] = << >> THEN kept[n - 1]
        ELSE Append(kept[n - 1], text.items[n])
  IN  kept[Len(text.items)]

writeIP4Address(data) == Text(".", <<SubSeq(data, 1, 4)>>)

\* The numbers between dots: of any other text, only its first number is seen.
Dotted(text, item) == IF text.sep = "." THEN item ELSE <<Atoi(item)>>

\* Exactly four fields, none above 255.
decodeIpAddr(fields) == Len(fields) = 4 /\ \A i \in DOMAIN fields : fields[i] \in Byte

\* Mutant: the seconds are not written.
CalendarWithoutSeconds(data) == Text("/", <<SubSeq(data, 1, 5) \o <<0>>>>)

\* Year to second; bDayLightSaving and MilliSecond (the last two fields) are
\* not written, and read as 0.
writeCalendar(data) == Text("/", <<SubSeq(data, 1, 6)>>)

decodeCalendar(text) == SubSeq(text.items[1], 1, 6) \o <<0, 0>>

writeMacAddress(data) == IF data = << >> THEN NoText ELSE Text(":", <<data>>)

decodeMacAddress(text) == text.sep = ":" /\ Len(text.items) = 1

\* Of more than 64 bytes nothing is written: the status says so, but the caller
\* of addRecordToXMLHandle2 does not look, and keeps the element without text.
writeIntList(data) ==
  IF data = << >> \/ 4 * Len(data) > 64 THEN NoText
  ELSE Text(",", [i \in DOMAIN data |-> <<data[i]>>])

\* _ansc_atoi returns an int.  Above INT_MAX it saturates or wraps, as the C library
\* has it; a wrapped int is the word again when it is stored as a ULONG.
decodeIntList(text, saturates) ==
  LET items == Items(text)
  IN  [i \in DOMAIN items |-> LET word == Atoi(items[i])
                             IN  IF saturates /\ word > IntMax THEN IntMax ELSE word]

\* The addresses of a list, four bytes each; of anything else nothing is written.
writeIP4AddrList(data) ==
  IF data = << >> \/ Len(data) % 4 # 0 THEN NoText
  ELSE Text(".", [i \in 1 .. Len(data) \div 4 |-> SubSeq(data, 4 * i - 3, 4 * i)])

\* One bad address empties the list.
decodeIP4AddrList(text) ==
  LET items == Items(text)
      bytes[n \in 0 .. Len(items)] ==
        IF n = 0 THEN << >> ELSE bytes[n - 1] \o Dotted(text, items[n])
  IN  IF \A i \in DOMAIN items : decodeIpAddr(Dotted(text, items[i]))
      THEN bytes[Len(items)] ELSE << >>

-----------------------------------------------------------------------------
(* Records and elements.                                                   *)

\* What a record of a type holds: the bytes of an address, the fields of a time,
\* any string, list of words or bytes, and otherwise a word.
DataOf(type, ctype) ==
  CASE type = "astr" -> Seq(Nat)
    [] type \in {"sint", "uint", "hcxt", "bstr"} /\ ctype = Content.ip4Addr -> [1 .. 4 -> Byte]
    [] type = "bstr" /\ ctype = Content.calendar -> [1 .. 8 -> Short]
    [] type = "bstr" /\ ctype \in IntList -> Seq(Word)
    [] type = "bstr" /\ ctype \notin {Content.ip4Addr, Content.calendar} \cup IntList -> Seq(Byte)
    [] OTHER -> [1 .. 1 -> Word]

\* The value of an element, from the record: a bool is written as true or false, an
\* enum without value.
ValueText(type, ctype, data) ==
  CASE type \in {"sint", "uint", "hcxt"} ->
         IF ctype = Content.ip4Addr THEN writeIP4Address(data) ELSE PlainText(data)
    [] type = "bool" -> PlainText(<<IF data[1] = 0 THEN 0 ELSE 1>>)
    [] type = "astr" -> PlainText(data)
    [] type = "bstr" ->
         CASE ctype = Content.ip4Addr     -> writeIP4Address(data)
           [] ctype = Content.macAddr     -> writeMacAddress(data)
           [] ctype = Content.calendar    -> writeCalendar(data)
           [] ctype \in IntList           -> writeIntList(data)
           [] ctype = Content.ip4AddrList -> writeIP4AddrList(data)
           [] OTHER                       -> PlainText(data)
    [] OTHER                       -> NoText

\* writeMacAddress and writeIntList print into 64 characters on the stack and do not
\* look at the length.
Overruns(record) ==
  /\ record.type = "bstr" /\ record.ctype \in IntList \cup {Content.macAddr}
  /\ TextLength(ValueText(record.type, record.ctype, record.data)) >= 64

Element(name, type, ctype, perm, text) ==
  [tag |-> "Record", name |-> name, type |-> type, ctype |-> ctype, perm |-> perm, text |-> text]

\* The permission is not written.
addRecordToXMLHandle2(record) ==
  Element(record.name, record.type,
          IF record.ctype = Content.default THEN NoAttr ELSE ppRecordContentType[record.ctype],
          NoAttr, ValueText(record.type, record.ctype, record.data))

Added(data) == [status |-> "added", data |-> data]
Skipped == [status |-> "skipped", data |-> << >>]
Failure == [status |-> "failure", data |-> << >>]

\* What an external reader makes of an element without text is not fixed here:
\* it may fail, or hand out a value.
LoadWord(text) == IF text = NoText THEN {Failure, Added(<<0>>)}
                  ELSE {Added(<<Atoi(text.items[1])>>)}

\* An address, for the types it can be the content of.  Of a text that is not read
\* these functions return what the read returned.
LoadAddress(text) ==
  IF Unread(text) THEN {Skipped, Failure}
  ELSE LET fields == Dotted(text, text.items[1])
       IN {IF Len(text.items) = 1 /\ decodeIpAddr(fields) THEN Added(fields) ELSE Failure}

LoadCalendar(text) ==
  IF Unread(text) THEN {Skipped, Failure} ELSE {Added(decodeCalendar(text))}

\* Mutant: the status of the read is looked at, as the disabled code would.
LoadIntListChecked(text) ==
  IF Unread(text) THEN {Skipped, Failure}
  ELSE {Added(decodeIntList(text, saturates)) : saturates \in BOOLEAN}

\* The status of the read is not looked at: of a text that is not read the list is
\* empty, or what the buffer still holds is, the name of the content type.
LoadIntList(text) ==
  IF Unread(text) THEN {Added(<< >>), Added(<<0>>)}
  ELSE {Added(decodeIntList(text, saturates)) : saturates \in BOOLEAN}

LoadAddressList(text) ==
  IF Unread(text) THEN {Skipped, Failure} ELSE {Added(decodeIP4AddrList(text))}

LoadMac(text) ==
  IF Unread(text) THEN {Skipped, Failure}
  ELSE {IF decodeMacAddress(text) THEN Added(text.items[1]) ELSE Failure}

\* A string or a blob: an empty one is a record without data.
LoadData(text) == {Added(IF text = NoText THEN << >> ELSE text.items[1])}

TypeRead(element)  == IF element.type = NoAttr THEN "sint" ELSE element.type
CtypeRead(element) == IF element.ctype = NoAttr THEN Content.default
                      ELSE getRecordContentTypeFromString(element.ctype)

\* What loading an element can do: add a record, nothing, or fail.
loadRecordFromXML(element) ==
  LET type  == TypeRead(element)
      ctype == CtypeRead(element)
      text  == element.text
  IN  IF element.name = NoName \/ getRecordTypeFromString(type) = 0 THEN {Failure}
      ELSE CASE type \in {"sint", "uint", "hcxt", "enum"} ->
                  IF ctype = Content.ip4Addr THEN LoadAddress(text) ELSE LoadWord(text)
             [] type = "bool" -> LoadWord(text)
             [] type = "astr" -> LoadData(text)
             [] type = "bstr" ->
                  CASE ctype = Content.ip4Addr     -> LoadAddress(text)
                    [] ctype = Content.calendar    -> LoadCalendar(text)
                    [] ctype \in IntList           -> LoadIntList(text)
                    [] ctype = Content.ip4AddrList -> LoadAddressList(text)
                    [] ctype = Content.macAddr     -> LoadMac(text)
                    [] OTHER                       -> LoadData(text)
=============================================================================
