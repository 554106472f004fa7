---------------------------- MODULE MCRecordPath ----------------------------
EXTENDS PsmRecordPath

MCNames == {"n1", "n2", "n3"}
MCHash == [n \in MCNames |-> IF n = "n3" THEN 2 ELSE 1]
MCRoot == "Provision"
MCLongData == {<<99>>}

Rec(name, type, ctype, data) ==
  [name |-> name, type |-> type, ctype |-> ctype, data |-> data]

Address == <<192, 168, 0, 1>>
Words(n) == [i \in 1 .. n |-> i]
ThreeDigits == [i \in 1 .. 16 |-> 100 + i]

\* MAC addresses of 62 and 65 characters; sixteen words of 63, 64 and 79, and words
\* up to INT_MAX and above it; address lists of 110 and 111.
MacAddresses == {[i \in 1 .. n |-> 9 * i] : n \in {1, 6, 21, 22}}
WordLists == {Words(n) : n \in {1, 16, 17}}
               \cup {ThreeDigits, [ThreeDigits EXCEPT ![16] = 1000],
                     [i \in 1 .. 16 |-> 1000 + i], <<5, IntMax>>, <<IntMax + 1, 5>>}
Addresses(n) == [i \in 1 .. 4 * n |-> 100 + i]
AddressLists == {<<10, 0>>, Address, Address \o <<0, 0, 0, 0>>, Addresses(7),
                 [Addresses(7) EXCEPT ![1] = 99]}

\* Every branch of the codecs, with the values at their edges.
Catalog ==
  {Rec("n1", t, 0, <<7>>) : t \in {"sint", "uint", "hcxt", "enum", "bool", "astr"}}
    \cup {Rec("n1", "astr", c, d) : c \in {1, 2, 3, 4, 9, 15}, d \in {<< >>, <<5>>, <<99>>}}
    \cup {Rec("n1", t, 2, Address) : t \in {"uint", "bstr"}}
    \cup {Rec("n1", "bstr", 3, d) : d \in MacAddresses \cup {<< >>}}
    \cup {Rec("n1", "bstr", 9, <<2012, 4, 25, 23, 59, 59, d, m>>) : d \in {0, 1}, m \in {0, 999}}
    \cup {Rec("n1", "bstr", c, d) : c \in {14, 15}, d \in WordLists \cup {<< >>}}
    \cup {Rec("n1", "bstr", 4, d) : d \in AddressLists \cup {<< >>}}
    \cup {Rec("n1", "bstr", c, d) : c \in {0, 5}, d \in {<< >>, <<1, 2, 3>>}}

Second == Rec("n2", "astr", 1, <<6>>)
Third  == Rec("n3", "bool", 0, <<1>>)
Repo(recs, flds, foreign) == [records |-> recs, folders |-> flds, foreign |-> foreign]
Folder(name, ctype, perm, recs) ==
  [name |-> name, ctype |-> ctype, perm |-> perm, records |-> recs]

\* What a file edited by hand may have: an element of another kind, a second
\* record of a name, of a type that does not exist.
Plain == Element("n3", "astr", NoAttr, NoAttr, NoText)
Foreign == {<< >>, <<[Plain EXCEPT !.tag = "Note"]>>, <<[Plain EXCEPT !.name = "n1", !.type = "string"]>>}

\* Records of every kind, before and after others, in folders on the base path.
MCRepositories ==
  {Repo(rs, << >>, f) : rs \in UNION {{<<r>>, <<Second, r>>} : r \in Catalog},
                        f \in Foreign}
    \cup {Repo(<<r, Second, Third>>, << >>, << >>) : r \in Catalog}
    \cup {Repo(<<Second>>,
               <<Folder("Sub", c, p, <<r>>), Folder("Other", NoAttr, NoAttr, << >>)>>, << >>) :
            r \in Catalog, c \in {NoAttr, "table2D"}, p \in {NoAttr, 1}}

Param(name, value) == [name |-> name, value |-> value]

\* The default file has records of legacy types, a name twice, and one without
\* a type.
MCSources ==
  {[custom |-> c, partner |-> p, missing |-> m,
    default |-> <<Element("n3", "astr", "ip4Addr", 1, PlainText(<<2>>)),
                  Element("n3", "astr", NoAttr, NoAttr, PlainText(<<3>>)),
                  Element("n2", NoAttr, NoAttr, NoAttr, PlainText(<<4>>)),
                  Element("n2", "astr", "uint", NoAttr, PlainText(<<4>>))>>] :
     c \in {<< >>, <<Param("n2", <<8>>)>>},
     p \in {<< >>, <<Param("n2", <<9>>)>>, <<Param("n3", <<9>>), Param("n3", << >>)>>},
     m \in {<< >>, <<Param("n1", <<11>>)>>}}
=============================================================================
