--------------------------- MODULE PsmSspCfmProofs ---------------------------
(***************************************************************************)
(* Proofs about the platform configuration files.  LastRequestWins needs   *)
(* an invariant that follows the value last asked for: from syscfg and its *)
(* trigger, or from a file, through the load's tables into the buffer and  *)
(* into both files (ExpectedInv), and that says that syscfg holds no older *)
(* value (SyscfgInv).                                                      *)
(***************************************************************************)
EXTENDS PsmSspCfm, TLAPS

\* The operators on records return records, and Over prefers its first argument.
LEMMA RecordFacts ==
  /\ NoRecords \in Config
  /\ \A c \in Config, p \in Params : c[p] \in Value
  /\ \A c \in Config, p \in Params, v \in Value : [c EXCEPT ![p] = v] \in Config
  /\ \A c, d \in Config : Over(c, d) \in Config
  /\ \A c, d \in Config : \A p \in Params :
       Over(c, d)[p] = IF c[p] # Absent THEN c[p] ELSE d[p]
  /\ \A c \in Config : Partial(c) \subseteq Config
  /\ \A p \in Params : NoRecords[p] = Absent
<1>1. \A c \in Config : Partial(c) \subseteq Config
  BY DEF Config, Value, Partial
<1> QED
  BY <1>1 DEF Config, Value, NoRecords, Over

\* Type correctness; a save has written the current file when it copies it.
TypeInv == TypeOK /\ (pc \in {"openBak", "writeBak"} => cur # NoFile)

\* A step keeps every table and file a set of records.
LEMMA TypeStep == TypeInv /\ [Next]_vars => TypeInv'
<1> SUFFICES ASSUME TypeInv, [Next]_vars PROVE TypeInv'
  OBVIOUS
<1> USE DataAssumption, RecordFacts
    DEF TypeInv, TypeOK, files, triggers, sys, load, bounds, Step, LoadSteps, SaveSteps
<1>1. CASE RequestPartner
  <2> PICK v \in Config :
           /\ \A p \in Params \ Partnered : v[p] = Absent
           /\ syscfg' = Over(v, syscfg) /\ syscfgDb' = syscfg'
           /\ expected' = Over(v, expected)
    BY <1>1 DEF RequestPartner
  <2>1. syscfg' \in Config /\ syscfgDb' \in Config /\ expected' \in Config
    OBVIOUS
  <2>2. apply' \in BOOLEAN /\ tmpTriggers' \subseteq TmpTriggers
    BY <1>1 DEF RequestPartner
  <2>3. requests' \in 0 .. MaxChanges
    BY <1>1 DEF RequestPartner
  <2> QED
    BY <1>1, <2>1, <2>2, <2>3 DEF RequestPartner
<1>2. CASE Boot
  BY <1>2 DEF Boot
<1>3. CASE Reload
  BY <1>3 DEF Reload
<1>4. CASE ChangeRecord
  <2>1. buf' = repo' /\ changes' = changes + 1 /\ changes < MaxChanges
    BY <1>4 DEF ChangeRecord
  <2>2. pc' = "openCur" /\ UNCHANGED <<files, triggers, sys, load, requests>>
    BY <1>4 DEF ChangeRecord
  <2>3. repo' \in Config /\ expected' \in Config
    <3> PICK p \in UserParams, v \in UserVals :
             /\ repo' = [repo EXCEPT ![p] = v]
             /\ expected' = [expected EXCEPT ![p] = v]
      BY <1>4 DEF ChangeRecord
    <3> QED
      OBVIOUS
  <2> QED
    BY <2>1, <2>2, <2>3
<1>5. CASE LoadRecords
  BY <1>5 DEF LoadRecords, LoadSource
<1>6. CASE ImportCustom
  BY <1>6 DEF ImportCustom
<1>7. CASE MergeDefault
  BY <1>7 DEF MergeDefault
<1>8. CASE TestTriggers
  BY <1>8 DEF TestTriggers
<1>9. CASE TestApplyFile
  BY <1>9 DEF TestApplyFile
<1>10. ASSUME NEW p \in Partnered, TakeParam(p) PROVE TypeInv'
  BY <1>10 DEF TakeParam
<1>11. CASE CommitSyscfg
  BY <1>11 DEF CommitSyscfg
<1>12. CASE ImportPartners
  BY <1>12 DEF ImportPartners
<1>13. CASE MergeMissing
  <2>1. table' \in Config
    BY <1>13 DEF MergeMissing, Seen, Config
  <2> QED
    BY <1>13, <2>1 DEF MergeMissing, Seen
<1>14. CASE FlushRecords
  BY <1>14 DEF FlushRecords
<1>15. CASE OpenCur
  BY <1>15 DEF OpenCur
<1>16. CASE WriteCur
  BY <1>16 DEF WriteCur
<1>17. CASE OpenBak
  BY <1>17 DEF OpenBak
<1>18. CASE WriteBak
  BY <1>18 DEF WriteBak
<1>19. CASE Crash
  <2>1. cur' \in Config \cup {NoFile}
    <3>1. CASE pc = "writeCur"
      BY <1>19, <3>1 DEF Crash
    <3>2. CASE pc # "writeCur"
      BY <1>19, <3>2 DEF Crash
    <3> QED
      BY <3>1, <3>2
  <2>2. bak' \in Config \cup {NoFile}
    <3>1. CASE pc = "writeBak"
      <4>1. cur \in Config
        BY <3>1
      <4> QED
        BY <1>19, <3>1, <4>1 DEF Crash, Stop
    <3>2. CASE pc # "writeBak"
      BY <1>19, <3>2 DEF Crash, Stop
    <3> QED
      BY <3>1, <3>2
  <2> QED
    BY <1>19, <2>1, <2>2 DEF Crash, Stop
<1>20. CASE Reboot
  <2>1. cur' \in Config \cup {NoFile}
    <3>1. CASE pc = "writeCur"
      BY <1>20, <3>1 DEF Reboot
    <3>2. CASE pc # "writeCur"
      BY <1>20, <3>2 DEF Reboot
    <3> QED
      BY <3>1, <3>2
  <2>2. bak' \in Config \cup {NoFile}
    <3>1. CASE pc = "writeBak"
      <4>1. cur \in Config
        BY <3>1
      <4> QED
        BY <1>20, <3>1, <4>1 DEF Reboot, Stop
    <3>2. CASE pc # "writeBak"
      BY <1>20, <3>2 DEF Reboot, Stop
    <3> QED
      BY <3>1, <3>2
  <2> QED
    BY <1>20, <2>1, <2>2 DEF Reboot, Stop
<1>21. CASE FactoryReset
  BY <1>21 DEF FactoryReset
<1>22. CASE UNCHANGED vars
  BY <1>22 DEF vars
<1>23. CASE DropMerge
  BY <1>23 DEF DropMerge, Seen
<1> QED
  BY <1>1, <1>2, <1>3, <1>4, <1>5, <1>6, <1>7, <1>8, <1>9, <1>10, <1>11, <1>12, <1>13,
     <1>14, <1>15, <1>16, <1>17, <1>18, <1>19, <1>20, <1>21, <1>22, <1>23
  DEF Next, Load, Save

\* The steps at which a crash loses no value: all but those between taking a
\* value out of syscfg and having it in the current file.
SafeCrashes == {"load", "custom", "default", "triggers", "openBak", "writeBak", "up"}

\* The inductive invariant.
AllInv == TypeInv /\ SyscfgInv /\ TableInv /\ FilesInv /\ ExpectedInv

\* What LastRequestWinsCorrect assumes of the constants.
Safe ==
  /\ CrashesAt \subseteq SafeCrashes
  /\ RebootsAt \subseteq {"up"}
  /\ UserParams \cap Partnered \subseteq OneShot

\* A save writes the registry's records to the current file, then to the backup.
LEMMA FilesStep == FilesInv /\ [Next]_vars => FilesInv'
<1> SUFFICES ASSUME FilesInv, [Next]_vars PROVE FilesInv'
  OBVIOUS
<1> USE DEF FilesInv, files, load, Step, SaveSteps
<1>1. CASE RequestPartner
  BY <1>1 DEF RequestPartner
<1>2. CASE Boot
  BY <1>2 DEF Boot
<1>3. CASE Reload
  BY <1>3 DEF Reload
<1>4. CASE ChangeRecord
  BY <1>4 DEF ChangeRecord
<1>5. CASE LoadRecords
  BY <1>5 DEF LoadRecords
<1>6. CASE ImportCustom
  BY <1>6 DEF ImportCustom
<1>7. CASE MergeDefault
  BY <1>7 DEF MergeDefault
<1>8. CASE TestTriggers
  BY <1>8 DEF TestTriggers
<1>9. CASE TestApplyFile
  BY <1>9 DEF TestApplyFile
<1>10. ASSUME NEW p \in Partnered, TakeParam(p) PROVE FilesInv'
  BY <1>10 DEF TakeParam
<1>11. CASE CommitSyscfg
  BY <1>11 DEF CommitSyscfg
<1>12. CASE ImportPartners
  BY <1>12 DEF ImportPartners
<1>13. CASE MergeMissing
  BY <1>13 DEF MergeMissing, Seen
<1>14. CASE FlushRecords
  BY <1>14 DEF FlushRecords
<1>15. CASE OpenCur
  BY <1>15 DEF OpenCur
<1>16. CASE WriteCur
  BY <1>16 DEF WriteCur
<1>17. CASE OpenBak
  BY <1>17 DEF OpenBak
<1>18. CASE WriteBak
  BY <1>18 DEF WriteBak
<1>19. CASE Crash
  BY <1>19 DEF Crash, Stop
<1>20. CASE Reboot
  BY <1>20 DEF Reboot, Stop
<1>21. CASE FactoryReset
  BY <1>21 DEF FactoryReset
<1>22. CASE UNCHANGED vars
  BY <1>22 DEF vars
<1>23. CASE DropMerge
  BY <1>23 DEF DropMerge, Seen
<1> QED
  BY <1>1, <1>2, <1>3, <1>4, <1>5, <1>6, <1>7, <1>8, <1>9, <1>10, <1>11, <1>12, <1>13,
     <1>14, <1>15, <1>16, <1>17, <1>18, <1>19, <1>20, <1>21, <1>22, <1>23
  DEF Next, Load, Save

\* The load's table starts as a file and no lower source replaces a record of it;
\* what was taken from syscfg is what was last asked for.
LEMMA TableStep == AllInv /\ [Next]_vars => TableInv'
<1> SUFFICES ASSUME AllInv, [Next]_vars PROVE TableInv'
  OBVIOUS
<1> USE DataAssumption, RecordFacts
    DEF AllInv, TypeInv, TypeOK, TableInv, SyscfgInv, files, load, bounds, Step, Early,
        LoadSource
<1>1. CASE RequestPartner
  BY <1>1 DEF RequestPartner
<1>2. CASE Boot
  BY <1>2 DEF Boot
<1>3. CASE Reload
  BY <1>3 DEF Reload
<1>4. CASE ChangeRecord
  BY <1>4 DEF ChangeRecord
<1>5. CASE LoadRecords
  BY <1>5 DEF LoadRecords
<1>6. CASE ImportCustom
  <2>1. \A p \in Params : table'[p] = IF table[p] # Absent THEN table[p] ELSE Custom[p]
    BY <1>6 DEF ImportCustom, Over
  <2> QED
    BY <1>6, <2>1 DEF ImportCustom
<1>7. CASE MergeDefault
  <2>1. \A p \in Params : table'[p] = IF table[p] # Absent THEN table[p] ELSE Default[p]
    BY <1>7 DEF MergeDefault, Over
  <2> QED
    BY <1>7, <2>1 DEF MergeDefault
<1>8. CASE TestTriggers
  BY <1>8 DEF TestTriggers
<1>9. CASE TestApplyFile
  BY <1>9 DEF TestApplyFile
<1>10. ASSUME NEW p \in Partnered, TakeParam(p) PROVE TableInv'
  <2>1. /\ \A r \in Params : taken'[r] = IF r = p THEN syscfg[r] ELSE taken[r]
        /\ \A r \in Params : syscfg'[r] = IF r = p /\ p \in OneShot THEN Absent ELSE syscfg[r]
    BY <1>10 DEF TakeParam, Config
  <2>2. /\ pc = "take" /\ pc' \in {"take", "commit"} /\ (pc' = "commit" <=> todo' = {})
        /\ p \in todo /\ todo' = todo \ {p}
    BY <1>10 DEF TakeParam
  <2>3. UNCHANGED <<files, triggers, syscfgDb, present, table, buf, repo, bounds, expected>>
    BY <1>10 DEF TakeParam
  <2> QED
    BY <2>1, <2>2, <2>3
<1>11. CASE CommitSyscfg
  BY <1>11 DEF CommitSyscfg
<1>12. CASE ImportPartners
  BY <1>12 DEF ImportPartners
<1>13. CASE MergeMissing
  BY <1>13 DEF MergeMissing, Seen
<1>14. CASE FlushRecords
  BY <1>14 DEF FlushRecords
<1>15. CASE OpenCur
  BY <1>15 DEF OpenCur
<1>16. CASE WriteCur
  BY <1>16 DEF WriteCur
<1>17. CASE OpenBak
  BY <1>17 DEF OpenBak
<1>18. CASE WriteBak
  BY <1>18 DEF WriteBak
<1>19. CASE Crash
  BY <1>19 DEF Crash, Stop
<1>20. CASE Reboot
  BY <1>20 DEF Reboot, Stop
<1>21. CASE FactoryReset
  BY <1>21 DEF FactoryReset
<1>22. CASE UNCHANGED vars
  BY <1>22 DEF vars
<1>23. CASE DropMerge
  BY <1>23 DEF DropMerge, Seen
<1> QED
  BY <1>1, <1>2, <1>3, <1>4, <1>5, <1>6, <1>7, <1>8, <1>9, <1>10, <1>11, <1>12, <1>13,
     <1>14, <1>15, <1>16, <1>17, <1>18, <1>19, <1>20, <1>21, <1>22, <1>23
  DEF Next, Load, Save

\* Nothing but a partner request sets a value in syscfg, and one that was taken is
\* unset; a trigger goes only when its values are about to be taken.
LEMMA SyscfgStep == Safe /\ AllInv /\ [Next]_vars => SyscfgInv'
<1> SUFFICES ASSUME Safe, AllInv, [Next]_vars PROVE SyscfgInv'
  OBVIOUS
<1> USE DataAssumption, RecordFacts
    DEF AllInv, TypeInv, TypeOK, SyscfgInv, Safe, SafeCrashes, files, triggers, sys, load,
        Step, Early, Armed, LoadSteps, SaveSteps
<1>1. CASE RequestPartner
  <2> PICK v \in Config :
           /\ \A p \in Params \ Partnered : v[p] = Absent
           /\ syscfg' = Over(v, syscfg) /\ syscfgDb' = syscfg'
           /\ expected' = Over(v, expected)
    BY <1>1 DEF RequestPartner
  <2>1. \A r \in Params :
          /\ syscfg'[r] = IF v[r] # Absent THEN v[r] ELSE syscfg[r]
          /\ expected'[r] = IF v[r] # Absent THEN v[r] ELSE expected[r]
    BY DEF Over
  <2>2. UNCHANGED <<files, load, buf, repo, pc>> /\ pc = "down"
    BY <1>1 DEF RequestPartner
  <2>3. Armed'
    BY <1>1 DEF RequestPartner
  <2> QED
    BY <2>1, <2>2, <2>3
<1>2. CASE Boot
  BY <1>2 DEF Boot
<1>3. CASE Reload
  BY <1>3 DEF Reload
<1>4. CASE ChangeRecord
  <2>1. \A r \in Partnered : expected'[r] = expected[r] \/ r \in OneShot
    BY <1>4 DEF ChangeRecord, Config
  <2>2. pc = "up" /\ pc' = "openCur"
    BY <1>4 DEF ChangeRecord
  <2>3. UNCHANGED <<triggers, sys, load>>
    BY <1>4 DEF ChangeRecord
  <2> QED
    BY <2>1, <2>2, <2>3
<1>5. CASE LoadRecords
  BY <1>5 DEF LoadRecords
<1>6. CASE ImportCustom
  BY <1>6 DEF ImportCustom
<1>7. CASE MergeDefault
  BY <1>7 DEF MergeDefault
<1>8. CASE TestTriggers
  BY <1>8 DEF TestTriggers
<1>9. CASE TestApplyFile
  BY <1>9 DEF TestApplyFile
<1>10. ASSUME NEW p \in Partnered, TakeParam(p) PROVE SyscfgInv'
  <2>1. /\ \A r \in Params : taken'[r] = IF r = p THEN syscfg[r] ELSE taken[r]
        /\ \A r \in Params : syscfg'[r] = IF r = p /\ p \in OneShot THEN Absent ELSE syscfg[r]
    BY <1>10 DEF TakeParam, Config
  <2>2. /\ pc = "take" /\ pc' \in {"take", "commit"} /\ (pc' = "commit" <=> todo' = {})
        /\ p \in todo /\ todo' = todo \ {p}
    BY <1>10 DEF TakeParam
  <2>3. UNCHANGED <<files, triggers, syscfgDb, present, table, buf, repo, bounds, expected>>
    BY <1>10 DEF TakeParam
  <2> QED
    BY <2>1, <2>2, <2>3
<1>11. CASE CommitSyscfg
  BY <1>11 DEF CommitSyscfg
<1>12. CASE ImportPartners
  BY <1>12 DEF ImportPartners
<1>13. CASE MergeMissing
  BY <1>13 DEF MergeMissing, Seen
<1>14. CASE FlushRecords
  BY <1>14 DEF FlushRecords
<1>15. CASE OpenCur
  BY <1>15 DEF OpenCur
<1>16. CASE WriteCur
  BY <1>16 DEF WriteCur
<1>17. CASE OpenBak
  BY <1>17 DEF OpenBak
<1>18. CASE WriteBak
  BY <1>18 DEF WriteBak
<1>19. CASE Crash
  BY <1>19 DEF Crash, Stop
<1>20. CASE Reboot
  BY <1>20 DEF Reboot, Stop
<1>21. CASE FactoryReset
  BY <1>21 DEF FactoryReset
<1>22. CASE UNCHANGED vars
  BY <1>22 DEF vars
<1>23. CASE DropMerge
  BY <1>23 DEF DropMerge, Seen
<1> QED
  BY <1>1, <1>2, <1>3, <1>4, <1>5, <1>6, <1>7, <1>8, <1>9, <1>10, <1>11, <1>12, <1>13,
     <1>14, <1>15, <1>16, <1>17, <1>18, <1>19, <1>20, <1>21, <1>22, <1>23
  DEF Next, Load, Save

\* The value last asked for is handed from syscfg or a file to the table, the buffer
\* and the files.
LEMMA ExpectedStep == Safe /\ AllInv /\ [Next]_vars => ExpectedInv'
<1> SUFFICES ASSUME Safe, AllInv, [Next]_vars PROVE ExpectedInv'
  OBVIOUS
<1> USE DataAssumption, RecordFacts
    DEF AllInv, TypeInv, TypeOK, SyscfgInv, TableInv, FilesInv, ExpectedInv, Safe,
        SafeCrashes, files, triggers, sys, load, bounds, Step, Early, Armed,
        LoadSource, LoadSteps, SaveSteps
<1>1. CASE RequestPartner
  <2> PICK v \in Config :
           /\ \A p \in Params \ Partnered : v[p] = Absent
           /\ syscfg' = Over(v, syscfg) /\ syscfgDb' = syscfg'
           /\ expected' = Over(v, expected)
    BY <1>1 DEF RequestPartner
  <2>1. \A r \in Params :
          /\ syscfg'[r] = IF v[r] # Absent THEN v[r] ELSE syscfg[r]
          /\ expected'[r] = IF v[r] # Absent THEN v[r] ELSE expected[r]
    BY DEF Over
  <2>2. UNCHANGED <<files, load, buf, repo, pc>> /\ pc = "down"
    BY <1>1 DEF RequestPartner
  <2>3. Armed'
    BY <1>1 DEF RequestPartner
  <2>4. LoadSource' = LoadSource
    BY <2>2
  <2> QED
    BY <2>1, <2>2, <2>3, <2>4
<1>2. CASE Boot
  BY <1>2 DEF Boot
<1>3. CASE Reload
  <2>1. cur = repo /\ LoadSource = repo /\ pc = "up" /\ pc' = "load"
    BY <1>3 DEF Reload
  <2> QED
    BY <1>3, <2>1 DEF Reload
<1>4. CASE ChangeRecord
  <2>1. \A r \in Params :
          expected'[r] = repo'[r] \/ (expected'[r] = expected[r] /\ repo'[r] = repo[r])
    <3> PICK p \in UserParams, v \in UserVals :
             /\ repo' = [repo EXCEPT ![p] = v]
             /\ expected' = [expected EXCEPT ![p] = v]
      BY <1>4 DEF ChangeRecord
    <3> QED
      BY DEF Config
  <2>2. pc = "up" /\ pc' = "openCur"
    BY <1>4 DEF ChangeRecord
  <2>3. \A r \in Params : expected[r] # Absent => repo[r] = expected[r]
    BY <2>2
  <2>4. \A r \in Params : expected'[r] # Absent => repo'[r] = expected'[r]
    BY <2>1, <2>3
  <2> QED
    BY <2>2, <2>4
<1>5. CASE LoadRecords
  BY <1>5 DEF LoadRecords
<1>6. CASE ImportCustom
  BY <1>6 DEF ImportCustom
<1>7. CASE MergeDefault
  BY <1>7 DEF MergeDefault
<1>8. CASE TestTriggers
  BY <1>8 DEF TestTriggers
<1>9. CASE TestApplyFile
  BY <1>9 DEF TestApplyFile
<1>10. ASSUME NEW p \in Partnered, TakeParam(p) PROVE ExpectedInv'
  <2>1. /\ \A r \in Params : taken'[r] = IF r = p THEN syscfg[r] ELSE taken[r]
        /\ \A r \in Params : syscfg'[r] = IF r = p /\ p \in OneShot THEN Absent ELSE syscfg[r]
    BY <1>10 DEF TakeParam, Config
  <2>2. /\ pc = "take" /\ pc' \in {"take", "commit"}
        /\ p \in todo /\ todo' = todo \ {p}
    BY <1>10 DEF TakeParam
  <2>3. table' = table /\ expected' = expected
    BY <1>10 DEF TakeParam
  <2>4. ASSUME NEW r \in Params, expected[r] # Absent
        PROVE  expected[r] \in {taken'[r], table[r]} \/ (r \in todo' /\ syscfg'[r] = expected[r])
    <3>1. CASE r = p
      BY <2>1, <2>2, <2>4, <3>1
    <3>2. CASE r # p
      BY <2>1, <2>2, <2>4, <3>2
    <3> QED
      BY <3>1, <3>2
  <2> QED
    BY <2>2, <2>3, <2>4
<1>11. CASE CommitSyscfg
  BY <1>11 DEF CommitSyscfg
<1>12. CASE ImportPartners
  <2>1. \A r \in Params : table'[r] = IF taken[r] # Absent THEN taken[r] ELSE table[r]
    BY <1>12 DEF ImportPartners, Over
  <2> QED
    BY <1>12, <2>1 DEF ImportPartners
<1>13. CASE MergeMissing
  BY <1>13 DEF MergeMissing, Seen
<1>14. CASE FlushRecords
  BY <1>14 DEF FlushRecords
<1>15. CASE OpenCur
  BY <1>15 DEF OpenCur
<1>16. CASE WriteCur
  BY <1>16 DEF WriteCur
<1>17. CASE OpenBak
  BY <1>17 DEF OpenBak
<1>18. CASE WriteBak
  BY <1>18 DEF WriteBak
<1>19. CASE Crash
  <2>1. /\ cur' = cur /\ pc' = "down" /\ UNCHANGED <<triggers, syscfg, expected>>
        /\ (pc # "writeBak" => bak' = bak)
    BY <1>19 DEF Crash, Stop
  <2>2. CASE pc \in Early
    BY <2>1, <2>2
  <2>3. CASE pc \in {"openBak", "writeBak", "up"}
    <3>1. LoadSource' = repo
      BY <2>1, <2>3
    <3>2. \A r \in Params : expected[r] # Absent => repo[r] = expected[r]
      BY <2>3
    <3> QED
      BY <2>1, <3>1, <3>2
  <2> QED
    BY <1>19, <2>2, <2>3 DEF Crash
<1>20. CASE Reboot
  <2>1. pc = "up" /\ cur' = NoFile /\ bak' = bak /\ pc' = "down" /\ expected' = expected
    BY <1>20 DEF Reboot, Stop
  <2>2. LoadSource' = repo
    BY <2>1
  <2>3. \A r \in Params : expected[r] # Absent => repo[r] = expected[r]
    BY <2>1
  <2> QED
    BY <2>1, <2>2, <2>3
<1>21. CASE FactoryReset
  BY <1>21 DEF FactoryReset
<1>22. CASE UNCHANGED vars
  BY <1>22 DEF vars
<1>23. CASE DropMerge
  BY <1>23 DEF DropMerge, Seen
<1> QED
  BY <1>1, <1>2, <1>3, <1>4, <1>5, <1>6, <1>7, <1>8, <1>9, <1>10, <1>11, <1>12, <1>13,
     <1>14, <1>15, <1>16, <1>17, <1>18, <1>19, <1>20, <1>21, <1>22, <1>23
  DEF Next, Load, Save

\* Initially there is at most a backup.
LEMMA InvInit == Init => AllInv
<1> SUFFICES ASSUME Init PROVE AllInv
  OBVIOUS
<1>1. TypeInv
  <2>1. whole \subseteq {"cur", "bak"}
    BY DEF Init
  <2>2. changes \in 0 .. MaxChanges /\ requests \in 0 .. MaxChanges
    BY DataAssumption DEF Init
  <2> QED
    BY <2>1, <2>2, RecordFacts DEF Init, TypeInv, TypeOK
<1>2. \A p \in Params : syscfg[p] = Absent /\ taken[p] = Absent /\ expected[p] = Absent
  BY RecordFacts DEF Init
<1>3. SyscfgInv
  BY <1>2, DataAssumption DEF Init, SyscfgInv
<1>4. TableInv
  BY <1>2 DEF Init, TableInv
<1>5. FilesInv
  BY DEF Init, FilesInv, SaveSteps
<1>6. ExpectedInv
  BY <1>2 DEF ExpectedInv
<1> QED
  BY <1>1, <1>3, <1>4, <1>5, <1>6 DEF AllInv

\* Type correctness, for any crashes and reboots.
THEOREM TypeCorrect == Spec => []TypeOK
<1>1. Init => TypeInv
  BY InvInit DEF AllInv
<1>2. TypeInv => TypeOK
  BY DEF TypeInv
<1> QED
  BY <1>1, <1>2, TypeStep, PTL DEF Spec

\* Whatever is last asked for reaches the registry and both files, when neither
\* the process nor the device stops between taking partner values out of syscfg
\* and having written the current file, and clients change no parameter whose
\* partner value stays in syscfg.
THEOREM LastRequestWinsCorrect == ASSUME Safe PROVE Spec => []LastRequestWins
<1>1. AllInv /\ [Next]_vars => AllInv'
  BY Safe, TypeStep, FilesStep, TableStep, SyscfgStep, ExpectedStep DEF AllInv
<1>2. AllInv => LastRequestWins
  BY DEF AllInv, FilesInv, ExpectedInv, LastRequestWins
<1> QED
  BY InvInit, <1>1, <1>2, PTL DEF Spec

-----------------------------------------------------------------------------

\* A reload starts from the running registry, and no step of a load takes a record
\* out of the table: what it misses, the registry misses too.
MergeInv ==
  /\ pc = "down" => repo = NoRecords
  /\ pc = "load" => repo = NoRecords \/ cur = repo
  /\ pc \in {"custom", "default", "triggers", "applyFile", "take", "commit", "overwrite", "missing"} =>
       \A p \in Params : table[p] = Absent => repo[p] = Absent

\* Every source adds records.
LEMMA MergeStep == TypeInv /\ FilesInv /\ MergeInv /\ [Next]_vars => MergeInv'
<1> SUFFICES ASSUME TypeInv, FilesInv, MergeInv, [Next]_vars PROVE MergeInv'
  OBVIOUS
<1> USE DataAssumption, RecordFacts
    DEF TypeInv, TypeOK, MergeInv, files, load, Step, LoadSteps, SaveSteps
<1>1. CASE RequestPartner
  BY <1>1 DEF RequestPartner
<1>2. CASE Boot
  BY <1>2 DEF Boot
<1>3. CASE Reload
  BY <1>3 DEF Reload, FilesInv
<1>4. CASE ChangeRecord
  BY <1>4 DEF ChangeRecord
<1>5. CASE LoadRecords
  <2>1. \A p \in Params : LoadSource[p] = Absent => repo[p] = Absent
    BY <1>5 DEF LoadRecords, LoadSource
  <2> QED
    BY <1>5, <2>1 DEF LoadRecords
<1>6. CASE ImportCustom
  <2>1. \A p \in Params : table'[p] = IF table[p] # Absent THEN table[p] ELSE Custom[p]
    BY <1>6 DEF ImportCustom, Over
  <2> QED
    BY <1>6, <2>1 DEF ImportCustom
<1>7. CASE MergeDefault
  <2>1. \A p \in Params : table'[p] = IF table[p] # Absent THEN table[p] ELSE Default[p]
    BY <1>7 DEF MergeDefault, Over
  <2> QED
    BY <1>7, <2>1 DEF MergeDefault
<1>8. CASE TestTriggers
  BY <1>8 DEF TestTriggers
<1>9. CASE TestApplyFile
  BY <1>9 DEF TestApplyFile
<1>10. ASSUME NEW p \in Partnered, TakeParam(p) PROVE MergeInv'
  BY <1>10 DEF TakeParam
<1>11. CASE CommitSyscfg
  BY <1>11 DEF CommitSyscfg
<1>12. CASE ImportPartners
  <2>1. \A p \in Params : table'[p] = IF taken[p] # Absent THEN taken[p] ELSE table[p]
    BY <1>12 DEF ImportPartners, Over
  <2> QED
    BY <1>12, <2>1 DEF ImportPartners
<1>13. CASE MergeMissing
  BY <1>13 DEF MergeMissing, Seen
<1>14. CASE FlushRecords
  BY <1>14 DEF FlushRecords
<1>15. CASE OpenCur
  BY <1>15 DEF OpenCur
<1>16. CASE WriteCur
  BY <1>16 DEF WriteCur
<1>17. CASE OpenBak
  BY <1>17 DEF OpenBak
<1>18. CASE WriteBak
  BY <1>18 DEF WriteBak
<1>19. CASE Crash
  BY <1>19 DEF Crash, Stop
<1>20. CASE Reboot
  BY <1>20 DEF Reboot, Stop
<1>21. CASE FactoryReset
  BY <1>21 DEF FactoryReset
<1>22. CASE UNCHANGED vars
  BY <1>22 DEF vars
<1>23. CASE DropMerge
  BY <1>23 DEF DropMerge, Seen
<1> QED
  BY <1>1, <1>2, <1>3, <1>4, <1>5, <1>6, <1>7, <1>8, <1>9, <1>10, <1>11, <1>12, <1>13,
     <1>14, <1>15, <1>16, <1>17, <1>18, <1>19, <1>20, <1>21, <1>22, <1>23
  DEF Next, Load, Save

\* A partner parameter of bootstrap.json that a load misses was deleted by a client
\* from the running registry, for any sources, crashes and reboots.
THEOREM BootstrapMergedCorrect == Spec => BootstrapMerged
<1> DEFINE I == TypeInv /\ FilesInv /\ MergeInv
           A == [pc = "missing" /\ pc' = "flush" =>
                   \A p \in Partnered : Bootstrap[p] # Absent /\ table'[p] = Absent =>
                     p \in present /\ repo[p] = Absent]_vars
<1>1. Init => I
  BY InvInit DEF AllInv, Init, MergeInv
<1>2. I /\ [Next]_vars => I'
  BY TypeStep, FilesStep, MergeStep
<1>3. I /\ [Next]_vars => A
  <2> SUFFICES ASSUME I, [Next]_vars, pc = "missing", pc' = "flush",
                      NEW p \in Partnered, Bootstrap[p] # Absent, table'[p] = Absent
               PROVE  p \in present /\ repo[p] = Absent
    OBVIOUS
  <2>1. MergeMissing
    BY DEF Next, Load, Save, Step, RequestPartner, Boot, Reload, ChangeRecord, LoadRecords,
           ImportCustom, MergeDefault, TestTriggers, TestApplyFile, TakeParam, CommitSyscfg,
           ImportPartners, DropMerge, FlushRecords, OpenCur, WriteCur, OpenBak, WriteBak, Crash, Stop,
           Reboot, FactoryReset, vars
  <2>2. p \in Params
    BY DataAssumption
  <2>3. p \in present /\ table[p] = Absent
    BY <2>1, <2>2 DEF MergeMissing, Seen
  <2> QED
    BY <2>2, <2>3 DEF MergeInv
<1> QED
  BY <1>1, <1>2, <1>3, PTL DEF Spec, BootstrapMerged

===========================================================================
