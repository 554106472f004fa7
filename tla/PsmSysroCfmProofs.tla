------------------------- MODULE PsmSysroCfmProofs -------------------------
(***************************************************************************)
(* Proofs about the base configuration files.  The argument: a load leaves *)
(* a file behind only when it is unusable (LoadInv), and a save truncates  *)
(* the current file only when the backup is a copy of it (SaveInv).        *)
(***************************************************************************)
EXTENDS PsmSysroCfm, TLAPS

TypeInv == TypeOK /\ StepInv

\* Every step keeps the types and the place of the caller.
LEMMA TypeStep == TypeInv /\ [Next]_vars => TypeInv'
<1> SUFFICES ASSUME TypeInv, [Next]_vars PROVE TypeInv'
  OBVIOUS
<1> USE ConfigAssumption
    DEF TypeInv, TypeOK, StepInv, File, Unusable, LoadSteps, SaveSteps, Goto, Fault
<1>1. CASE BeginLoad
  BY <1>1 DEF BeginLoad
<1>2. CASE Accept
  BY <1>2 DEF Accept
<1>3. CASE Reject
  <2>1. attempt \in 0 .. 2 /\ attempt' = attempt + 1
    BY <1>3 DEF Reject
  <2>2. faults' \in 0 .. MaxFaults
    BY <1>3 DEF Reject
  <2>3. CASE attempt = 0
    BY <1>3, <2>1, <2>2, <2>3 DEF Reject
  <2>4. CASE attempt = 1
    BY <1>3, <2>1, <2>2, <2>4 DEF Reject
  <2>5. CASE attempt = 2
    BY <1>3, <2>1, <2>2, <2>5 DEF Reject
  <2> QED
    BY <2>1, <2>3, <2>4, <2>5
<1>4. CASE NoMemory
  BY <1>4 DEF NoMemory
<1>5. CASE OpenBak
  BY <1>5 DEF OpenBak
<1>6. CASE OpenDef
  BY <1>6 DEF OpenDef
<1>7. CASE CopyBak \/ CopyDef
  BY <1>7 DEF CopyBak, CopyDef, Copy
<1>8. CASE \E c \in Configs : SaveBegins(c)
  BY <1>8 DEF SaveBegins
<1>9. CASE Save
  <2>1. CASE OpenBackup
    BY <2>1 DEF OpenBackup
  <2>2. CASE NoBackup
    BY <2>2 DEF NoBackup
  <2>3. CASE WriteBackup
    BY <2>3 DEF WriteBackup
  <2>4. CASE OpenCur
    BY <2>4 DEF OpenCur
  <2>5. CASE NoCur
    BY <2>5 DEF NoCur
  <2>6. CASE WriteCur
    BY <2>6 DEF WriteCur
  <2> QED
    BY <1>9, <2>1, <2>2, <2>3, <2>4, <2>5, <2>6 DEF Save
<1>10. CASE Crash
  BY <1>10 DEF Crash, Stop
<1>11. CASE PowerLoss
  BY <1>11 DEF PowerLoss, Stop
<1>12. CASE Writeback
  BY <1>12 DEF Writeback
<1>13. CASE UNCHANGED vars
  BY <1>13 DEF vars
<1> QED
  BY <1>1, <1>2, <1>3, <1>4, <1>5, <1>6, <1>7, <1>8, <1>9, <1>10, <1>11, <1>12, <1>13
  DEF Next, Load

\* The initial states satisfy all parts of the invariant.
LEMMA InvInit == Init => TypeInv /\ LoadInv /\ SaveInv
<1> SUFFICES ASSUME Init PROVE TypeInv /\ LoadInv /\ SaveInv
  OBVIOUS
<1> USE ConfigAssumption DEF Init, File, Unusable, LoadSteps, SaveSteps
<1>1. pc = "down" /\ faults \in 0 .. MaxFaults /\ attempt \in 0 .. 3
  OBVIOUS
<1>2. bakCached \in BOOLEAN
  OBVIOUS
<1>3. cur \in File /\ bak \in File /\ buf \in Configs \cup {Nothing}
       /\ loaded \in Configs \cup {Nothing}
  OBVIOUS
<1>4. TypeInv
  BY <1>1, <1>2, <1>3 DEF TypeInv, TypeOK, StepInv
<1>5. LoadInv /\ SaveInv
  BY <1>1 DEF LoadInv, SaveInv
<1> QED
  BY <1>4, <1>5

\* Files, loaded and saved configurations have their types, whatever fails and
\* wherever the process or the power stops.
THEOREM TypeCorrect == Spec => []TypeOK
<1>1. TypeInv => TypeOK
  BY DEF TypeInv
<1> QED
  BY <1>1, InvInit, TypeStep, PTL DEF Spec

\* Until a call fails, also under power loss, a load falls back only from unusable files.
LEMMA LoadStep ==
  ASSUME TypeInv, LoadInv, [Next]_vars
  PROVE  LoadInv'
<1> USE ConfigAssumption
    DEF TypeInv, TypeOK, StepInv, LoadInv, File, Unusable, LoadSteps, SaveSteps, Goto, Fault
<1>1. CASE BeginLoad
  BY <1>1 DEF BeginLoad
<1>2. CASE Accept
  BY <1>2 DEF Accept
<1>3. CASE Reject
  <2>1. faults' = 0 => faults = 0 /\ attempt \in {0, 1} /\ cur \notin Configs
    BY <1>3 DEF Reject
  <2>2. CASE attempt = 0
    BY <1>3, <2>1, <2>2 DEF Reject
  <2>3. CASE attempt = 1
    BY <1>3, <2>1, <2>3 DEF Reject
  <2> QED
    BY <1>3, <2>1, <2>2, <2>3 DEF Reject
<1>4. CASE NoMemory
  BY <1>4 DEF NoMemory
<1>5. CASE OpenBak
  BY <1>5 DEF OpenBak
<1>6. CASE OpenDef
  BY <1>6 DEF OpenDef
<1>7. CASE CopyBak \/ CopyDef
  BY <1>7 DEF CopyBak, CopyDef, Copy
<1>8. CASE \E c \in Configs : SaveBegins(c)
  BY <1>8 DEF SaveBegins
<1>9. CASE Save
  BY <1>9 DEF Save, OpenBackup, NoBackup, WriteBackup, OpenCur, NoCur, WriteCur
<1>10. CASE Crash \/ PowerLoss
  BY <1>10 DEF Crash, PowerLoss, Stop
<1>11. CASE Writeback
  BY <1>11 DEF Writeback
<1>12. CASE UNCHANGED vars
  BY <1>12 DEF vars
<1> QED
  BY <1>1, <1>2, <1>3, <1>4, <1>5, <1>6, <1>7, <1>8, <1>9, <1>10, <1>11, <1>12
  DEF Next, Load

\* Without failing calls and power loss a save truncates only what has a copy.
LEMMA SaveStep ==
  ASSUME MaxFaults = 0, PowerLossAllowed = FALSE, TypeInv, LoadInv, SaveInv, [Next]_vars
  PROVE  SaveInv'
<1> USE ConfigAssumption
    DEF TypeInv, TypeOK, StepInv, LoadInv, SaveInv, File, Unusable, LoadSteps, SaveSteps,
        Goto, Fault
<1>1. CASE BeginLoad
  BY <1>1 DEF BeginLoad
<1>2. CASE Accept
  BY <1>2 DEF Accept
<1>3. CASE Reject
  <2>1. attempt \in {0, 1} /\ cur \notin Configs
    BY <1>3 DEF Reject
  <2>2. pc' \in {"openBak", "openDef"}
    BY <1>3, <2>1 DEF Reject
  <2> QED
    BY <1>3, <2>2 DEF Reject
<1>4. CASE NoMemory
  BY <1>4 DEF NoMemory
<1>5. CASE OpenBak \/ OpenDef
  BY <1>5 DEF OpenBak, OpenDef
<1>6. CASE CopyBak \/ CopyDef
  BY <1>6 DEF CopyBak, CopyDef, Copy
<1>7. CASE \E c \in Configs : SaveBegins(c)
  BY <1>7 DEF SaveBegins
<1>8. CASE Save
  BY <1>8 DEF Save, OpenBackup, NoBackup, WriteBackup, OpenCur, NoCur, WriteCur
<1>9. CASE Crash \/ PowerLoss
  BY <1>9 DEF Crash, PowerLoss, Stop
<1>10. CASE Writeback
  BY <1>10 DEF Writeback
<1>11. CASE UNCHANGED vars
  BY <1>11 DEF vars
<1> QED
  BY <1>1, <1>2, <1>3, <1>4, <1>5, <1>6, <1>7, <1>8, <1>9, <1>10, <1>11
  DEF Next, Load

\* Until a call fails, reading the current file, falling back from it, crashes and power
\* losses keep what is stored: only a save changes it, for any configurations.
THEOREM OnlySavesChangeCorrect == Spec => OnlySavesChange
<1> DEFINE Quiet == pc \notin SaveSteps /\ faults' = 0 /\ (bakCached => cur \in Configs)
<1>1. TypeInv /\ LoadInv /\ [Next]_vars => [Quiet => Recoverable' = Recoverable]_vars
  <2> SUFFICES ASSUME TypeInv, LoadInv, Next, Quiet PROVE Recoverable' = Recoverable
    OBVIOUS
  <2> USE ConfigAssumption
      DEF TypeInv, TypeOK, StepInv, LoadInv, Recoverable, File, Unusable, LoadSteps, SaveSteps,
          Goto, Fault
  <2>1. CASE BeginLoad \/ Accept \/ NoMemory \/ Writeback
    BY <2>1 DEF BeginLoad, Accept, NoMemory, Writeback
  <2>2. CASE Reject
    BY <2>2 DEF Reject
  <2>3. CASE OpenBak \/ OpenDef
    BY <2>3 DEF OpenBak, OpenDef
  <2>4. CASE CopyBak \/ CopyDef
    BY <2>4 DEF CopyBak, CopyDef, Copy
  <2>5. CASE \E c \in Configs : SaveBegins(c)
    BY <2>5 DEF SaveBegins
  <2>6. CASE Save
    BY <2>6 DEF Save, OpenBackup, NoBackup, WriteBackup, OpenCur, NoCur, WriteCur
  <2>7. CASE Crash \/ PowerLoss
    BY <2>7 DEF Crash, PowerLoss, Stop, WritingCur, WritingBak
  <2> QED
    BY <2>1, <2>2, <2>3, <2>4, <2>5, <2>6, <2>7 DEF Next, Load
<1> QED
  BY <1>1, InvInit, TypeStep, LoadStep, PTL DEF Spec, OnlySavesChange

\* The files implement one stored configuration: every step of SaveCurConfig,
\* ReadCurConfig and a crash is a step of ConfigStore or leaves its state alone.
THEOREM ImplementsStoreCorrect ==
  ASSUME MaxFaults = 0, PowerLossAllowed = FALSE
  PROVE  Spec => ImplementsStore
<1> DEFINE Inv == TypeInv /\ LoadInv /\ SaveInv
<1>1. Init => Store!Init
  BY ConfigAssumption DEF Init, Store!Init, Recoverable
<1>2. Inv /\ [Next]_vars => [Store!Next]_(Store!vars)
  <2> SUFFICES ASSUME Inv, [Next]_vars
               PROVE  Store!Next \/ UNCHANGED <<Recoverable, buf, loaded>>
    BY DEF Store!vars
  <2> USE ConfigAssumption
      DEF TypeInv, TypeOK, StepInv, LoadInv, SaveInv, Recoverable, File, Unusable,
          LoadSteps, SaveSteps, Goto, Fault
  <2>1. CASE BeginLoad \/ NoMemory \/ Writeback
    BY <2>1 DEF BeginLoad, NoMemory, Writeback
  <2>2. CASE Accept
    <3>1. Store!Load
      BY <2>2 DEF Accept, Store!Load
    <3> QED
      BY <3>1 DEF Store!Next
  <2>3. CASE Reject
    BY <2>3 DEF Reject
  <2>4. CASE OpenBak \/ OpenDef
    BY <2>4 DEF OpenBak, OpenDef
  <2>5. CASE CopyBak \/ CopyDef
    BY <2>5 DEF CopyBak, CopyDef, Copy
  <2>6. ASSUME NEW c \in Configs, SaveBegins(c)
        PROVE  Store!Next
    <3>1. Store!BeginSave(c)
      BY <2>6 DEF SaveBegins, Store!BeginSave
    <3> QED
      BY <3>1 DEF Store!Next
  <2>7. CASE OpenBackup \/ NoBackup \/ WriteBackup \/ OpenCur \/ NoCur
    BY <2>7 DEF OpenBackup, NoBackup, WriteBackup, OpenCur, NoCur
  <2>8. CASE WriteCur
    <3>1. Store!EndSave
      BY <2>8 DEF WriteCur, Store!EndSave
    <3> QED
      BY <3>1 DEF Store!Next
  <2>9. CASE Crash \/ PowerLoss
    <3>1. Store!Crash
      BY <2>9 DEF Crash, PowerLoss, Stop, WritingCur, WritingBak, Store!Crash
    <3> QED
      BY <3>1 DEF Store!Next
  <2>10. CASE UNCHANGED vars
    BY <2>10 DEF vars
  <2> QED
    BY <2>1, <2>2, <2>3, <2>4, <2>5, <2>6, <2>7, <2>8, <2>9, <2>10 DEF Next, Load, Save
<1>3. Inv /\ [Next]_vars => Inv'
  BY TypeStep, LoadStep, SaveStep
<1> QED
  BY <1>1, <1>2, <1>3, InvInit, PTL DEF Spec, ImplementsStore, Store!Spec

\* While one of the two files is whole, no step leaves both unusable.
THEOREM KeepsACopyCorrect ==
  ASSUME MaxFaults = 0, PowerLossAllowed = FALSE
  PROVE  Spec => KeepsACopy
<1> DEFINE Inv == TypeInv /\ LoadInv /\ SaveInv
<1>1. Inv /\ [Next]_vars => [CopyLeft => CopyLeft']_vars
  <2> SUFFICES ASSUME Inv, Next, CopyLeft PROVE CopyLeft'
    OBVIOUS
  <2> USE ConfigAssumption
      DEF TypeInv, TypeOK, StepInv, LoadInv, SaveInv, CopyLeft, File, Unusable,
          LoadSteps, SaveSteps, Goto, Fault
  <2>1. CASE BeginLoad \/ Accept \/ NoMemory \/ Writeback
    BY <2>1 DEF BeginLoad, Accept, NoMemory, Writeback
  <2>2. CASE Reject
    BY <2>2 DEF Reject
  <2>3. CASE OpenBak \/ OpenDef
    BY <2>3 DEF OpenBak, OpenDef
  <2>4. CASE CopyBak \/ CopyDef
    BY <2>4 DEF CopyBak, CopyDef, Copy
  <2>5. CASE \E c \in Configs : SaveBegins(c)
    BY <2>5 DEF SaveBegins
  <2>6. CASE Save
    BY <2>6 DEF Save, OpenBackup, NoBackup, WriteBackup, OpenCur, NoCur, WriteCur
  <2>7. CASE Crash \/ PowerLoss
    BY <2>7 DEF Crash, PowerLoss, Stop, WritingCur, WritingBak
  <2> QED
    BY <2>1, <2>2, <2>3, <2>4, <2>5, <2>6, <2>7 DEF Next, Load
<1>2. Inv /\ [Next]_vars => Inv'
  BY TypeStep, LoadStep, SaveStep
<1> QED
  BY <1>1, <1>2, InvInit, PTL DEF Spec, KeepsACopy

===========================================================================
