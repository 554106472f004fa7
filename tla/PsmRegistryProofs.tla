------------------------- MODULE PsmRegistryProofs -------------------------
EXTENDS PsmRegistry, TLAPS

Savers  == Clients \cup {Main, Timer}
Loaders == Clients \cup {Main}

\* Who is a thread.
LEMMA ThreadFacts ==
  /\ Timer \in Threads /\ Main \in Threads
  /\ Clients \subseteq Threads /\ ResetTasks \subseteq Threads
  /\ Savers \subseteq Threads /\ Loaders \subseteq Threads
  BY DEF Threads, Savers, Loaders

\* Merging, cutting and changing a configuration gives configurations.
LEMMA ConfigFacts ==
  /\ EmptyConfig \in Config
  /\ \A c \in Config : Merge(c) \in Config /\ Partial(c) \subseteq Config
  /\ \A c, f \in Config : Over(c, f) \subseteq Config
  /\ \A c \in Config, p \in Params, v \in Vals \cup {Absent} :
       [c EXCEPT ![p] = v] \in Config
  /\ \A c \in Config, p \in Params : c[p] \in Vals \cup {Absent}
  /\ Config \subseteq File /\ NoFile \in File
  /\ \A f \in File : f # NoFile => f \in Config
<1>1. EmptyConfig \in Config
  BY DEF EmptyConfig, Config
<1>2. ASSUME NEW c \in Config PROVE Merge(c) \in Config
  BY DataAssumption DEF Merge, Config
<1>3. ASSUME NEW c \in Config, NEW f \in Partial(c) PROVE f \in Config
  BY <1>3 DEF Partial, Config
<1>4. ASSUME NEW c \in Config, NEW p \in Params, NEW v \in Vals \cup {Absent}
      PROVE [c EXCEPT ![p] = v] \in Config
  BY DEF Config
<1>5. ASSUME NEW c \in Config, NEW p \in Params PROVE c[p] \in Vals \cup {Absent}
  BY DEF Config
<1> QED
  BY <1>1, <1>2, <1>3, <1>4, <1>5 DEF File, Over

\* The helpers of the actions keep the types of what they set.
LEMMA GotoType ==
  ASSUME TypeOK, NEW t \in Threads, NEW l \in Labels, Goto(t, l)
  PROVE  pc' \in [Threads -> Labels]
  BY DEF TypeOK, Goto

LEMMA FreeType ==
  ASSUME TypeOK, NEW t \in Threads, Free(t)
  PROVE  /\ cont' \in [Threads -> {"none", "timer", "flash", "bootFlash", "load"}]
         /\ buf' \in [Threads -> Config]
         /\ todo' \in [Threads -> SUBSET Params]
  BY ConfigFacts DEF TypeOK, Free

LEMMA EnterSaveType ==
  ASSUME TypeOK, NEW t \in Threads, NEW w \in {"timer", "flash", "bootFlash", "load"}, EnterSave(t, w)
  PROVE  /\ pc' \in [Threads -> Labels]
         /\ cont' \in [Threads -> {"none", "timer", "flash", "bootFlash", "load"}]
         /\ buf' \in [Threads -> Config]
         /\ todo' \in [Threads -> SUBSET Params]
         /\ bSaveInProgress' \in BOOLEAN
<1>1. pc' \in [Threads -> Labels]
  <2> "serialise" \in Labels
    BY DEF Labels, SaveSteps
  <2> QED BY GotoType DEF EnterSave
<1> QED
  BY <1>1, ConfigFacts DEF TypeOK, EnterSave

\* A record that is written or deleted leaves a configuration.
LEMMA ChangeType ==
  ASSUME TypeOK, NEW p \in Params, NEW v \in Vals \cup {Absent}, ChangeRecord(p, v)
  PROVE  /\ repo' \in Config
         /\ sinceTerm' \in [Params -> SUBSET (Vals \cup {Absent})]
<1>1. repo' \in Config
  BY ConfigFacts DEF TypeOK, ChangeRecord
<1>2. CASE sinceTerm[p] = {}
  BY <1>1, <1>2 DEF TypeOK, ChangeRecord
<1>3. CASE sinceTerm[p] # {}
  BY <1>1, <1>3 DEF TypeOK, ChangeRecord
<1> QED BY <1>2, <1>3, <1>1

\* A notification sets flags.
LEMMA NotifyType ==
  ASSUME TypeOK, Notify PROVE bNeedFlush' \in BOOLEAN /\ quiet' \in BOOLEAN
  BY DEF TypeOK, Notify

\* A request is worked off item by item.
LEMMA RequestType ==
  ASSUME TypeOK, NEW t \in Clients, req[t] # <<>>
  PROVE  /\ Head(req[t]) \in SetItem \cup DelItem
         /\ [req EXCEPT ![t] = Tail(@)] \in [Clients -> Seq(SetItem) \cup Seq(DelItem)]
  BY DEF TypeOK

\* What an item of a request holds.
LEMMA ItemFacts ==
  ASSUME NEW i \in SetItem \cup DelItem
  PROVE  /\ i.op \in {"write", "delete"} => i.param \in Params
         /\ i.op = "write" => i.val \in Vals
         /\ i.op = "disableWriting" => i.on \in BOOLEAN
  BY DEF SetItem, DelItem

\* Every step keeps the types.
LEMMA TypeStep == TypeOK /\ [Next]_vars => TypeOK'
<1> SUFFICES ASSUME TypeOK, [Next]_vars PROVE TypeOK'
  OBVIOUS
<1> USE ThreadFacts DEF files, flags, locks, history
<1>1. CASE TimerFires
  <2>1. pc' \in [Threads -> Labels]
    BY <1>1, GotoType DEF TimerFires, At, Item, Labels, SaveSteps, FileOps, SaveEnds,
      MayFail
  <2> QED
    BY <1>1, <2>1 DEF TypeOK, TimerFires
<1>2. CASE TimerLocksAccess
  <2>1. pc' \in [Threads -> Labels]
    BY <1>2, GotoType DEF TimerLocksAccess, At, Item, Labels, SaveSteps, FileOps,
      SaveEnds, MayFail
  <2> QED
    BY <1>2, <2>1 DEF TypeOK, TimerLocksAccess
<1>3. CASE TimerStartsSave
  BY <1>3, EnterSaveType DEF TypeOK, TimerStartsSave
<1>4. CASE TimerSkipsSave
  <2>1. pc' \in [Threads -> Labels]
    BY <1>4, GotoType DEF TimerSkipsSave, At, Item, Labels, SaveSteps, FileOps, SaveEnds,
      MayFail
  <2> QED
    BY <1>4, <2>1 DEF TypeOK, TimerSkipsSave
<1>5. CASE TimerEndsSave
  <2>1. pc' \in [Threads -> Labels]
    BY <1>5, GotoType DEF TimerEndsSave, At, Item, Labels, SaveSteps, FileOps, SaveEnds,
      MayFail
  <2> QED
    BY <1>5, <2>1, FreeType DEF TypeOK, TimerEndsSave
<1>6. CASE TimePasses
  BY <1>6 DEF TypeOK, TimePasses
<1>7. CASE TermSignal
  <2>1. pc' \in [Threads -> Labels]
    BY <1>7, GotoType DEF TermSignal, TermServing, TermBooting, Labels
  <2> QED
    <3>1. Readable \in Config
      BY ConfigFacts DEF TypeOK, Readable
    <3>2. Stored \in Config
      BY <3>1, ConfigFacts, ThreadFacts DEF TypeOK, Stored
    <3>3. sinceTerm' \in [Params -> SUBSET (Vals \cup {Absent})]
      BY <1>7, <3>2, ConfigFacts DEF TypeOK, TermSignal, TermServing, TermBooting
    <3> QED
      BY <1>7, <2>1, <3>3 DEF TypeOK, TermSignal, TermServing, TermBooting
<1>8. CASE Exit
  <2>1. pc' \in [Threads -> Labels]
    BY <1>8, GotoType DEF Exit, At, Item, Labels, SaveSteps, FileOps, SaveEnds, MayFail
  <2> QED
    BY <1>8, <2>1 DEF TypeOK, Exit
<1>9. ASSUME NEW t \in Savers, CopyRecord(t) PROVE TypeOK'
  <2>1. PICK p \in todo[t] :
          /\ buf' = [buf EXCEPT ![t][p] = repo[p]]
          /\ todo' = [todo EXCEPT ![t] = @ \ {p}]
          /\ Goto(t, IF todo[t] = {p} THEN "openCur" ELSE "serialise")
    BY <1>9 DEF CopyRecord
  <2>2. pc' \in [Threads -> Labels]
    BY <2>1, GotoType DEF Labels, SaveSteps, FileOps
  <2>3. buf' \in [Threads -> Config]
    <3>1. p \in Params /\ buf[t] \in Config /\ repo[p] \in Vals \cup {Absent}
      BY ConfigFacts DEF TypeOK
    <3> QED
      BY <2>1, <3>1, ConfigFacts DEF TypeOK
  <2> QED
    BY <1>9, <2>1, <2>2, <2>3 DEF TypeOK, CopyRecord
<1>10. ASSUME NEW t \in Savers, SaveRegFileFails(t) PROVE TypeOK'
  <2>1. pc' \in [Threads -> Labels]
    BY <1>10, GotoType DEF SaveRegFileFails, At, Item, Labels, SaveSteps, FileOps,
      SaveEnds, MayFail
  <2> QED
    BY <1>10, <2>1 DEF TypeOK, SaveRegFileFails, MayFail
<1>11. ASSUME NEW t \in Savers, OpenCur(t) PROVE TypeOK'
  <2>1. pc' \in [Threads -> Labels]
    BY <1>11, GotoType DEF OpenCur, At, Item, Labels, SaveSteps, FileOps, SaveEnds, MayFail
  <2> QED
    BY <1>11, <2>1, ConfigFacts DEF TypeOK, OpenCur, MayFail
<1>12. ASSUME NEW t \in Savers, WriteCur(t) PROVE TypeOK'
  <2>1. pc' \in [Threads -> Labels]
    BY <1>12, GotoType DEF WriteCur, At, Item, Labels, SaveSteps, FileOps, SaveEnds, MayFail
  <2> QED
    BY <1>12, <2>1, ConfigFacts DEF TypeOK, WriteCur, MayFail
<1>13. ASSUME NEW t \in Savers, OpenBak(t) PROVE TypeOK'
  <2>1. pc' \in [Threads -> Labels]
    BY <1>13, GotoType DEF OpenBak, At, Item, Labels, SaveSteps, FileOps, SaveEnds, MayFail
  <2> QED
    BY <1>13, <2>1, ConfigFacts DEF TypeOK, OpenBak, MayFail
<1>14. ASSUME NEW t \in Savers, WriteBak(t) PROVE TypeOK'
  <2>1. pc' \in [Threads -> Labels]
    BY <1>14, GotoType DEF WriteBak, Labels, SaveSteps, SaveEnds
  <2>2. Mapped(t) \subseteq Config
    BY ConfigFacts DEF TypeOK, Mapped
  <2>3. PICK c \in Mapped(t) :
          \/ bak' \in (IF bak = NoFile THEN {NoFile} ELSE Over(c, bak)) /\ UNCHANGED faults
          \/ /\ MayFail
             /\ bak' \in IF bak = NoFile THEN {NoFile} ELSE Partial(c)
    BY <1>14 DEF WriteBak
  <2>4. bak' \in File /\ faults' \in Nat
    BY <2>2, <2>3, ConfigFacts DEF TypeOK, MayFail
  <2> QED
    BY <1>14, <2>1, <2>4 DEF TypeOK, WriteBak
<1>15. ASSUME NEW t \in Loaders, FlashLocks(t) PROVE TypeOK'
  BY <1>15, EnterSaveType DEF TypeOK, FlashLocks
<1>16. ASSUME NEW t \in Loaders, FlashEnds(t) PROVE TypeOK'
  <2>1. pc' \in [Threads -> Labels]
    BY <1>16, GotoType DEF FlashEnds, At, Item, Labels, SaveSteps, FileOps, SaveEnds,
      MayFail
  <2> QED
    BY <1>16, <2>1, FreeType DEF TypeOK, FlashEnds
<1>17. ASSUME NEW t \in Loaders, LoadRead(t) PROVE TypeOK'
  <2>1. pc' \in [Threads -> Labels]
    BY <1>17, GotoType DEF LoadRead, Labels, SaveSteps, FileOps, SaveEnds
  <2>2. Readable \in Config
    BY ConfigFacts DEF TypeOK, Readable
  <2>3. buf' \in [Threads -> Config]
    BY <1>17, <2>2, ConfigFacts DEF TypeOK, LoadRead
  <2>4. faults' \in Nat /\ cont' \in [Threads -> {"none", "timer", "flash", "bootFlash", "load"}]
    BY <1>17 DEF TypeOK, LoadRead, MayFail
  <2> QED
    BY <1>17, <2>1, <2>3, <2>4 DEF TypeOK, LoadRead
<1>18. ASSUME NEW t \in Loaders, LoadParsed(t) PROVE TypeOK'
  <2>1. pc' \in [Threads -> Labels]
    BY <1>18, GotoType DEF LoadParsed, At, Item, Labels, SaveSteps, FileOps, SaveEnds,
      MayFail
  <2> QED
    BY <1>18, <2>1 DEF TypeOK, LoadParsed
<1>19. ASSUME NEW t \in Loaders, ApplyRecord(t) PROVE TypeOK'
  BY <1>19, ChangeType, NotifyType, ConfigFacts DEF TypeOK, ApplyRecord, ChangeRecord
<1>20. ASSUME NEW t \in Loaders, LoadEnds(t) PROVE TypeOK'
  <2>1. pc' \in [Threads -> Labels]
    BY <1>20, GotoType DEF LoadEnds, Labels, SaveSteps
  <2>2. faults' \in Nat
    BY <1>20 DEF TypeOK, LoadEnds, MayFail
  <2>3. bNoSave' \in BOOLEAN /\ applied' \in Config
    BY <1>20 DEF TypeOK, LoadEnds
  <2>4. /\ cont' \in [Threads -> {"none", "timer", "flash", "bootFlash", "load"}]
        /\ buf' \in [Threads -> Config]
        /\ todo' \in [Threads -> SUBSET Params]
    BY <1>20, FreeType DEF LoadEnds
  <2> QED
    BY <1>20, <2>1, <2>2, <2>3, <2>4 DEF TypeOK, LoadEnds
<1>21. ASSUME NEW t \in Clients, Receive(t) PROVE TypeOK'
  <2>1. pc' \in [Threads -> Labels]
    BY <1>21, GotoType DEF Receive, Labels
  <2>2. PICK r \in Requests : req' = [req EXCEPT ![t] = r]
    BY <1>21 DEF Receive
  <2>3. req' \in [Clients -> Seq(SetItem) \cup Seq(DelItem)]
    BY <2>2, DataAssumption DEF TypeOK
  <2> QED
    BY <1>21, <2>1, <2>3 DEF TypeOK, Receive
<1>22. ASSUME NEW t \in Clients, LockThread(t) PROVE TypeOK'
  <2>1. pc' \in [Threads -> Labels]
    BY <1>22, GotoType DEF LockThread, At, Item, Labels, SaveSteps, FileOps, SaveEnds,
      MayFail
  <2>2. req' \in [Clients -> Seq(SetItem) \cup Seq(DelItem)]
    <3>1. << >> \in Seq(SetItem)
      OBVIOUS
    <3>2. req' = req \/ req' = [req EXCEPT ![t] = << >>]
      BY <1>22 DEF LockThread
    <3> QED
      BY <3>1, <3>2, Zenon DEF TypeOK
  <2> QED
    BY <1>22, <2>1, <2>2 DEF TypeOK, LockThread
<1>23. ASSUME NEW t \in Clients, WriteItem(t) PROVE TypeOK'
  BY <1>23, ChangeType, NotifyType, RequestType DEF TypeOK, WriteItem, ChangeRecord, Item,
    NextItem, SetItem, DelItem
<1>24. ASSUME NEW t \in Clients, SkipEqualItem(t) PROVE TypeOK'
  BY <1>24, RequestType DEF TypeOK, SkipEqualItem, Item, NextItem
<1>25. ASSUME NEW t \in Clients, DeleteItem(t) PROVE TypeOK'
  <2>1. Head(req[t]).param \in Params /\ req' \in [Clients -> Seq(SetItem) \cup
    Seq(DelItem)]
    BY <1>25, RequestType, ItemFacts DEF DeleteItem, Item, NextItem
  <2>2. /\ repo' \in Config /\ bNeedFlush' \in BOOLEAN /\ quiet' \in BOOLEAN
        /\ sinceTerm' \in [Params -> SUBSET (Vals \cup {Absent})]
    <3>1. CASE repo[Head(req[t]).param] # Absent
      <4>1. ChangeRecord(Head(req[t]).param, Absent)
        BY <1>25, <3>1 DEF DeleteItem
      <4> QED
        BY <2>1, <4>1, ChangeType, NotifyType DEF ChangeRecord
    <3>2. CASE repo[Head(req[t]).param] = Absent
      BY <1>25, <3>2 DEF TypeOK, DeleteItem
    <3> QED
      BY <3>1, <3>2
  <2> QED
    BY <1>25, <2>1, <2>2 DEF TypeOK, DeleteItem
<1>26. ASSUME NEW t \in Clients, DisableWritingItem(t) PROVE TypeOK'
  BY <1>26, RequestType, BoundAssumption DEF TypeOK, DisableWritingItem, Item, NextItem
<1>27. ASSUME NEW t \in Clients, ReloadItem(t) PROVE TypeOK'
  <2>1. pc' \in [Threads -> Labels]
    BY <1>27, GotoType DEF ReloadItem, At, Item, Labels, SaveSteps, FileOps, SaveEnds,
      MayFail
  <2> QED
    BY <1>27, <2>1, RequestType DEF TypeOK, ReloadItem, Item, NextItem
<1>28. ASSUME NEW t \in Clients, ReloadResumes(t) PROVE TypeOK'
  <2>1. pc' \in [Threads -> Labels]
    BY <1>28, GotoType DEF ReloadResumes, At, Item, Labels, SaveSteps, FileOps, SaveEnds,
      MayFail
  <2> QED
    BY <1>28, <2>1 DEF TypeOK, ReloadResumes
<1>29. ASSUME NEW t \in Clients, FactoryResetItem(t) PROVE TypeOK'
  <2>1. pc' \in [Threads -> Labels]
    <3>1. CASE \E r \in ResetTasks : pc[r] = "idle" /\ Goto(r, "resetStart")
      BY <3>1, GotoType DEF Labels
    <3>2. CASE UNCHANGED pc
      BY <3>2 DEF TypeOK
    <3> QED
      BY <1>29, <3>1, <3>2 DEF FactoryResetItem
  <2> QED
    BY <1>29, <2>1, RequestType DEF TypeOK, FactoryResetItem, Item, NextItem
<1>30. ASSUME NEW t \in Clients, Reply(t) PROVE TypeOK'
  <2>1. pc' \in [Threads -> Labels]
    BY <1>30, GotoType DEF Reply, At, Item, Labels, SaveSteps, FileOps, SaveEnds, MayFail
  <2> QED
    BY <1>30, <2>1 DEF TypeOK, Reply
<1>31. ASSUME NEW t \in ResetTasks, ResetBegins(t) PROVE TypeOK'
  <2>1. pc' \in [Threads -> Labels]
    BY <1>31, GotoType DEF ResetBegins, At, Item, Labels, SaveSteps, FileOps, SaveEnds,
      MayFail
  <2> QED
    BY <1>31, <2>1 DEF TypeOK, ResetBegins
<1>32. ASSUME NEW t \in ResetTasks, UnlinkCur(t) PROVE TypeOK'
  <2>1. pc' \in [Threads -> Labels]
    BY <1>32, GotoType DEF UnlinkCur, At, Item, Labels, SaveSteps, FileOps, SaveEnds,
      MayFail
  <2> QED
    BY <1>32, <2>1, ConfigFacts DEF TypeOK, UnlinkCur
<1>33. ASSUME NEW t \in ResetTasks, UnlinkBak(t) PROVE TypeOK'
  <2>1. pc' \in [Threads -> Labels]
    BY <1>33, GotoType DEF UnlinkBak, At, Item, Labels, SaveSteps, FileOps, SaveEnds,
      MayFail
  <2> QED
    BY <1>33, <2>1, ConfigFacts DEF TypeOK, UnlinkBak
<1>34. CASE UNCHANGED vars
  BY <1>34 DEF TypeOK, vars
<1> QED
  BY <1>1, <1>2, <1>3, <1>4, <1>5, <1>6, <1>7, <1>8, <1>9, <1>10, <1>11, <1>12, <1>13,
    <1>14, <1>15, <1>16, <1>17, <1>18, <1>19, <1>20, <1>21, <1>22, <1>23, <1>24, <1>25,
    <1>26, <1>27, <1>28, <1>29, <1>30, <1>31, <1>32, <1>33, <1>34
  DEF Next, TimerStep, TimerReturns, ClientStep, ResetStep, MainStep, Exited, SaveRoutine,
    LoadRoutine,
      Savers, Loaders

\* The initial states have the types.
LEMMA TypeInit == Init => TypeOK
<1> SUFFICES ASSUME Init PROVE TypeOK
  OBVIOUS
<1>1. pc \in [Threads -> Labels]
  BY DEF Init, Labels
<1>2. FileSyncRefCount \in 0 .. RefCountMod - 1
  BY BoundAssumption DEF Init
<1>3. req \in [Clients -> Seq(SetItem) \cup Seq(DelItem)]
  BY DEF Init
<1>4. /\ buf \in [Threads -> Config] /\ repo \in Config /\ applied \in Config
      /\ todo \in [Threads -> SUBSET Params]
      /\ cont \in [Threads -> {"none", "timer", "flash", "bootFlash", "load"}]
      /\ sinceTerm \in [Params -> SUBSET (Vals \cup {Absent})]
  BY ConfigFacts DEF Init
<1> QED
  BY <1>1, <1>2, <1>3, <1>4, ThreadFacts DEF Init, TypeOK

\* Every reachable state is well typed, whatever the number of clients, records and
\* values and whatever the requests, for the whole protocol of the module.
THEOREM TypeCorrect == Spec => []TypeOK
  BY TypeInit, TypeStep, PTL DEF Spec

\* Every step keeps the part of the invariant about where a thread can be,
LEMMA LabelInvStep == IInv /\ TypeOK' /\ [Next]_vars => LabelInv'
<1> SUFFICES ASSUME IInv, TypeOK', [Next]_vars PROVE LabelInv'
  OBVIOUS
<1> USE ThreadAssumption DEF IInv, files, flags, locks, history, Threads, Savers, Loaders,
  SaveSteps, FileOps, SaveEnds
<1>1. CASE TimerFires
  BY <1>1 DEF TimerFires, At, Goto, TypeOK, LabelInv
<1>2. CASE TimerLocksAccess
  BY <1>2 DEF TimerLocksAccess, At, Goto, TypeOK, LabelInv
<1>3. CASE TimerStartsSave
  BY <1>3 DEF TimerStartsSave, At, Goto, EnterSave, TypeOK, LabelInv
<1>4. CASE TimerSkipsSave
  BY <1>4 DEF TimerSkipsSave, At, Goto, TypeOK, LabelInv
<1>5. CASE TimerEndsSave
  BY <1>5 DEF TimerEndsSave, Goto, Free, TypeOK, LabelInv
<1>6. CASE TimePasses
  BY <1>6 DEF TimePasses, TypeOK, LabelInv
<1>7. CASE TermSignal
  BY <1>7 DEF TermSignal, TermServing, TermBooting, At, Goto, TypeOK, LabelInv
<1>8. CASE Exit
  BY <1>8 DEF Exit, At, Goto, TypeOK, LabelInv
<1>9. ASSUME NEW t \in Savers, CopyRecord(t) PROVE LabelInv'
  BY <1>9 DEF CopyRecord, At, Goto, TypeOK, LabelInv
<1>10. ASSUME NEW t \in Savers, SaveRegFileFails(t) PROVE LabelInv'
  BY <1>10 DEF SaveRegFileFails, At, Goto, TypeOK, LabelInv
<1>11. ASSUME NEW t \in Savers, OpenCur(t) PROVE LabelInv'
  BY <1>11 DEF OpenCur, At, Goto, TypeOK, LabelInv
<1>12. ASSUME NEW t \in Savers, WriteCur(t) PROVE LabelInv'
  BY <1>12 DEF WriteCur, At, Goto, TypeOK, LabelInv
<1>13. ASSUME NEW t \in Savers, OpenBak(t) PROVE LabelInv'
  BY <1>13 DEF OpenBak, At, Goto, TypeOK, LabelInv
<1>14. ASSUME NEW t \in Savers, WriteBak(t) PROVE LabelInv'
  BY <1>14 DEF WriteBak, At, Goto, TypeOK, LabelInv
<1>15. ASSUME NEW t \in Loaders, FlashLocks(t) PROVE LabelInv'
  BY <1>15 DEF FlashLocks, At, Goto, EnterSave, TypeOK, LabelInv
<1>16. ASSUME NEW t \in Loaders, FlashEnds(t) PROVE LabelInv'
  BY <1>16 DEF FlashEnds, Goto, Free, TypeOK, LabelInv
<1>17. ASSUME NEW t \in Loaders, LoadRead(t) PROVE LabelInv'
  BY <1>17 DEF LoadRead, At, Goto, TypeOK, LabelInv
<1>18. ASSUME NEW t \in Loaders, LoadParsed(t) PROVE LabelInv'
  BY <1>18 DEF LoadParsed, At, Goto, TypeOK, LabelInv
<1>19. ASSUME NEW t \in Loaders, ApplyRecord(t) PROVE LabelInv'
  BY <1>19 DEF ApplyRecord, At, ChangeRecord, Notify, TypeOK, LabelInv
<1>20. ASSUME NEW t \in Loaders, LoadEnds(t) PROVE LabelInv'
  BY <1>20 DEF LoadEnds, At, Goto, Free, TypeOK, LabelInv
<1>21. ASSUME NEW t \in Clients, Receive(t) PROVE LabelInv'
  BY <1>21 DEF Receive, At, Goto, Serving, TypeOK, LabelInv
<1>22. ASSUME NEW t \in Clients, LockThread(t) PROVE LabelInv'
  BY <1>22 DEF LockThread, At, Goto, TypeOK, LabelInv
<1>23. ASSUME NEW t \in Clients, WriteItem(t) PROVE LabelInv'
  BY <1>23 DEF WriteItem, At, Item, ChangeRecord, Notify, TypeOK, LabelInv
<1>24. ASSUME NEW t \in Clients, SkipEqualItem(t) PROVE LabelInv'
  BY <1>24 DEF SkipEqualItem, At, Item, TypeOK, LabelInv
<1>25. ASSUME NEW t \in Clients, DeleteItem(t) PROVE LabelInv'
  BY <1>25 DEF DeleteItem, At, Item, ChangeRecord, Notify, TypeOK, LabelInv
<1>26. ASSUME NEW t \in Clients, DisableWritingItem(t) PROVE LabelInv'
  BY <1>26 DEF DisableWritingItem, At, Item, TypeOK, LabelInv
<1>27. ASSUME NEW t \in Clients, ReloadItem(t) PROVE LabelInv'
  BY <1>27 DEF ReloadItem, At, Goto, Item, TypeOK, LabelInv
<1>28. ASSUME NEW t \in Clients, ReloadResumes(t) PROVE LabelInv'
  BY <1>28 DEF ReloadResumes, At, Goto, TypeOK, LabelInv
<1>29. ASSUME NEW t \in Clients, FactoryResetItem(t) PROVE LabelInv'
  BY <1>29 DEF FactoryResetItem, At, Goto, Item, TypeOK, LabelInv
<1>30. ASSUME NEW t \in Clients, Reply(t) PROVE LabelInv'
  BY <1>30 DEF Reply, At, Goto, TypeOK, LabelInv
<1>31. ASSUME NEW t \in ResetTasks, ResetBegins(t) PROVE LabelInv'
  BY <1>31 DEF ResetBegins, At, Goto, TypeOK, LabelInv
<1>32. ASSUME NEW t \in ResetTasks, UnlinkCur(t) PROVE LabelInv'
  BY <1>32 DEF UnlinkCur, At, Goto, TypeOK, LabelInv
<1>33. ASSUME NEW t \in ResetTasks, UnlinkBak(t) PROVE LabelInv'
  BY <1>33 DEF UnlinkBak, At, Goto, TypeOK, LabelInv
<1>34. CASE UNCHANGED vars
  BY <1>34 DEF vars, LabelInv
<1> QED
  BY <1>1, <1>2, <1>3, <1>4, <1>5, <1>6, <1>7, <1>8, <1>9, <1>10, <1>11, <1>12, <1>13,
    <1>14, <1>15, <1>16, <1>17, <1>18, <1>19, <1>20, <1>21, <1>22, <1>23, <1>24, <1>25,
    <1>26, <1>27, <1>28, <1>29, <1>30, <1>31, <1>32, <1>33, <1>34
  DEF Next, TimerStep, TimerReturns, ClientStep, ResetStep, MainStep, Exited, SaveRoutine,
    LoadRoutine

\* the part about the locks and who holds them,
LEMMA LockInvStep == IInv /\ TypeOK' /\ [Next]_vars => LockInv'
<1> SUFFICES ASSUME IInv, TypeOK', [Next]_vars PROVE LockInv'
  OBVIOUS
<1> USE ThreadAssumption DEF IInv, files, flags, locks, history, Threads, Savers, Loaders,
  SaveSteps, FileOps, SaveEnds
<1>1. CASE TimerFires
  BY <1>1 DEF TimerFires, At, Goto, TypeOK, LabelInv, LockInv
<1>2. CASE TimerLocksAccess
  BY <1>2 DEF TimerLocksAccess, At, Goto, TypeOK, LabelInv, LockInv
<1>3. CASE TimerStartsSave
  BY <1>3 DEF TimerStartsSave, At, Goto, EnterSave, TypeOK, LabelInv, LockInv
<1>4. CASE TimerSkipsSave
  BY <1>4 DEF TimerSkipsSave, At, Goto, TypeOK, LabelInv, LockInv
<1>5. CASE TimerEndsSave
  BY <1>5 DEF TimerEndsSave, Goto, Free, TypeOK, LabelInv, LockInv
<1>6. CASE TimePasses
  BY <1>6 DEF TimePasses, TypeOK, LabelInv, LockInv
<1>7. CASE TermSignal
  BY <1>7 DEF TermSignal, TermServing, TermBooting, At, Goto, TypeOK, LabelInv, LockInv
<1>8. CASE Exit
  BY <1>8 DEF Exit, At, Goto, TypeOK, LabelInv, LockInv
<1>9. ASSUME NEW t \in Savers, CopyRecord(t) PROVE LockInv'
  BY <1>9 DEF CopyRecord, At, Goto, TypeOK, LabelInv, LockInv
<1>10. ASSUME NEW t \in Savers, SaveRegFileFails(t) PROVE LockInv'
  BY <1>10 DEF SaveRegFileFails, At, Goto, TypeOK, LabelInv, LockInv
<1>11. ASSUME NEW t \in Savers, OpenCur(t) PROVE LockInv'
  BY <1>11 DEF OpenCur, At, Goto, TypeOK, LabelInv, LockInv
<1>12. ASSUME NEW t \in Savers, WriteCur(t) PROVE LockInv'
  BY <1>12 DEF WriteCur, At, Goto, TypeOK, LabelInv, LockInv
<1>13. ASSUME NEW t \in Savers, OpenBak(t) PROVE LockInv'
  BY <1>13 DEF OpenBak, At, Goto, TypeOK, LabelInv, LockInv
<1>14. ASSUME NEW t \in Savers, WriteBak(t) PROVE LockInv'
  BY <1>14 DEF WriteBak, At, Goto, TypeOK, LabelInv, LockInv
<1>15. ASSUME NEW t \in Loaders, FlashLocks(t) PROVE LockInv'
  BY <1>15 DEF FlashLocks, At, Goto, EnterSave, TypeOK, LabelInv, LockInv
<1>16. ASSUME NEW t \in Loaders, FlashEnds(t) PROVE LockInv'
  BY <1>16 DEF FlashEnds, Goto, Free, TypeOK, LabelInv, LockInv
<1>17. ASSUME NEW t \in Loaders, LoadRead(t) PROVE LockInv'
  BY <1>17 DEF LoadRead, At, Goto, TypeOK, LabelInv, LockInv
<1>18. ASSUME NEW t \in Loaders, LoadParsed(t) PROVE LockInv'
  BY <1>18 DEF LoadParsed, At, Goto, TypeOK, LabelInv, LockInv
<1>19. ASSUME NEW t \in Loaders, ApplyRecord(t) PROVE LockInv'
  BY <1>19 DEF ApplyRecord, At, ChangeRecord, Notify, TypeOK, LabelInv, LockInv
<1>20. ASSUME NEW t \in Loaders, LoadEnds(t) PROVE LockInv'
  BY <1>20 DEF LoadEnds, At, Goto, Free, TypeOK, LabelInv, LockInv
<1>21. ASSUME NEW t \in Clients, Receive(t) PROVE LockInv'
  BY <1>21 DEF Receive, At, Goto, Serving, TypeOK, LabelInv, LockInv
<1>22. ASSUME NEW t \in Clients, LockThread(t) PROVE LockInv'
  BY <1>22 DEF LockThread, At, Goto, TypeOK, LabelInv, LockInv
<1>23. ASSUME NEW t \in Clients, WriteItem(t) PROVE LockInv'
  BY <1>23 DEF WriteItem, At, Item, ChangeRecord, Notify, TypeOK, LabelInv, LockInv
<1>24. ASSUME NEW t \in Clients, SkipEqualItem(t) PROVE LockInv'
  BY <1>24 DEF SkipEqualItem, At, Item, TypeOK, LabelInv, LockInv
<1>25. ASSUME NEW t \in Clients, DeleteItem(t) PROVE LockInv'
  BY <1>25 DEF DeleteItem, At, Item, ChangeRecord, Notify, TypeOK, LabelInv, LockInv
<1>26. ASSUME NEW t \in Clients, DisableWritingItem(t) PROVE LockInv'
  BY <1>26 DEF DisableWritingItem, At, Item, TypeOK, LabelInv, LockInv
<1>27. ASSUME NEW t \in Clients, ReloadItem(t) PROVE LockInv'
  BY <1>27 DEF ReloadItem, At, Goto, Item, TypeOK, LabelInv, LockInv
<1>28. ASSUME NEW t \in Clients, ReloadResumes(t) PROVE LockInv'
  BY <1>28 DEF ReloadResumes, At, Goto, TypeOK, LabelInv, LockInv
<1>29. ASSUME NEW t \in Clients, FactoryResetItem(t) PROVE LockInv'
  BY <1>29 DEF FactoryResetItem, At, Goto, Item, TypeOK, LabelInv, LockInv
<1>30. ASSUME NEW t \in Clients, Reply(t) PROVE LockInv'
  BY <1>30 DEF Reply, At, Goto, TypeOK, LabelInv, LockInv
<1>31. ASSUME NEW t \in ResetTasks, ResetBegins(t) PROVE LockInv'
  BY <1>31 DEF ResetBegins, At, Goto, TypeOK, LabelInv, LockInv
<1>32. ASSUME NEW t \in ResetTasks, UnlinkCur(t) PROVE LockInv'
  BY <1>32 DEF UnlinkCur, At, Goto, TypeOK, LabelInv, LockInv
<1>33. ASSUME NEW t \in ResetTasks, UnlinkBak(t) PROVE LockInv'
  BY <1>33 DEF UnlinkBak, At, Goto, TypeOK, LabelInv, LockInv
<1>34. CASE UNCHANGED vars
  BY <1>34 DEF vars, LockInv
<1> QED
  BY <1>1, <1>2, <1>3, <1>4, <1>5, <1>6, <1>7, <1>8, <1>9, <1>10, <1>11, <1>12, <1>13,
    <1>14, <1>15, <1>16, <1>17, <1>18, <1>19, <1>20, <1>21, <1>22, <1>23, <1>24, <1>25,
    <1>26, <1>27, <1>28, <1>29, <1>30, <1>31, <1>32, <1>33, <1>34
  DEF Next, TimerStep, TimerReturns, ClientStep, ResetStep, MainStep, Exited, SaveRoutine,
    LoadRoutine

\* the part about the boot,
LEMMA BootInvStep == IInv /\ TypeOK' /\ [Next]_vars => BootInv'
<1> SUFFICES ASSUME IInv, TypeOK', [Next]_vars PROVE BootInv'
  OBVIOUS
<1> USE ThreadAssumption DEF IInv, files, flags, locks, history, Threads, Savers, Loaders,
  SaveSteps, FileOps, SaveEnds
<1>1. CASE TimerFires
  BY <1>1 DEF TimerFires, At, Goto, TypeOK, LabelInv, LockInv, BootInv, Booting
<1>2. CASE TimerLocksAccess
  BY <1>2 DEF TimerLocksAccess, At, Goto, TypeOK, LabelInv, LockInv, BootInv, Booting
<1>3. CASE TimerStartsSave
  BY <1>3 DEF TimerStartsSave, At, Goto, EnterSave, TypeOK, LabelInv, LockInv, BootInv,
    Booting
<1>4. CASE TimerSkipsSave
  BY <1>4 DEF TimerSkipsSave, At, Goto, TypeOK, LabelInv, LockInv, BootInv, Booting
<1>5. CASE TimerEndsSave
  BY <1>5 DEF TimerEndsSave, Goto, Free, TypeOK, LabelInv, LockInv, BootInv, Booting
<1>6. CASE TimePasses
  BY <1>6 DEF TimePasses, TypeOK, LabelInv, LockInv, BootInv, Booting
<1>7. CASE TermSignal
  BY <1>7 DEF TermSignal, TermServing, TermBooting, At, Goto, TypeOK, LabelInv, LockInv,
    BootInv, Booting
<1>8. CASE Exit
  BY <1>8 DEF Exit, At, Goto, TypeOK, LabelInv, LockInv, BootInv, Booting
<1>9. ASSUME NEW t \in Savers, CopyRecord(t) PROVE BootInv'
  BY <1>9 DEF CopyRecord, At, Goto, TypeOK, LabelInv, LockInv, BootInv, Booting
<1>10. ASSUME NEW t \in Savers, SaveRegFileFails(t) PROVE BootInv'
  BY <1>10 DEF SaveRegFileFails, At, Goto, TypeOK, LabelInv, LockInv, BootInv, Booting
<1>11. ASSUME NEW t \in Savers, OpenCur(t) PROVE BootInv'
  BY <1>11 DEF OpenCur, At, Goto, TypeOK, LabelInv, LockInv, BootInv, Booting
<1>12. ASSUME NEW t \in Savers, WriteCur(t) PROVE BootInv'
  BY <1>12 DEF WriteCur, At, Goto, TypeOK, LabelInv, LockInv, BootInv, Booting
<1>13. ASSUME NEW t \in Savers, OpenBak(t) PROVE BootInv'
  BY <1>13 DEF OpenBak, At, Goto, TypeOK, LabelInv, LockInv, BootInv, Booting
<1>14. ASSUME NEW t \in Savers, WriteBak(t) PROVE BootInv'
  BY <1>14 DEF WriteBak, At, Goto, TypeOK, LabelInv, LockInv, BootInv, Booting
<1>15. ASSUME NEW t \in Loaders, FlashLocks(t) PROVE BootInv'
  BY <1>15 DEF FlashLocks, At, Goto, EnterSave, TypeOK, LabelInv, LockInv, BootInv, Booting
<1>16. ASSUME NEW t \in Loaders, FlashEnds(t) PROVE BootInv'
  BY <1>16 DEF FlashEnds, Goto, Free, TypeOK, LabelInv, LockInv, BootInv, Booting
<1>17. ASSUME NEW t \in Loaders, LoadRead(t) PROVE BootInv'
  BY <1>17 DEF LoadRead, At, Goto, TypeOK, LabelInv, LockInv, BootInv, Booting
<1>18. ASSUME NEW t \in Loaders, LoadParsed(t) PROVE BootInv'
  BY <1>18 DEF LoadParsed, At, Goto, TypeOK, LabelInv, LockInv, BootInv, Booting
<1>19. ASSUME NEW t \in Loaders, ApplyRecord(t) PROVE BootInv'
  BY <1>19 DEF ApplyRecord, At, ChangeRecord, Notify, TypeOK, LabelInv, LockInv, BootInv,
    Booting
<1>20. ASSUME NEW t \in Loaders, LoadEnds(t) PROVE BootInv'
  BY <1>20 DEF LoadEnds, At, Goto, Free, TypeOK, LabelInv, LockInv, BootInv, Booting
<1>21. ASSUME NEW t \in Clients, Receive(t) PROVE BootInv'
  BY <1>21 DEF Receive, At, Goto, Serving, TypeOK, LabelInv, LockInv, BootInv, Booting
<1>22. ASSUME NEW t \in Clients, LockThread(t) PROVE BootInv'
  BY <1>22 DEF LockThread, At, Goto, TypeOK, LabelInv, LockInv, BootInv, Booting
<1>23. ASSUME NEW t \in Clients, WriteItem(t) PROVE BootInv'
  BY <1>23 DEF WriteItem, At, Item, ChangeRecord, Notify, TypeOK, LabelInv, LockInv,
    BootInv, Booting
<1>24. ASSUME NEW t \in Clients, SkipEqualItem(t) PROVE BootInv'
  BY <1>24 DEF SkipEqualItem, At, Item, TypeOK, LabelInv, LockInv, BootInv, Booting
<1>25. ASSUME NEW t \in Clients, DeleteItem(t) PROVE BootInv'
  BY <1>25 DEF DeleteItem, At, Item, ChangeRecord, Notify, TypeOK, LabelInv, LockInv,
    BootInv, Booting
<1>26. ASSUME NEW t \in Clients, DisableWritingItem(t) PROVE BootInv'
  BY <1>26 DEF DisableWritingItem, At, Item, TypeOK, LabelInv, LockInv, BootInv, Booting
<1>27. ASSUME NEW t \in Clients, ReloadItem(t) PROVE BootInv'
  BY <1>27 DEF ReloadItem, At, Goto, Item, TypeOK, LabelInv, LockInv, BootInv, Booting
<1>28. ASSUME NEW t \in Clients, ReloadResumes(t) PROVE BootInv'
  BY <1>28 DEF ReloadResumes, At, Goto, TypeOK, LabelInv, LockInv, BootInv, Booting
<1>29. ASSUME NEW t \in Clients, FactoryResetItem(t) PROVE BootInv'
  BY <1>29 DEF FactoryResetItem, At, Goto, Item, TypeOK, LabelInv, LockInv, BootInv, Booting
<1>30. ASSUME NEW t \in Clients, Reply(t) PROVE BootInv'
  BY <1>30 DEF Reply, At, Goto, TypeOK, LabelInv, LockInv, BootInv, Booting
<1>31. ASSUME NEW t \in ResetTasks, ResetBegins(t) PROVE BootInv'
  BY <1>31 DEF ResetBegins, At, Goto, TypeOK, LabelInv, LockInv, BootInv, Booting
<1>32. ASSUME NEW t \in ResetTasks, UnlinkCur(t) PROVE BootInv'
  BY <1>32 DEF UnlinkCur, At, Goto, TypeOK, LabelInv, LockInv, BootInv, Booting
<1>33. ASSUME NEW t \in ResetTasks, UnlinkBak(t) PROVE BootInv'
  BY <1>33 DEF UnlinkBak, At, Goto, TypeOK, LabelInv, LockInv, BootInv, Booting
<1>34. CASE UNCHANGED vars
  BY <1>34 DEF vars, BootInv, Booting
<1> QED
  BY <1>1, <1>2, <1>3, <1>4, <1>5, <1>6, <1>7, <1>8, <1>9, <1>10, <1>11, <1>12, <1>13,
    <1>14, <1>15, <1>16, <1>17, <1>18, <1>19, <1>20, <1>21, <1>22, <1>23, <1>24, <1>25,
    <1>26, <1>27, <1>28, <1>29, <1>30, <1>31, <1>32, <1>33, <1>34
  DEF Next, TimerStep, TimerReturns, ClientStep, ResetStep, MainStep, Exited, SaveRoutine,
    LoadRoutine

\* and the part about the two copies.
LEMMA CopyInvStep == IInv /\ TypeOK' /\ [Next]_vars => CopyInv'
<1> SUFFICES ASSUME IInv, TypeOK', [Next]_vars PROVE CopyInv'
  OBVIOUS
<1> USE ThreadAssumption DEF IInv, files, flags, locks, history, Threads, Savers, Loaders,
  SaveSteps, FileOps, SaveEnds
<1>1. CASE TimerFires
  BY <1>1 DEF TimerFires, At, Goto, TypeOK, LabelInv, LockInv, BootInv, CopyInv, Booting,
    Config
<1>2. CASE TimerLocksAccess
  BY <1>2 DEF TimerLocksAccess, At, Goto, TypeOK, LabelInv, LockInv, BootInv, CopyInv,
    Booting, Config
<1>3. CASE TimerStartsSave
  BY <1>3 DEF TimerStartsSave, At, Goto, EnterSave, TypeOK, LabelInv, LockInv, BootInv,
    CopyInv, Booting, Config
<1>4. CASE TimerSkipsSave
  BY <1>4 DEF TimerSkipsSave, At, Goto, TypeOK, LabelInv, LockInv, BootInv, CopyInv,
    Booting, Config
<1>5. CASE TimerEndsSave
  BY <1>5 DEF TimerEndsSave, Goto, Free, TypeOK, LabelInv, LockInv, BootInv, CopyInv,
    Booting, Config
<1>6. CASE TimePasses
  BY <1>6 DEF TimePasses, TypeOK, LabelInv, LockInv, BootInv, CopyInv, Booting, Config
<1>7. CASE TermSignal
  BY <1>7 DEF TermSignal, TermServing, TermBooting, At, Goto, TypeOK, LabelInv, LockInv,
    BootInv, CopyInv, Booting,
    Config
<1>8. CASE Exit
  BY <1>8 DEF Exit, At, Goto, TypeOK, LabelInv, LockInv, BootInv, CopyInv, Booting, Config
<1>9. ASSUME NEW t \in Savers, CopyRecord(t) PROVE CopyInv'
  BY <1>9 DEF CopyRecord, At, Goto, TypeOK, LabelInv, LockInv, BootInv, CopyInv, Booting,
    Config
<1>10. ASSUME NEW t \in Savers, SaveRegFileFails(t) PROVE CopyInv'
  BY <1>10 DEF SaveRegFileFails, At, Goto, TypeOK, LabelInv, LockInv, BootInv, CopyInv,
    Booting, Config
<1>11. ASSUME NEW t \in Savers, OpenCur(t) PROVE CopyInv'
  BY <1>11 DEF OpenCur, At, Goto, TypeOK, LabelInv, LockInv, BootInv, CopyInv, Booting,
    Config
<1>12. ASSUME NEW t \in Savers, WriteCur(t) PROVE CopyInv'
  BY <1>12 DEF WriteCur, At, Goto, TypeOK, LabelInv, LockInv, BootInv, CopyInv, Booting,
    Config
<1>13. ASSUME NEW t \in Savers, OpenBak(t) PROVE CopyInv'
  BY <1>13 DEF OpenBak, At, Goto, TypeOK, LabelInv, LockInv, BootInv, CopyInv, Booting,
    Config
<1>14. ASSUME NEW t \in Savers, WriteBak(t) PROVE CopyInv'
  BY <1>14 DEF WriteBak, At, Goto, TypeOK, LabelInv, LockInv, BootInv, CopyInv, Booting,
    Config
<1>15. ASSUME NEW t \in Loaders, FlashLocks(t) PROVE CopyInv'
  BY <1>15 DEF FlashLocks, At, Goto, EnterSave, TypeOK, LabelInv, LockInv, BootInv,
    CopyInv, Booting, Config
<1>16. ASSUME NEW t \in Loaders, FlashEnds(t) PROVE CopyInv'
  BY <1>16 DEF FlashEnds, Goto, Free, TypeOK, LabelInv, LockInv, BootInv, CopyInv,
    Booting, Config
<1>17. ASSUME NEW t \in Loaders, LoadRead(t) PROVE CopyInv'
  BY <1>17 DEF LoadRead, At, Goto, TypeOK, LabelInv, LockInv, BootInv, CopyInv, Booting,
    Config
<1>18. ASSUME NEW t \in Loaders, LoadParsed(t) PROVE CopyInv'
  BY <1>18 DEF LoadParsed, At, Goto, TypeOK, LabelInv, LockInv, BootInv, CopyInv, Booting,
    Config
<1>19. ASSUME NEW t \in Loaders, ApplyRecord(t) PROVE CopyInv'
  BY <1>19 DEF ApplyRecord, At, ChangeRecord, Notify, TypeOK, LabelInv, LockInv, BootInv,
    CopyInv, Booting, Config
<1>20. ASSUME NEW t \in Loaders, LoadEnds(t) PROVE CopyInv'
  BY <1>20 DEF LoadEnds, At, Goto, Free, TypeOK, LabelInv, LockInv, BootInv, CopyInv,
    Booting, Config
<1>21. ASSUME NEW t \in Clients, Receive(t) PROVE CopyInv'
  BY <1>21 DEF Receive, At, Goto, Serving, TypeOK, LabelInv, LockInv, BootInv, CopyInv,
    Booting, Config
<1>22. ASSUME NEW t \in Clients, LockThread(t) PROVE CopyInv'
  BY <1>22 DEF LockThread, At, Goto, TypeOK, LabelInv, LockInv, BootInv, CopyInv, Booting,
    Config
<1>23. ASSUME NEW t \in Clients, WriteItem(t) PROVE CopyInv'
  BY <1>23 DEF WriteItem, At, Item, ChangeRecord, Notify, TypeOK, LabelInv, LockInv,
    BootInv, CopyInv, Booting, Config
<1>24. ASSUME NEW t \in Clients, SkipEqualItem(t) PROVE CopyInv'
  BY <1>24 DEF SkipEqualItem, At, Item, TypeOK, LabelInv, LockInv, BootInv, CopyInv,
    Booting, Config
<1>25. ASSUME NEW t \in Clients, DeleteItem(t) PROVE CopyInv'
  BY <1>25 DEF DeleteItem, At, Item, ChangeRecord, Notify, TypeOK, LabelInv, LockInv,
    BootInv, CopyInv, Booting, Config
<1>26. ASSUME NEW t \in Clients, DisableWritingItem(t) PROVE CopyInv'
  BY <1>26 DEF DisableWritingItem, At, Item, TypeOK, LabelInv, LockInv, BootInv, CopyInv,
    Booting, Config
<1>27. ASSUME NEW t \in Clients, ReloadItem(t) PROVE CopyInv'
  BY <1>27 DEF ReloadItem, At, Goto, Item, TypeOK, LabelInv, LockInv, BootInv, CopyInv,
    Booting, Config
<1>28. ASSUME NEW t \in Clients, ReloadResumes(t) PROVE CopyInv'
  BY <1>28 DEF ReloadResumes, At, Goto, TypeOK, LabelInv, LockInv, BootInv, CopyInv,
    Booting, Config
<1>29. ASSUME NEW t \in Clients, FactoryResetItem(t) PROVE CopyInv'
  BY <1>29 DEF FactoryResetItem, At, Goto, Item, TypeOK, LabelInv, LockInv, BootInv,
    CopyInv, Booting, Config
<1>30. ASSUME NEW t \in Clients, Reply(t) PROVE CopyInv'
  BY <1>30 DEF Reply, At, Goto, TypeOK, LabelInv, LockInv, BootInv, CopyInv, Booting, Config
<1>31. ASSUME NEW t \in ResetTasks, ResetBegins(t) PROVE CopyInv'
  BY <1>31 DEF ResetBegins, At, Goto, TypeOK, LabelInv, LockInv, BootInv, CopyInv,
    Booting, Config
<1>32. ASSUME NEW t \in ResetTasks, UnlinkCur(t) PROVE CopyInv'
  BY <1>32 DEF UnlinkCur, At, Goto, TypeOK, LabelInv, LockInv, BootInv, CopyInv, Booting,
    Config
<1>33. ASSUME NEW t \in ResetTasks, UnlinkBak(t) PROVE CopyInv'
  BY <1>33 DEF UnlinkBak, At, Goto, TypeOK, LabelInv, LockInv, BootInv, CopyInv, Booting,
    Config
<1>34. CASE UNCHANGED vars
  BY <1>34 DEF vars, CopyInv, Booting, Config
<1> QED
  BY <1>1, <1>2, <1>3, <1>4, <1>5, <1>6, <1>7, <1>8, <1>9, <1>10, <1>11, <1>12, <1>13,
    <1>14, <1>15, <1>16, <1>17, <1>18, <1>19, <1>20, <1>21, <1>22, <1>23, <1>24, <1>25,
    <1>26, <1>27, <1>28, <1>29, <1>30, <1>31, <1>32, <1>33, <1>34
  DEF Next, TimerStep, TimerReturns, ClientStep, ResetStep, MainStep, Exited, SaveRoutine,
    LoadRoutine

\* The initial states satisfy the invariant.
LEMMA InvInit == Init => IInv
<1> SUFFICES ASSUME Init PROVE IInv
  OBVIOUS
<1>1. /\ pc[Main] = "loadRead" /\ pc[Timer] = "idle"
      /\ \A t \in Clients \cup ResetTasks : pc[t] = "idle"
      /\ \A t \in Threads : cont[t] = "none"
  BY ThreadAssumption, ThreadFacts DEF Init, Threads
<1>2. LabelInv /\ LockInv
  BY <1>1, ThreadFacts DEF LabelInv, LockInv, Loaders, SaveSteps, FileOps, SaveEnds
<1>3. BootInv /\ CopyInv
  BY <1>1, ThreadAssumption, ThreadFacts
  DEF Init, BootInv, CopyInv, Booting, SaveSteps, FileOps, SaveEnds
<1> QED
  BY <1>2, <1>3, TypeInit DEF IInv

\* IInv is an inductive invariant of the protocol.
THEOREM Invariance == Spec => []IInv
<1>1. IInv /\ [Next]_vars => IInv'
  BY TypeStep, LabelInvStep, LockInvStep, BootInvStep, CopyInvStep DEF IInv
<1> QED
  BY <1>1, InvInit, PTL DEF Spec

\* Writing that a client has disabled (FileSyncRefCount above zero) never finds the
\* timer in the middle of a flush: RegTimerInvoke keeps ThreadLock from its test of
\* the count to the end of the save, and DisableWriting is set under ThreadLock.
THEOREM DisabledMeansNoFlushCorrect == Spec => []DisabledMeansNoFlush
<1>1. IInv => DisabledMeansNoFlush
  BY DEF IInv, LockInv, DisabledMeansNoFlush, Saving
<1> QED
  BY <1>1, Invariance, PTL

\* The timer writes the result of whole requests only, for any number of clients and
\* requests of any length: it copies the repository under ThreadLock.
THEOREM WholeRequestsSavedCorrect == Spec => []WholeRequestsSaved
<1>1. IInv => WholeRequestsSaved
  BY ThreadAssumption
  DEF IInv, LockInv, BootInv, CopyInv, WholeRequestsSaved, SaveSteps, FileOps, Threads
<1> QED
  BY <1>1, Invariance, PTL

\* Unless SIGTERM arrives after Engage, one thread at a time writes the files: a save
\* and a reload by a bus thread and the timer's save all hold ThreadLock, and only
\* Engage, or the handler that interrupts it, writes before the process serves requests.
THEOREM OneFileWriterCorrect ==
  ASSUME TermAllowed = FALSE
  PROVE  Spec => []OneFileWriter
<1> DEFINE NoTerm == /\ cont[Main] # "flash"
                     /\ pc[Main] = "flashLock" => cont[Main] = "bootFlash"
<1>1. Init => NoTerm
  BY ThreadFacts DEF Init
<1>2. IInv /\ NoTerm /\ [Next]_vars => NoTerm'
  <2> SUFFICES ASSUME IInv, NoTerm, [Next]_vars PROVE NoTerm'
    OBVIOUS
  <2> USE ThreadAssumption, ThreadFacts
      DEF IInv, TypeOK, locks, Threads, At, Goto, Free, EnterSave, SaveRoutine
  <2>1. CASE TimerStep
    BY <2>1 DEF TimerStep, TimerFires, TimerLocksAccess, TimerStartsSave, TimerSkipsSave,
      TimerEndsSave, CopyRecord, SaveRegFileFails, OpenCur, WriteCur, OpenBak, WriteBak
  <2>2. ASSUME NEW c \in Clients, Receive(c) \/ ClientStep(c) PROVE NoTerm'
    <3>1. CASE SaveRoutine(c) \/ LoadRoutine(c) \/ FlashLocks(c) \/ FlashEnds(c)
      BY <2>2, <3>1 DEF CopyRecord, SaveRegFileFails, OpenCur, WriteCur, OpenBak, WriteBak,
        LoadRoutine, LoadRead, LoadParsed, ApplyRecord, LoadEnds, FlashLocks, FlashEnds
    <3>2. CASE FactoryResetItem(c)
      BY <2>2, <3>2 DEF FactoryResetItem
    <3> QED
      BY <2>2, <3>1, <3>2 DEF ClientStep, Receive, LockThread, WriteItem, SkipEqualItem,
        DeleteItem, DisableWritingItem, ReloadItem, ReloadResumes, Reply
  <2>3. ASSUME NEW r \in ResetTasks, ResetStep(r) PROVE NoTerm'
    BY <2>3 DEF ResetStep, ResetBegins, UnlinkCur, UnlinkBak
  <2>4. CASE MainStep
    BY <2>4 DEF MainStep, LoadRoutine, LoadRead, LoadParsed, ApplyRecord, LoadEnds,
      FlashLocks, FlashEnds, Exit, CopyRecord, SaveRegFileFails, OpenCur, WriteCur, OpenBak,
      WriteBak
  <2>5. CASE TermSignal
    BY <2>5 DEF TermSignal, TermServing, TermBooting
  <2>6. CASE TimePasses \/ UNCHANGED vars
    BY <2>6 DEF TimePasses, vars
  <2> QED
    BY <2>1, <2>2, <2>3, <2>4, <2>5, <2>6 DEF Next, TimerReturns, Exited
<1>3. IInv /\ NoTerm => OneFileWriter
  <2> SUFFICES ASSUME IInv, NoTerm, NEW t \in Threads, NEW u \in Threads,
                      pc[t] \in FileOps, pc[u] \in FileOps
               PROVE  t = u
    BY DEF OneFileWriter
  <2> USE DEF IInv, LabelInv, LockInv, BootInv, Booting, SaveSteps, FileOps, SaveEnds,
    Threads
  <2>1. \A s \in {t, u} : s \notin ResetTasks
    OBVIOUS
  <2>2. CASE Main \in {t, u}
    BY <2>1, <2>2
  <2>3. CASE Main \notin {t, u}
    BY <2>1, <2>3
  <2> QED
    BY <2>2, <2>3
<1> QED
  BY <1>1, <1>2, <1>3, Invariance, PTL DEF Spec
=============================================================================
