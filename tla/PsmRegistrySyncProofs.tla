------------------------ MODULE PsmRegistrySyncProofs ------------------------
(***************************************************************************)
(* Proofs that the registry keeps memory and files in step: a change that  *)
(* is only in memory is always known to be (DirtyTracked), and the backup  *)
(* is a copy of the current file whenever nobody writes                    *)
(* (BackupMirrorsCurrent), over any number of saves, reloads and           *)
(* DisableWriting requests; and that the save of the SIGTERM handler stays *)
(* in one of the files until the process ends (TermKeepsACopy), although a *)
(* flush may follow it.                                                    *)
(***************************************************************************)
EXTENDS PsmRegistryProofs

\* What the two properties need: no call fails, the second signal handler never
\* runs beside a served bus, and no reset task removes the files.
Undisturbed == ResetTasks = {} /\ ~TermAllowed /\ MaxFaults = 0

Workers == Clients \cup {Timer}
Up      == pc[Main] = "up"

\* Who called the save routine, and that nothing has failed.
CallerInv ==
  /\ faults = 0
  /\ \A t \in Savers : pc[t] # "saveFailed"
  /\ cont[Main] # "flash" /\ pc[Main] # "exiting"
  /\ pc[Main] = "flashLock" => cont[Main] = "bootFlash"
  /\ \A t \in Loaders : cont[t] = "load" => pc[t] # "serialise"
  /\ \A t \in Clients :
       cont[t] \in (IF pc[t] \in SaveSteps THEN {"flash", "load"}
                    ELSE IF pc[t] = "apply" THEN {"load"} ELSE {"none"})

\* When changes are noticed: the flags, by who holds ThreadLock.
FlagInv ==
  /\ Booting => ~bSaveInProgress
  /\ pc[Main] = "exited" => bNoSave
  /\ Up /\ threadLock = NoThread => ~bNoSave /\ ~bSaveInProgress
  /\ pc[Timer] \in SaveSteps => ~bNoSave /\ bSaveInProgress
  /\ \A t \in Clients :
       /\ pc[t] \in {"item", "loadRead"} \/ cont[t] = "load" => ~bNoSave /\ ~bSaveInProgress
       /\ pc[t] \in {"flashLock", "reload"} => ~bSaveInProgress
       /\ cont[t] = "flash" => bSaveInProgress

\* What a save that is not ended by a signal has done to the two files.
FileInv == \A t \in Savers : cont[t] \in {"timer", "flash", "load"} =>
  /\ pc[t] = "writeCur" => cur = EmptyConfig
  /\ pc[t] \in {"openBak", "writeBak", "saved", "apply"} => cur = buf[t]
  /\ pc[t] = "writeBak" => bak = EmptyConfig
  /\ pc[t] \in {"saved", "apply"} => bak = cur

\* How a thread's buffer and the records agree: a save has copied the records, and a
\* load has put back all that it has applied and lost none.
BufferInv ==
  /\ \A t \in Workers : cont[t] \in {"timer", "flash"} =>
       /\ pc[t] = "serialise" => \A p \in Params \ todo[t] : buf[t][p] = repo[p]
       /\ pc[t] \in FileOps \cup {"saved"} => buf[t] = repo
  /\ \A t \in Loaders : cont[t] = "load" =>
       /\ pc[t] \in FileOps \cup {"saved"} =>
            \A p \in Params : buf[t][p] = Absent => repo[p] = Absent
       /\ pc[t] = "apply" => \A p \in Params \ todo[t] : repo[p] = buf[t][p]
  /\ pc[Main] = "loadRead" => repo = EmptyConfig
  /\ \A t \in Clients : pc[t] \in {"reload", "loadRead"} => cur = repo

\* Between saves the files agree, and with the records unless the dirty flag is up.
RestInv == Up =>
  /\ cur # NoFile
  /\ (\A t \in Workers : pc[t] \notin {"writeCur", "openBak", "writeBak"}) => bak = cur
  /\ (\A t \in Workers : pc[t] \notin SaveSteps \cup {"loadRead", "apply"}) =>
       bNeedFlush \/ cur = repo

\* What applying one record of a load changes.
Applied(t, p) ==
  /\ p \in Params
  /\ todo'[t] = todo[t] \ {p}
  /\ \A q \in Params : repo'[q] = IF q = p THEN buf[t][p] ELSE repo[q]
  /\ \A u \in Threads : u # t => todo'[u] = todo[u]

SyncInv == CallerInv /\ FlagInv /\ FileInv /\ BufferInv /\ RestInv

-----------------------------------------------------------------------------

\* A write to an empty file leaves what is written, and merging defaults loses no
\* record.
LEMMA FileFacts ==
  /\ \A c \in Config : Over(c, EmptyConfig) = {c}
  /\ \A c \in Config, p \in Params : Merge(c)[p] = Absent => c[p] = Absent
  /\ \A c, d \in Config : (\A p \in Params : c[p] = d[p]) => c = d
  /\ \A p \in Params : EmptyConfig[p] = Absent
<1>1. ASSUME NEW c \in Config, NEW d \in Config, \A p \in Params : c[p] = d[p] PROVE c = d
  BY <1>1 DEF Config
<1>2. ASSUME NEW c \in Config PROVE Over(c, EmptyConfig) = {c}
  <2>1. c \in Over(c, EmptyConfig)
    BY DEF Over
  <2>2. ASSUME NEW m \in Over(c, EmptyConfig) PROVE m = c
    <3>1. m \in Config /\ \A p \in Params : m[p] = c[p]
      BY <2>2 DEF Over, EmptyConfig
    <3> QED
      BY <3>1, <1>1
  <2> QED
    BY <2>1, <2>2
<1> QED
  BY <1>1, <1>2 DEF Merge, EmptyConfig

\* Threads that work on the records or the files hold ThreadLock; while Engage
\* loads, or a signal has interrupted it, there are none.
LEMMA OneWorker ==
  ASSUME IInv, Undisturbed
  PROVE  /\ \A t, u \in Workers :
              /\ pc[t] \in SaveSteps \cup {"item", "flashLock", "reload", "loadRead", "apply"}
              /\ pc[u] \in SaveSteps \cup {"item", "flashLock", "reload", "loadRead", "apply"}
              => t = u
         /\ \A t \in Workers :
              pc[t] \in SaveSteps \cup {"item", "flashLock", "reload", "loadRead", "apply"} =>
                threadLock = t /\ ~Booting /\ cont[Main] # "bootFlash"
  BY DEF IInv, LabelInv, LockInv, BootInv, Workers, SaveSteps, FileOps, SaveEnds

\* No two threads are in the save routine or loading.
LEMMA OneSaver ==
  ASSUME IInv, CallerInv, Undisturbed, NEW t \in Savers, NEW u \in Savers,
         pc[t] \in SaveSteps \cup {"reload", "loadRead", "apply"},
         pc[u] \in SaveSteps \cup {"reload", "loadRead", "apply"}
  PROVE  t = u
<1> USE DEF Savers, Workers
<1>1. CASE t \in Workers /\ u \in Workers
  BY <1>1, OneWorker
<1>2. CASE t = Main \/ u = Main
  <2>1. Booting \/ cont[Main] = "bootFlash"
    BY <1>2 DEF IInv, LabelInv, LockInv, BootInv, CallerInv, Booting, SaveSteps, FileOps,
        SaveEnds
  <2> QED
    BY <1>2, <2>1 DEF IInv, BootInv, SaveSteps, FileOps, SaveEnds
<1> QED
  BY <1>1, <1>2

\* Copying one record during a save.
LEMMA CopyEffect ==
  ASSUME TypeOK, NEW t \in Threads, CopyRecord(t)
  PROVE  \E p \in todo[t] :
           /\ p \in Params
           /\ pc'[t] = (IF todo[t] = {p} THEN "openCur" ELSE "serialise")
           /\ todo'[t] = todo[t] \ {p}
           /\ \A q \in Params : buf'[t][q] = IF q = p THEN repo[p] ELSE buf[t][q]
           /\ \A u \in Threads : u # t =>
                pc'[u] = pc[u] /\ buf'[u] = buf[u] /\ todo'[u] = todo[u]
<1>1. PICK p \in todo[t] :
        /\ buf' = [buf EXCEPT ![t][p] = repo[p]]
        /\ todo' = [todo EXCEPT ![t] = @ \ {p}]
        /\ Goto(t, IF todo[t] = {p} THEN "openCur" ELSE "serialise")
  BY DEF CopyRecord
<1>2. p \in Params /\ buf[t] \in Config
  BY DEF TypeOK
<1>3. \A q \in Params : buf'[t][q] = IF q = p THEN repo[p] ELSE buf[t][q]
  BY <1>1, <1>2 DEF TypeOK, Config
<1> QED
  BY <1>1, <1>2, <1>3 DEF TypeOK, Goto

\* Putting one record of a load back changes that record and what is left to do.
LEMMA ApplyEffect ==
  \A t \in Threads : TypeOK /\ ApplyRecord(t) => \E p \in todo[t] : Applied(t, p)
<1> SUFFICES ASSUME NEW t \in Threads, TypeOK, ApplyRecord(t)
             PROVE  \E p \in todo[t] : Applied(t, p)
  OBVIOUS
<1>1. PICK p \in todo[t] :
        /\ repo' = [repo EXCEPT ![p] = buf[t][p]]
        /\ todo' = [todo EXCEPT ![t] = @ \ {p}]
  BY DEF ApplyRecord, ChangeRecord
<1>2. p \in Params
  BY DEF TypeOK
<1>3. Applied(t, p)
  BY <1>1, <1>2 DEF TypeOK, Config, Applied
<1> QED
  BY <1>3

\* Without reset tasks, failing calls and SIGTERM after boot.
LEMMA UndisturbedNext ==
  ASSUME Undisturbed, CallerInv, [Next]_vars
  PROVE  \/ TimerFires \/ TimerLocksAccess \/ TimerStartsSave \/ TimerSkipsSave
         \/ TimerEndsSave \/ TimePasses \/ TermBooting \/ UNCHANGED vars
         \/ \E t \in Savers :
              CopyRecord(t) \/ OpenCur(t) \/ WriteCur(t) \/ OpenBak(t) \/ WriteBak(t)
         \/ \E t \in Loaders :
              FlashLocks(t) \/ FlashEnds(t) \/ LoadRead(t) \/ LoadParsed(t)
                \/ ApplyRecord(t) \/ LoadEnds(t)
         \/ \E t \in Clients :
              Receive(t) \/ LockThread(t) \/ WriteItem(t) \/ SkipEqualItem(t)
                \/ DeleteItem(t) \/ DisableWritingItem(t) \/ ReloadItem(t)
                \/ ReloadResumes(t) \/ FactoryResetItem(t) \/ Reply(t)
<1>1. ~MayFail
  BY DEF MayFail, Undisturbed, CallerInv
<1>2. \A t \in ResetTasks : ~ResetStep(t)
  BY DEF Undisturbed
<1>3. ~TermServing
  BY DEF TermServing, Undisturbed
<1>4. ~Exit
  BY DEF Exit, At, CallerInv
<1>5. \A t \in Savers : ~SaveRegFileFails(t)
  BY <1>1 DEF SaveRegFileFails
<1> QED
  BY <1>1, <1>2, <1>3, <1>4, <1>5 DEF Next, TimerStep, TimerReturns, ClientStep, MainStep,
    TermSignal, Exited, SaveRoutine, LoadRoutine, Savers, Loaders, vars

\* Each caller of the save routine is told apart by cont.
LEMMA CallerInvStep == Undisturbed /\ IInv /\ IInv' /\ SyncInv /\ [Next]_vars => CallerInv'
<1> SUFFICES ASSUME Undisturbed, IInv, IInv', SyncInv, [Next]_vars PROVE CallerInv'
  OBVIOUS
<1> USE ThreadAssumption
    DEF Undisturbed, IInv, SyncInv, Workers, Savers, Loaders, files, flags, locks, history,
        Threads, SaveSteps, FileOps, SaveEnds, TypeOK, LabelInv, LockInv, BootInv, Booting,
        CallerInv, MayFail
<1>1. CASE TimerFires
  BY <1>1 DEF TimerFires, At, Goto
<1>2. CASE TimerLocksAccess
  BY <1>2 DEF TimerLocksAccess, At, Goto
<1>3. CASE TimerStartsSave
  BY <1>3 DEF TimerStartsSave, EnterSave, At, Goto
<1>4. CASE TimerSkipsSave
  BY <1>4 DEF TimerSkipsSave, At, Goto
<1>5. CASE TimerEndsSave
  BY <1>5 DEF TimerEndsSave, Goto, Free
<1>6. CASE TimePasses
  BY <1>6 DEF TimePasses
<1>7. CASE TermBooting
  BY <1>7 DEF TermBooting, Goto
<1>8. ASSUME NEW t \in Savers, CopyRecord(t) PROVE CallerInv'
  BY <1>8 DEF CopyRecord, At, Goto
<1>9. ASSUME NEW t \in Savers, OpenCur(t) PROVE CallerInv'
  BY <1>9 DEF OpenCur, At, Goto
<1>10. ASSUME NEW t \in Savers, WriteCur(t) PROVE CallerInv'
  BY <1>10 DEF WriteCur, At, Goto
<1>11. ASSUME NEW t \in Savers, OpenBak(t) PROVE CallerInv'
  BY <1>11 DEF OpenBak, At, Goto
<1>12. ASSUME NEW t \in Savers, WriteBak(t) PROVE CallerInv'
  BY <1>12 DEF WriteBak, At, Goto
<1>13. ASSUME NEW t \in Loaders, FlashLocks(t) PROVE CallerInv'
  BY <1>13 DEF FlashLocks, EnterSave, At, Goto
<1>14. ASSUME NEW t \in Loaders, FlashEnds(t) PROVE CallerInv'
  BY <1>14 DEF FlashEnds, Goto, Free
<1>15. ASSUME NEW t \in Loaders, LoadRead(t) PROVE CallerInv'
  BY <1>15 DEF LoadRead, At, Goto
<1>16. ASSUME NEW t \in Loaders, LoadParsed(t) PROVE CallerInv'
  BY <1>16 DEF LoadParsed, At, Goto
<1>17. ASSUME NEW t \in Loaders, ApplyRecord(t) PROVE CallerInv'
  BY <1>17 DEF ApplyRecord, At, ChangeRecord, Notify
<1>18. ASSUME NEW t \in Loaders, LoadEnds(t) PROVE CallerInv'
  BY <1>18 DEF LoadEnds, At, Goto, Free
<1>19. ASSUME NEW t \in Clients, Receive(t) PROVE CallerInv'
  BY <1>19 DEF Receive, At, Goto, Serving
<1>20. ASSUME NEW t \in Clients, LockThread(t) PROVE CallerInv'
  BY <1>20 DEF LockThread, At, Goto
<1>21. ASSUME NEW t \in Clients, WriteItem(t) PROVE CallerInv'
  BY <1>21 DEF WriteItem, Item, At, ChangeRecord, Notify
<1>22. ASSUME NEW t \in Clients, SkipEqualItem(t) PROVE CallerInv'
  BY <1>22 DEF SkipEqualItem, Item, At
<1>23. ASSUME NEW t \in Clients, DeleteItem(t) PROVE CallerInv'
  BY <1>23 DEF DeleteItem, Item, At, ChangeRecord, Notify
<1>24. ASSUME NEW t \in Clients, DisableWritingItem(t) PROVE CallerInv'
  BY <1>24 DEF DisableWritingItem, Item, At
<1>25. ASSUME NEW t \in Clients, ReloadItem(t) PROVE CallerInv'
  BY <1>25 DEF ReloadItem, Item, At, Goto
<1>26. ASSUME NEW t \in Clients, ReloadResumes(t) PROVE CallerInv'
  BY <1>26 DEF ReloadResumes, At, Goto
<1>27. ASSUME NEW t \in Clients, FactoryResetItem(t) PROVE CallerInv'
  BY <1>27 DEF FactoryResetItem, Item, At
<1>28. ASSUME NEW t \in Clients, Reply(t) PROVE CallerInv'
  BY <1>28 DEF Reply, At, Goto
<1>29. CASE UNCHANGED vars
  BY <1>29 DEF vars
<1> QED
  BY <1>1, <1>2, <1>3, <1>4, <1>5, <1>6, <1>7, <1>8, <1>9, <1>10, <1>11, <1>12, <1>13,
     <1>14, <1>15, <1>16, <1>17, <1>18, <1>19, <1>20, <1>21, <1>22, <1>23, <1>24,
     <1>25, <1>26, <1>27, <1>28, <1>29, UndisturbedNext
  DEF Loaders, Savers

\* The flags are down whenever a client may change records.
LEMMA FlagInvStep == Undisturbed /\ IInv /\ IInv' /\ SyncInv /\ [Next]_vars => FlagInv'
<1> SUFFICES ASSUME Undisturbed, IInv, IInv', SyncInv, [Next]_vars PROVE FlagInv'
  OBVIOUS
<1> USE ThreadAssumption, OneWorker
    DEF Undisturbed, IInv, SyncInv, Workers, Savers, Loaders, files, flags, locks, history,
        Threads, SaveSteps, FileOps, SaveEnds, TypeOK, LabelInv, LockInv, BootInv, Booting,
        CallerInv, MayFail, FlagInv, Up, Alive
<1>1. CASE TimerFires
  BY <1>1 DEF TimerFires, At, Goto
<1>2. CASE TimerLocksAccess
  BY <1>2 DEF TimerLocksAccess, At, Goto
<1>3. CASE TimerStartsSave
  BY <1>3 DEF TimerStartsSave, EnterSave, At, Goto
<1>4. CASE TimerSkipsSave
  BY <1>4 DEF TimerSkipsSave, At, Goto
<1>5. CASE TimerEndsSave
  BY <1>5 DEF TimerEndsSave, Goto, Free
<1>6. CASE TimePasses
  BY <1>6 DEF TimePasses
<1>7. CASE TermBooting
  BY <1>7 DEF TermBooting, Goto
<1>8. ASSUME NEW t \in Savers, CopyRecord(t) PROVE FlagInv'
  BY <1>8 DEF CopyRecord, At, Goto
<1>9. ASSUME NEW t \in Savers, OpenCur(t) PROVE FlagInv'
  BY <1>9 DEF OpenCur, At, Goto
<1>10. ASSUME NEW t \in Savers, WriteCur(t) PROVE FlagInv'
  BY <1>10 DEF WriteCur, At, Goto
<1>11. ASSUME NEW t \in Savers, OpenBak(t) PROVE FlagInv'
  BY <1>11 DEF OpenBak, At, Goto
<1>12. ASSUME NEW t \in Savers, WriteBak(t) PROVE FlagInv'
  BY <1>12 DEF WriteBak, At, Goto
<1>13. ASSUME NEW t \in Loaders, FlashLocks(t) PROVE FlagInv'
  BY <1>13 DEF FlashLocks, EnterSave, At, Goto
<1>14. ASSUME NEW t \in Loaders, FlashEnds(t) PROVE FlagInv'
  BY <1>14 DEF FlashEnds, Goto, Free
<1>15. ASSUME NEW t \in Loaders, LoadRead(t) PROVE FlagInv'
  BY <1>15 DEF LoadRead, At, Goto
<1>16. ASSUME NEW t \in Loaders, LoadParsed(t) PROVE FlagInv'
  BY <1>16 DEF LoadParsed, At, Goto
<1>17. ASSUME NEW t \in Loaders, ApplyRecord(t) PROVE FlagInv'
  BY <1>17 DEF ApplyRecord, At, ChangeRecord, Notify
<1>18. ASSUME NEW t \in Loaders, LoadEnds(t) PROVE FlagInv'
  BY <1>18 DEF LoadEnds, At, Goto, Free
<1>19. ASSUME NEW t \in Clients, Receive(t) PROVE FlagInv'
  BY <1>19 DEF Receive, At, Goto, Serving
<1>20. ASSUME NEW t \in Clients, LockThread(t) PROVE FlagInv'
  BY <1>20 DEF LockThread, At, Goto
<1>21. ASSUME NEW t \in Clients, WriteItem(t) PROVE FlagInv'
  BY <1>21 DEF WriteItem, Item, At, ChangeRecord, Notify
<1>22. ASSUME NEW t \in Clients, SkipEqualItem(t) PROVE FlagInv'
  BY <1>22 DEF SkipEqualItem, Item, At
<1>23. ASSUME NEW t \in Clients, DeleteItem(t) PROVE FlagInv'
  BY <1>23 DEF DeleteItem, Item, At, ChangeRecord, Notify
<1>24. ASSUME NEW t \in Clients, DisableWritingItem(t) PROVE FlagInv'
  BY <1>24 DEF DisableWritingItem, Item, At
<1>25. ASSUME NEW t \in Clients, ReloadItem(t) PROVE FlagInv'
  BY <1>25 DEF ReloadItem, Item, At, Goto
<1>26. ASSUME NEW t \in Clients, ReloadResumes(t) PROVE FlagInv'
  BY <1>26 DEF ReloadResumes, At, Goto
<1>27. ASSUME NEW t \in Clients, FactoryResetItem(t) PROVE FlagInv'
  BY <1>27 DEF FactoryResetItem, Item, At
<1>28. ASSUME NEW t \in Clients, Reply(t) PROVE FlagInv'
  BY <1>28 DEF Reply, At, Goto
<1>29. CASE UNCHANGED vars
  BY <1>29 DEF vars
<1> QED
  BY <1>1, <1>2, <1>3, <1>4, <1>5, <1>6, <1>7, <1>8, <1>9, <1>10, <1>11, <1>12, <1>13,
     <1>14, <1>15, <1>16, <1>17, <1>18, <1>19, <1>20, <1>21, <1>22, <1>23, <1>24,
     <1>25, <1>26, <1>27, <1>28, <1>29, UndisturbedNext
  DEF Loaders, Savers

\* Opening truncates a file, writing fills it with the buffer.
LEMMA FileInvStep == Undisturbed /\ IInv /\ IInv' /\ SyncInv /\ [Next]_vars => FileInv'
<1> SUFFICES ASSUME Undisturbed, IInv, IInv', SyncInv, [Next]_vars PROVE FileInv'
  OBVIOUS
<1> USE ThreadAssumption, OneWorker, FileFacts, ConfigFacts
    DEF Undisturbed, IInv, SyncInv, Workers, Savers, Loaders, files, flags, locks, history,
        Threads, SaveSteps, FileOps, SaveEnds, TypeOK, LabelInv, LockInv, BootInv, Booting,
        CallerInv, MayFail, FileInv
<1>1. CASE TimerFires
  BY <1>1 DEF TimerFires, At, Goto
<1>2. CASE TimerLocksAccess
  BY <1>2 DEF TimerLocksAccess, At, Goto
<1>3. CASE TimerStartsSave
  BY <1>3 DEF TimerStartsSave, EnterSave, At, Goto
<1>4. CASE TimerSkipsSave
  BY <1>4 DEF TimerSkipsSave, At, Goto
<1>5. CASE TimerEndsSave
  BY <1>5 DEF TimerEndsSave, Goto, Free
<1>6. CASE TimePasses
  BY <1>6 DEF TimePasses
<1>7. CASE TermBooting
  BY <1>7 DEF TermBooting, Goto
<1>8. ASSUME NEW t \in Savers, CopyRecord(t) PROVE FileInv'
  BY <1>8 DEF CopyRecord, At, Goto
<1>9. ASSUME NEW t \in Savers, OpenCur(t) PROVE FileInv'
  BY <1>9 DEF OpenCur, At, Goto
<1>10. ASSUME NEW t \in Savers, WriteCur(t) PROVE FileInv'
  <2>1. \A u \in Savers : u # t => pc[u] \notin SaveSteps \cup {"apply"}
    BY <1>10, OneSaver DEF WriteCur, At
  <2>2. pc'[t] = "openBak" /\ \A u \in Savers : u # t => pc'[u] = pc[u]
    BY <1>10 DEF WriteCur, Goto
  <2>3. UNCHANGED <<buf, bak, cont>>
    BY <1>10 DEF WriteCur
  <2>4. cont[t] \in {"timer", "flash", "load"} => cur' = buf[t]
    <3> SUFFICES ASSUME cont[t] \in {"timer", "flash", "load"} PROVE cur' = buf[t]
      OBVIOUS
    <3>1. cur = EmptyConfig /\ buf[t] \in Config
      BY <1>10 DEF WriteCur, At, FileInv
    <3>2. cur # NoFile
      BY <3>1, ConfigFacts, DataAssumption
    <3>3. cur' \in Over(buf[t], EmptyConfig)
      BY <1>10, <3>1, <3>2 DEF WriteCur
    <3> QED
      BY <3>1, <3>3, FileFacts
  <2> QED
    BY <2>1, <2>2, <2>3, <2>4 DEF FileInv
<1>11. ASSUME NEW t \in Savers, OpenBak(t) PROVE FileInv'
  <2>1. \A u \in Savers : u # t => pc[u] \notin SaveSteps \cup {"apply"}
    BY <1>11, OneSaver DEF OpenBak, At
  <2>2. /\ pc'[t] \in {"writeBak", "saved"} /\ \A u \in Savers : u # t => pc'[u] = pc[u]
        /\ pc'[t] = "writeBak" => bak' = EmptyConfig
    BY <1>11 DEF OpenBak, Goto
  <2>3. UNCHANGED <<buf, cur, cont>>
    BY <1>11 DEF OpenBak
  <2>4. cont[t] \in {"timer", "flash", "load"} => cur = buf[t] /\ pc'[t] = "writeBak"
    <3> SUFFICES ASSUME cont[t] \in {"timer", "flash", "load"}
                 PROVE  cur = buf[t] /\ pc'[t] = "writeBak"
      OBVIOUS
    <3>1. cur = buf[t] /\ buf[t] \in Config
      BY <1>11 DEF OpenBak, At, FileInv
    <3>2. cur # NoFile
      BY <3>1, DataAssumption
    <3> QED
      BY <1>11, <3>1, <3>2 DEF OpenBak, Goto
  <2> QED
    BY <2>1, <2>2, <2>3, <2>4 DEF FileInv
<1>12. ASSUME NEW t \in Savers, WriteBak(t) PROVE FileInv'
  <2>1. \A u \in Savers : u # t => pc[u] \notin SaveSteps \cup {"apply"}
    BY <1>12, OneSaver DEF WriteBak, At
  <2>2. pc'[t] = "saved" /\ \A u \in Savers : u # t => pc'[u] = pc[u]
    BY <1>12 DEF WriteBak, Goto
  <2>3. UNCHANGED <<buf, cur, cont>>
    BY <1>12 DEF WriteBak
  <2>4. cont[t] \in {"timer", "flash", "load"} => cur = buf[t] /\ bak' = cur
    <3> SUFFICES ASSUME cont[t] \in {"timer", "flash", "load"} PROVE cur = buf[t] /\ bak' = cur
      OBVIOUS
    <3>1. cur = buf[t] /\ bak = EmptyConfig /\ buf[t] \in Config
      BY <1>12 DEF WriteBak, At, FileInv
    <3>2. Mapped(t) = {buf[t]} /\ bak # NoFile
      BY <3>1, ConfigFacts, DataAssumption DEF Mapped
    <3>3. bak' \in Over(buf[t], EmptyConfig)
      BY <1>12, <3>1, <3>2 DEF WriteBak
    <3> QED
      BY <3>1, <3>3, FileFacts
  <2> QED
    BY <2>1, <2>2, <2>3, <2>4 DEF FileInv
<1>13. ASSUME NEW t \in Loaders, FlashLocks(t) PROVE FileInv'
  BY <1>13 DEF FlashLocks, EnterSave, At, Goto
<1>14. ASSUME NEW t \in Loaders, FlashEnds(t) PROVE FileInv'
  BY <1>14 DEF FlashEnds, Goto, Free
<1>15. ASSUME NEW t \in Loaders, LoadRead(t) PROVE FileInv'
  BY <1>15 DEF LoadRead, At, Goto
<1>16. ASSUME NEW t \in Loaders, LoadParsed(t) PROVE FileInv'
  BY <1>16 DEF LoadParsed, At, Goto
<1>17. ASSUME NEW t \in Loaders, ApplyRecord(t) PROVE FileInv'
  BY <1>17 DEF ApplyRecord, At, ChangeRecord, Notify
<1>18. ASSUME NEW t \in Loaders, LoadEnds(t) PROVE FileInv'
  BY <1>18 DEF LoadEnds, At, Goto, Free
<1>19. ASSUME NEW t \in Clients, Receive(t) PROVE FileInv'
  BY <1>19 DEF Receive, At, Goto, Serving
<1>20. ASSUME NEW t \in Clients, LockThread(t) PROVE FileInv'
  BY <1>20 DEF LockThread, At, Goto
<1>21. ASSUME NEW t \in Clients, WriteItem(t) PROVE FileInv'
  BY <1>21 DEF WriteItem, Item, At, ChangeRecord, Notify
<1>22. ASSUME NEW t \in Clients, SkipEqualItem(t) PROVE FileInv'
  BY <1>22 DEF SkipEqualItem, Item, At
<1>23. ASSUME NEW t \in Clients, DeleteItem(t) PROVE FileInv'
  BY <1>23 DEF DeleteItem, Item, At, ChangeRecord, Notify
<1>24. ASSUME NEW t \in Clients, DisableWritingItem(t) PROVE FileInv'
  BY <1>24 DEF DisableWritingItem, Item, At
<1>25. ASSUME NEW t \in Clients, ReloadItem(t) PROVE FileInv'
  BY <1>25 DEF ReloadItem, Item, At, Goto
<1>26. ASSUME NEW t \in Clients, ReloadResumes(t) PROVE FileInv'
  BY <1>26 DEF ReloadResumes, At, Goto
<1>27. ASSUME NEW t \in Clients, FactoryResetItem(t) PROVE FileInv'
  BY <1>27 DEF FactoryResetItem, Item, At
<1>28. ASSUME NEW t \in Clients, Reply(t) PROVE FileInv'
  BY <1>28 DEF Reply, At, Goto
<1>29. CASE UNCHANGED vars
  BY <1>29 DEF vars
<1> QED
  BY <1>1, <1>2, <1>3, <1>4, <1>5, <1>6, <1>7, <1>8, <1>9, <1>10, <1>11, <1>12, <1>13,
     <1>14, <1>15, <1>16, <1>17, <1>18, <1>19, <1>20, <1>21, <1>22, <1>23, <1>24,
     <1>25, <1>26, <1>27, <1>28, <1>29, UndisturbedNext
  DEF Loaders, Savers

\* Copying fills the buffer with the records, and applying fills the records with
\* the buffer.
LEMMA BufferInvStep == Undisturbed /\ IInv /\ IInv' /\ SyncInv /\ [Next]_vars => BufferInv'
<1> SUFFICES ASSUME Undisturbed, IInv, IInv', SyncInv, [Next]_vars PROVE BufferInv'
  OBVIOUS
<1> USE ThreadAssumption, OneWorker, FileFacts, ConfigFacts
    DEF Undisturbed, IInv, SyncInv, Workers, Savers, Loaders, files, flags, locks, history,
        Threads, SaveSteps, FileOps, SaveEnds, TypeOK, LabelInv, LockInv, BootInv, Booting,
        CallerInv, MayFail, BufferInv
<1>1. CASE TimerFires
  BY <1>1 DEF TimerFires, At, Goto
<1>2. CASE TimerLocksAccess
  BY <1>2 DEF TimerLocksAccess, At, Goto
<1>3. CASE TimerStartsSave
  BY <1>3 DEF TimerStartsSave, EnterSave, At, Goto
<1>4. CASE TimerSkipsSave
  BY <1>4 DEF TimerSkipsSave, At, Goto
<1>5. CASE TimerEndsSave
  BY <1>5 DEF TimerEndsSave, Goto, Free
<1>6. CASE TimePasses
  BY <1>6 DEF TimePasses
<1>7. CASE TermBooting
  BY <1>7 DEF TermBooting, Goto
<1>8. ASSUME NEW t \in Savers, CopyRecord(t) PROVE BufferInv'
  <2>1. PICK p \in todo[t] :
          /\ p \in Params
          /\ pc'[t] = (IF todo[t] = {p} THEN "openCur" ELSE "serialise")
          /\ todo'[t] = todo[t] \ {p}
          /\ \A q \in Params : buf'[t][q] = IF q = p THEN repo[p] ELSE buf[t][q]
          /\ \A u \in Threads : u # t =>
               pc'[u] = pc[u] /\ buf'[u] = buf[u] /\ todo'[u] = todo[u]
    BY <1>8, CopyEffect
  <2>2. UNCHANGED <<repo, cur, cont>> /\ pc[t] = "serialise"
    BY <1>8 DEF CopyRecord, At
  <2>3. cont[t] # "load"
    BY <2>2
  <2>4. ASSUME t \in Workers, cont[t] \in {"timer", "flash"}
        PROVE  \A q \in Params \ todo'[t] : buf'[t][q] = repo[q]
    BY <2>1, <2>2, <2>4 DEF BufferInv
  <2>5. ASSUME t \in Workers, cont[t] \in {"timer", "flash"}, pc'[t] = "openCur"
        PROVE  buf'[t] = repo
    <3>1. todo'[t] = {}
      BY <2>1, <2>5
    <3>2. buf'[t] \in Config
      OBVIOUS
    <3> QED
      BY <2>4, <2>5, <3>1, <3>2, FileFacts
  <2>6. pc'[t] \in {"openCur", "serialise"}
    BY <2>1
  <2>7. ASSUME NEW u \in Workers, cont'[u] \in {"timer", "flash"}
        PROVE  /\ pc'[u] = "serialise" => \A q \in Params \ todo'[u] : buf'[u][q] = repo'[q]
               /\ pc'[u] \in FileOps \cup {"saved"} => buf'[u] = repo'
    <3>1. CASE u = t
      BY <2>2, <2>4, <2>5, <2>6, <2>7, <3>1
    <3>2. CASE u # t
      BY <2>1, <2>2, <2>7, <3>2 DEF BufferInv
    <3> QED
      BY <3>1, <3>2
  <2>8. ASSUME NEW u \in Loaders, cont'[u] = "load"
        PROVE  /\ u # t /\ pc'[u] = pc[u] /\ buf'[u] = buf[u] /\ todo'[u] = todo[u]
               /\ cont[u] = "load"
    BY <2>1, <2>2, <2>3, <2>8
  <2>9. /\ pc'[Main] = "loadRead" => repo' = EmptyConfig
        /\ \A u \in Clients : pc'[u] \in {"reload", "loadRead"} => cur' = repo'
    BY <2>1, <2>2, <2>6 DEF BufferInv
  <2>10. ASSUME NEW u \in Loaders, cont'[u] = "load"
         PROVE  /\ pc'[u] \in FileOps \cup {"saved"} =>
                     \A q \in Params : buf'[u][q] = Absent => repo'[q] = Absent
                /\ pc'[u] = "apply" =>
                     \A q \in Params \ todo'[u] : repo'[q] = buf'[u][q]
    BY <2>2, <2>8, <2>10 DEF BufferInv
  <2> QED
    BY <2>7, <2>9, <2>10 DEF BufferInv
<1>9. ASSUME NEW t \in Savers, OpenCur(t) PROVE BufferInv'
  <2>1. \A u \in Savers : u # t => pc[u] \notin SaveSteps \cup {"reload", "loadRead", "apply"}
    BY <1>9, OneSaver DEF OpenCur, At
  <2>2. /\ pc'[t] \in FileOps \cup {"saved"} /\ pc[t] \in FileOps
        /\ \A u \in Savers : u # t => pc'[u] = pc[u]
    BY <1>9 DEF OpenCur, At, Goto
  <2>3. UNCHANGED <<repo, buf, cont, todo>>
    BY <1>9 DEF OpenCur
  <2>4. pc'[t] \notin {"serialise", "apply", "reload", "loadRead"}
    BY <2>2
  <2> QED
    BY <2>1, <2>2, <2>3, <2>4 DEF BufferInv
<1>10. ASSUME NEW t \in Savers, WriteCur(t) PROVE BufferInv'
  <2>1. \A u \in Savers : u # t => pc[u] \notin SaveSteps \cup {"reload", "loadRead", "apply"}
    BY <1>10, OneSaver DEF WriteCur, At
  <2>2. /\ pc'[t] \in FileOps \cup {"saved"} /\ pc[t] \in FileOps
        /\ \A u \in Savers : u # t => pc'[u] = pc[u]
    BY <1>10 DEF WriteCur, At, Goto
  <2>3. UNCHANGED <<repo, buf, cont, todo>>
    BY <1>10 DEF WriteCur
  <2>4. pc'[t] \notin {"serialise", "apply", "reload", "loadRead"}
    BY <2>2
  <2> QED
    BY <2>1, <2>2, <2>3, <2>4 DEF BufferInv
<1>11. ASSUME NEW t \in Savers, OpenBak(t) PROVE BufferInv'
  <2>1. \A u \in Savers : u # t => pc[u] \notin SaveSteps \cup {"reload", "loadRead", "apply"}
    BY <1>11, OneSaver DEF OpenBak, At
  <2>2. /\ pc'[t] \in FileOps \cup {"saved"} /\ pc[t] \in FileOps
        /\ \A u \in Savers : u # t => pc'[u] = pc[u]
    BY <1>11 DEF OpenBak, At, Goto
  <2>3. UNCHANGED <<repo, buf, cont, todo>>
    BY <1>11 DEF OpenBak
  <2>4. pc'[t] \notin {"serialise", "apply", "reload", "loadRead"}
    BY <2>2
  <2> QED
    BY <2>1, <2>2, <2>3, <2>4 DEF BufferInv
<1>12. ASSUME NEW t \in Savers, WriteBak(t) PROVE BufferInv'
  BY <1>12 DEF WriteBak, At, Goto
<1>13. ASSUME NEW t \in Loaders, FlashLocks(t) PROVE BufferInv'
  BY <1>13 DEF FlashLocks, EnterSave, At, Goto
<1>14. ASSUME NEW t \in Loaders, FlashEnds(t) PROVE BufferInv'
  <2>1. /\ pc[t] = "saved" /\ UNCHANGED <<repo, cur>>
        /\ \A u \in Savers : u # t =>
             pc'[u] = pc[u] /\ buf'[u] = buf[u] /\ todo'[u] = todo[u] /\ cont'[u] = cont[u]
    BY <1>14 DEF FlashEnds, Goto, Free
  <2>2. cont'[t] = "none" /\ pc'[t] \in {"reload", "exiting", "exited"}
    BY <1>14 DEF FlashEnds, Goto, Free
  <2>3. t \in Clients => cur = repo
    BY <1>14, <2>1 DEF FlashEnds, FileInv, BufferInv
  <2> QED
    BY <2>1, <2>2, <2>3 DEF BufferInv
<1>15. ASSUME NEW t \in Loaders, LoadRead(t) PROVE BufferInv'
  <2>1. /\ pc[t] = "loadRead" /\ UNCHANGED <<repo, cur, todo>>
        /\ \A u \in Savers : u # t => pc'[u] = pc[u] /\ buf'[u] = buf[u] /\ cont'[u] = cont[u]
    BY <1>15 DEF LoadRead, At, Goto
  <2>2. pc'[t] = "openCur" /\ cont'[t] = "load" /\ buf'[t] = Merge(Readable)
    BY <1>15 DEF LoadRead, Goto
  <2>3. ASSUME NEW p \in Params, Merge(Readable)[p] = Absent PROVE repo[p] = Absent
    <3>1. Readable \in Config
      BY ConfigFacts DEF Readable
    <3>2. CASE t = Main
      BY <2>1, <3>2, FileFacts DEF BufferInv
    <3>3. CASE t \in Clients
      <4>1. Readable = repo
        BY <2>1, <3>3, DataAssumption DEF BufferInv, Readable
      <4> QED
        BY <2>3, <3>1, <4>1, FileFacts
    <3> QED
      BY <3>2, <3>3
  <2>4. ASSUME NEW u \in Loaders, cont'[u] = "load"
        PROVE  /\ pc'[u] \in FileOps \cup {"saved"} =>
                    \A p \in Params : buf'[u][p] = Absent => repo'[p] = Absent
               /\ pc'[u] = "apply" => \A p \in Params \ todo'[u] : repo'[p] = buf'[u][p]
    <3>1. CASE u = t
      BY <2>1, <2>2, <2>3, <3>1
    <3>2. CASE u # t
      BY <2>1, <2>4, <3>2 DEF BufferInv
    <3> QED
      BY <3>1, <3>2
  <2> QED
    BY <2>1, <2>2, <2>4 DEF BufferInv
<1>16. ASSUME NEW t \in Loaders, LoadParsed(t) PROVE BufferInv'
  BY <1>16 DEF LoadParsed, At, Goto
<1>17. ASSUME NEW t \in Loaders, ApplyRecord(t) PROVE BufferInv'
  <2>1. \A u \in Savers : u # t => pc[u] \notin SaveSteps \cup {"reload", "loadRead", "apply"}
    BY <1>17, OneSaver DEF ApplyRecord, At
  <2>2. \E p \in todo[t] : Applied(t, p)
    BY <1>17, ApplyEffect
  <2>3. UNCHANGED <<pc, cont, buf, cur>> /\ pc[t] = "apply"
    BY <1>17 DEF ApplyRecord, At
  <2>4. ASSUME cont[t] = "load", NEW q \in Params \ todo'[t] PROVE repo'[q] = buf[t][q]
    <3>1. PICK p \in todo[t] : Applied(t, p)
      BY <2>2
    <3> QED
      BY <2>3, <2>4, <3>1 DEF BufferInv, Applied
  <2>5. cont[t] \notin {"timer", "flash"}
    BY <2>3
  <2>6. \A u \in Threads : u # t => todo'[u] = todo[u]
    BY <2>2 DEF Applied
  <2> QED
    BY <2>1, <2>3, <2>4, <2>5, <2>6 DEF BufferInv
<1>18. ASSUME NEW t \in Loaders, LoadEnds(t) PROVE BufferInv'
  BY <1>18 DEF LoadEnds, At, Goto, Free
<1>19. ASSUME NEW t \in Clients, Receive(t) PROVE BufferInv'
  BY <1>19 DEF Receive, At, Goto, Serving
<1>20. ASSUME NEW t \in Clients, LockThread(t) PROVE BufferInv'
  BY <1>20 DEF LockThread, At, Goto
<1>21. ASSUME NEW t \in Clients, WriteItem(t) PROVE BufferInv'
  BY <1>21 DEF WriteItem, Item, At, ChangeRecord, Notify
<1>22. ASSUME NEW t \in Clients, SkipEqualItem(t) PROVE BufferInv'
  BY <1>22 DEF SkipEqualItem, Item, At
<1>23. ASSUME NEW t \in Clients, DeleteItem(t) PROVE BufferInv'
  BY <1>23 DEF DeleteItem, Item, At, ChangeRecord, Notify
<1>24. ASSUME NEW t \in Clients, DisableWritingItem(t) PROVE BufferInv'
  BY <1>24 DEF DisableWritingItem, Item, At
<1>25. ASSUME NEW t \in Clients, ReloadItem(t) PROVE BufferInv'
  BY <1>25 DEF ReloadItem, Item, At, Goto
<1>26. ASSUME NEW t \in Clients, ReloadResumes(t) PROVE BufferInv'
  BY <1>26 DEF ReloadResumes, At, Goto
<1>27. ASSUME NEW t \in Clients, FactoryResetItem(t) PROVE BufferInv'
  BY <1>27 DEF FactoryResetItem, Item, At
<1>28. ASSUME NEW t \in Clients, Reply(t) PROVE BufferInv'
  BY <1>28 DEF Reply, At, Goto
<1>29. CASE UNCHANGED vars
  BY <1>29 DEF vars
<1> QED
  BY <1>1, <1>2, <1>3, <1>4, <1>5, <1>6, <1>7, <1>8, <1>9, <1>10, <1>11, <1>12, <1>13,
     <1>14, <1>15, <1>16, <1>17, <1>18, <1>19, <1>20, <1>21, <1>22, <1>23, <1>24,
     <1>25, <1>26, <1>27, <1>28, <1>29, UndisturbedNext
  DEF Loaders, Savers

\* Every save and load leaves the two files equal to each other and to the records.
LEMMA RestInvStep == Undisturbed /\ IInv /\ IInv' /\ SyncInv /\ [Next]_vars => RestInv'
<1> SUFFICES ASSUME Undisturbed, IInv, IInv', SyncInv, [Next]_vars PROVE RestInv'
  OBVIOUS
<1> USE ThreadAssumption, OneWorker, FileFacts, ConfigFacts
    DEF Undisturbed, IInv, SyncInv, Workers, Savers, Loaders, files, flags, locks, history,
        Threads, SaveSteps, FileOps, SaveEnds, TypeOK, LabelInv, LockInv, BootInv, Booting,
        CallerInv, MayFail, RestInv, Up
<1>1. CASE TimerFires
  BY <1>1 DEF TimerFires, At, Goto
<1>2. CASE TimerLocksAccess
  BY <1>2 DEF TimerLocksAccess, At, Goto
<1>3. CASE TimerStartsSave
  BY <1>3 DEF TimerStartsSave, EnterSave, At, Goto
<1>4. CASE TimerSkipsSave
  BY <1>4 DEF TimerSkipsSave, At, Goto
<1>5. CASE TimerEndsSave
  <2> SUFFICES ASSUME Up PROVE RestInv'
    BY <1>5 DEF TimerEndsSave, Goto, RestInv
  <2>1. pc[Timer] = "saved" /\ cont[Timer] = "timer" /\ UNCHANGED <<repo, cur, bak>>
    BY <1>5 DEF TimerEndsSave
  <2>2. cur = repo /\ bak = cur
    BY <2>1 DEF FileInv, BufferInv
  <2> QED
    BY <2>1, <2>2 DEF RestInv
<1>6. CASE TimePasses
  BY <1>6 DEF TimePasses
<1>7. CASE TermBooting
  BY <1>7 DEF TermBooting, Goto
<1>8. ASSUME NEW t \in Savers, CopyRecord(t) PROVE RestInv'
  BY <1>8 DEF CopyRecord, At, Goto
<1>9. ASSUME NEW t \in Savers, OpenCur(t) PROVE RestInv'
  <2> SUFFICES ASSUME Up PROVE RestInv'
    BY <1>9 DEF OpenCur, At, Goto, RestInv
  <2>1. t \in Workers /\ pc'[t] = "writeCur"
    BY <1>9 DEF OpenCur, At, Goto
  <2>2. cur' = EmptyConfig /\ EmptyConfig # NoFile
    BY <1>9, ConfigFacts, DataAssumption DEF OpenCur
  <2> QED
    BY <2>1, <2>2 DEF RestInv
<1>10. ASSUME NEW t \in Savers, WriteCur(t) PROVE RestInv'
  <2> SUFFICES ASSUME Up PROVE RestInv'
    BY <1>10 DEF WriteCur, At, Goto, RestInv
  <2>1. t \in Workers /\ pc'[t] = "openBak"
    BY <1>10 DEF WriteCur, At, Goto
  <2>2. cur' # NoFile
    BY <1>10, ConfigFacts, DataAssumption DEF WriteCur, RestInv
  <2> QED
    BY <2>1, <2>2 DEF RestInv
<1>11. ASSUME NEW t \in Savers, OpenBak(t) PROVE RestInv'
  BY <1>11 DEF OpenBak, At, Goto
<1>12. ASSUME NEW t \in Savers, WriteBak(t) PROVE RestInv'
  <2> SUFFICES ASSUME Up PROVE RestInv'
    BY <1>12 DEF WriteBak, At, Goto, RestInv
  <2>1. t \in Workers /\ pc'[t] = "saved" /\ UNCHANGED <<cur, cont>>
    BY <1>12 DEF WriteBak, At, Goto
  <2>2. cont[t] \in {"timer", "flash", "load"} /\ t \in Savers
    BY <1>12 DEF WriteBak, At
  <2>3. FileInv'
    BY FileInvStep
  <2>4. bak' = cur'
    BY <2>1, <2>2, <2>3 DEF FileInv
  <2> QED
    BY <2>1, <2>4 DEF RestInv
<1>13. ASSUME NEW t \in Loaders, FlashLocks(t) PROVE RestInv'
  BY <1>13 DEF FlashLocks, EnterSave, At, Goto
<1>14. ASSUME NEW t \in Loaders, FlashEnds(t) PROVE RestInv'
  <2> SUFFICES ASSUME Up PROVE RestInv'
    BY <1>14 DEF FlashEnds, Goto, RestInv
  <2>1. pc[t] = "saved" /\ cont[t] = "flash" /\ t \in Clients /\ UNCHANGED <<repo, cur, bak>>
    BY <1>14 DEF FlashEnds
  <2>2. cur = repo /\ bak = cur
    BY <2>1 DEF FileInv, BufferInv
  <2> QED
    BY <2>1, <2>2 DEF RestInv
<1>15. ASSUME NEW t \in Loaders, LoadRead(t) PROVE RestInv'
  BY <1>15 DEF LoadRead, At, Goto
<1>16. ASSUME NEW t \in Loaders, LoadParsed(t) PROVE RestInv'
  BY <1>16 DEF LoadParsed, At, Goto
<1>17. ASSUME NEW t \in Loaders, ApplyRecord(t) PROVE RestInv'
  BY <1>17 DEF ApplyRecord, At, ChangeRecord, Notify
<1>18. ASSUME NEW t \in Loaders, LoadEnds(t) PROVE RestInv'
  <2>1. /\ pc[t] = "apply" /\ todo[t] = {} /\ cont[t] = "load"
        /\ UNCHANGED <<repo, cur, bak>>
    BY <1>18 DEF LoadEnds, At
  <2>2. cur = buf[t] /\ bak = cur
    BY <2>1 DEF FileInv
  <2>3. cur = repo
    <3>1. \A p \in Params : buf[t][p] = repo[p]
      BY <2>1 DEF BufferInv
    <3> QED
      BY <2>2, <3>1, FileFacts
  <2>4. cur # NoFile
    BY <2>3, DataAssumption
  <2> QED
    BY <2>1, <2>2, <2>3, <2>4 DEF RestInv
<1>19. ASSUME NEW t \in Clients, Receive(t) PROVE RestInv'
  BY <1>19 DEF Receive, At, Goto, Serving
<1>20. ASSUME NEW t \in Clients, LockThread(t) PROVE RestInv'
  BY <1>20 DEF LockThread, At, Goto
<1>21. ASSUME NEW t \in Clients, WriteItem(t) PROVE RestInv'
  <2> SUFFICES ASSUME Up PROVE RestInv'
    BY <1>21 DEF WriteItem, RestInv
  <2>1. /\ pc[t] = "item" /\ UNCHANGED <<cur, bak, pc>>
        /\ (bNeedFlush' \/ (repo' = repo /\ bNeedFlush' = bNeedFlush))
    BY <1>21 DEF WriteItem, Item, At, ChangeRecord, Notify, FlagInv
  <2> QED
    BY <2>1 DEF RestInv
<1>22. ASSUME NEW t \in Clients, SkipEqualItem(t) PROVE RestInv'
  BY <1>22 DEF SkipEqualItem, Item, At
<1>23. ASSUME NEW t \in Clients, DeleteItem(t) PROVE RestInv'
  <2> SUFFICES ASSUME Up PROVE RestInv'
    BY <1>23 DEF DeleteItem, RestInv
  <2>1. /\ pc[t] = "item" /\ UNCHANGED <<cur, bak, pc>>
        /\ (bNeedFlush' \/ (repo' = repo /\ bNeedFlush' = bNeedFlush))
    BY <1>23 DEF DeleteItem, Item, At, ChangeRecord, Notify, FlagInv
  <2> QED
    BY <2>1 DEF RestInv
<1>24. ASSUME NEW t \in Clients, DisableWritingItem(t) PROVE RestInv'
  BY <1>24 DEF DisableWritingItem, Item, At
<1>25. ASSUME NEW t \in Clients, ReloadItem(t) PROVE RestInv'
  BY <1>25 DEF ReloadItem, Item, At, Goto
<1>26. ASSUME NEW t \in Clients, ReloadResumes(t) PROVE RestInv'
  BY <1>26 DEF ReloadResumes, At, Goto
<1>27. ASSUME NEW t \in Clients, FactoryResetItem(t) PROVE RestInv'
  BY <1>27 DEF FactoryResetItem, Item, At
<1>28. ASSUME NEW t \in Clients, Reply(t) PROVE RestInv'
  BY <1>28 DEF Reply, At, Goto
<1>29. CASE UNCHANGED vars
  BY <1>29 DEF vars
<1> QED
  BY <1>1, <1>2, <1>3, <1>4, <1>5, <1>6, <1>7, <1>8, <1>9, <1>10, <1>11, <1>12, <1>13,
     <1>14, <1>15, <1>16, <1>17, <1>18, <1>19, <1>20, <1>21, <1>22, <1>23, <1>24,
     <1>25, <1>26, <1>27, <1>28, <1>29, UndisturbedNext
  DEF Loaders, Savers

\* At first Engage is about to load.
LEMMA SyncInit == Init => SyncInv
<1> SUFFICES ASSUME Init PROVE SyncInv
  OBVIOUS
<1>1. /\ pc[Main] = "loadRead" /\ \A t \in Workers : pc[t] = "idle"
      /\ \A t \in Threads : cont[t] = "none"
  BY ThreadAssumption, ThreadFacts DEF Init, Threads, Workers
<1>2. CallerInv /\ FlagInv
  BY <1>1, ThreadFacts
  DEF Init, CallerInv, FlagInv, Workers, Savers, Loaders, Up, Booting,
      SaveSteps, FileOps, SaveEnds
<1>3. FileInv /\ BufferInv /\ RestInv
  BY <1>1, ThreadFacts
  DEF Init, FileInv, BufferInv, RestInv, Workers, Savers, Loaders, Up,
      SaveSteps, FileOps, SaveEnds
<1> QED
  BY <1>2, <1>3 DEF SyncInv

\* SyncInv is inductive together with IInv.
LEMMA SyncCorrect == ASSUME Undisturbed PROVE Spec => []SyncInv
<1>1. Undisturbed /\ IInv /\ IInv' /\ SyncInv /\ [Next]_vars => SyncInv'
  BY CallerInvStep, FlagInvStep, FileInvStep, BufferInvStep, RestInvStep DEF SyncInv
<1> QED
  BY Undisturbed, <1>1, SyncInit, Invariance, PTL DEF Spec

\* Whatever the clients change, reload or disable, and however their requests, the
\* timer and the boot interleave, a change that is in memory only is known to be.
THEOREM DirtyTrackedCorrect == ASSUME Undisturbed PROVE Spec => []DirtyTracked
<1>1. Undisturbed /\ IInv /\ SyncInv => DirtyTracked
  <2> SUFFICES ASSUME Undisturbed, IInv, SyncInv, ~bNoSave, ~bSaveInProgress, cur # repo,
                      \A t \in Threads : ~Loading(t)
               PROVE  bNeedFlush
    BY DEF DirtyTracked
  <2>1. Up
    BY ThreadFacts DEF Loading, IInv, LabelInv, LockInv, BootInv, SyncInv, CallerInv,
      FlagInv, Loaders, Up, Booting,
      SaveSteps, FileOps, SaveEnds
  <2>2. ASSUME NEW t \in Workers, pc[t] \in SaveSteps \cup {"loadRead", "apply"} PROVE FALSE
    <3>1. t \in Threads
      BY ThreadFacts DEF Workers
    <3>2. CASE t = Timer
      BY <2>2, <3>1, <3>2 DEF Loading, IInv, LabelInv, SyncInv, FlagInv, SaveSteps
    <3>3. CASE t \in Clients
      BY <2>2, <3>1, <3>3 DEF Loading, SyncInv, CallerInv, FlagInv
    <3> QED
      BY <3>2, <3>3 DEF Workers
  <2> QED
    BY <2>1, <2>2 DEF SyncInv, RestInv
<1> QED
  BY Undisturbed, <1>1, SyncCorrect, Invariance, PTL

\* Whenever PSM serves and nobody saves or loads, the backup is a copy of the
\* current file, for any files it was started with.
THEOREM BackupMirrorsCurrentCorrect == ASSUME Undisturbed PROVE Spec => []BackupMirrorsCurrent
<1>1. Undisturbed /\ IInv /\ SyncInv => BackupMirrorsCurrent
  <2> SUFFICES ASSUME Undisturbed, IInv, SyncInv, Serving,
                      \A t \in Threads : ~Saving(t) /\ ~Loading(t)
               PROVE  bak = cur
    BY DEF BackupMirrorsCurrent
  <2>1. Up
    BY DEF Serving, SyncInv, CallerInv, Up
  <2>2. ASSUME NEW t \in Workers, pc[t] \in {"writeCur", "openBak", "writeBak"} PROVE FALSE
    BY <2>2, ThreadFacts DEF Saving, Loading, IInv, LockInv, SyncInv, CallerInv, Workers,
      SaveSteps, FileOps, SaveEnds
  <2> QED
    BY <2>1, <2>2 DEF SyncInv, RestInv
<1> QED
  BY Undisturbed, <1>1, SyncCorrect, Invariance, PTL

-----------------------------------------------------------------------------
(* The last save before the process ends.                                  *)

\* What TermKeepsACopy needs: SIGTERM does not come before Engage has returned, no
\* call fails, no reset task removes the files, and no request is ReloadConfig,
\* whose load rewrites the files without AccessLock.
Orderly ==
  /\ ResetTasks = {} /\ ~BootTermAllowed /\ MaxFaults = 0
  /\ \A r \in Requests : \A i \in 1 .. Len(r) : r[i].op # "reload"

Ending == pc[Main] \in {"exiting", "exited"}
Termed == cont[Main] = "flash" \/ Ending

\* No client is in the save routine, and main only to boot or to end.
OrderlyInv ==
  /\ faults = 0
  /\ pc[Timer] # "saveFailed" /\ pc[Main] # "saveFailed"
  /\ cont[Main] # "bootFlash"
  /\ pc[Main] = "flashLock" => cont[Main] = "flash"
  /\ cont[Main] = "flash" => pc[Main] \in {"flashLock"} \cup SaveSteps
  /\ \A t \in Clients :
       /\ pc[t] \in {"idle", "waitThread", "item"}
       /\ \A i \in 1 .. Len(req[t]) : req[t][i].op # "reload"

\* A configuration that only has values its records had since SIGTERM came.
Recent(c) == \A p \in Params : c[p] \in sinceTerm[p]

\* How far thread t has come with a save that it began after SIGTERM.
RecentSave(t) ==
  /\ pc[t] = "serialise" => \A p \in Params \ todo[t] : buf[t][p] \in sinceTerm[p]
  /\ pc[t] \in FileOps \cup {"saved"} => Recent(buf[t])
  /\ pc[t] = "writeCur" => cur = EmptyConfig
  /\ pc[t] \in {"openBak", "writeBak", "saved"} => cur = buf[t]
  /\ pc[t] = "writeBak" => bak = EmptyConfig
  /\ pc[t] = "saved" => bak = cur

\* The handler leaves two files that hold the configuration, and the flush that was
\* waiting for AccessLock empties one of them at a time.
TermInv ==
  /\ Termed => Recent(repo)
  /\ cont[Main] = "flash" => RecentSave(Main)
  /\ Ending => /\ RecentSave(Timer)
               /\ pc[Timer] # "writeCur" => KeptSince(cur)
               /\ pc[Timer] # "writeBak" => KeptSince(bak)

-----------------------------------------------------------------------------

\* Which steps an orderly process takes.
LEMMA OrderlyNext ==
  ASSUME Orderly, IInv, OrderlyInv, [Next]_vars
  PROVE  \/ TimerFires \/ TimerLocksAccess \/ TimerStartsSave \/ TimerSkipsSave
         \/ TimerEndsSave \/ TimePasses \/ TermServing \/ Exit \/ UNCHANGED vars
         \/ FlashLocks(Main) \/ FlashEnds(Main) \/ LoadRead(Main) \/ LoadParsed(Main)
         \/ ApplyRecord(Main) \/ LoadEnds(Main)
         \/ \E t \in {Timer, Main} :
              CopyRecord(t) \/ OpenCur(t) \/ WriteCur(t) \/ OpenBak(t) \/ WriteBak(t)
         \/ \E t \in Clients :
              Receive(t) \/ LockThread(t) \/ WriteItem(t) \/ SkipEqualItem(t)
                \/ DeleteItem(t) \/ DisableWritingItem(t) \/ FactoryResetItem(t) \/ Reply(t)
<1>1. ~MayFail
  BY DEF MayFail, Orderly, OrderlyInv
<1>2. \A t \in ResetTasks : ~ResetStep(t)
  BY DEF Orderly
<1>3. ~TermBooting
  BY DEF TermBooting, Orderly
<1>4. \A t \in Savers : ~SaveRegFileFails(t)
  BY <1>1 DEF SaveRegFileFails
<1>5. ASSUME NEW t \in Clients
      PROVE  ~SaveRoutine(t) /\ ~LoadRoutine(t) /\ ~FlashLocks(t) /\ ~FlashEnds(t)
             /\ ~ReloadResumes(t)
  <2>1. pc[t] \in {"idle", "waitThread", "item"}
    BY DEF OrderlyInv
  <2> QED
    BY <2>1 DEF SaveRoutine, LoadRoutine, FlashLocks, FlashEnds, ReloadResumes, At,
      CopyRecord, SaveRegFileFails, OpenCur, WriteCur, OpenBak, WriteBak, LoadRead,
      LoadParsed, ApplyRecord, LoadEnds, SaveEnds
<1>6. ASSUME NEW t \in Clients PROVE ~ReloadItem(t)
  <2>1. ASSUME req[t] # << >> PROVE Head(req[t]).op # "reload"
    <3>1. req[t] \in Seq(SetItem \cup DelItem)
      BY DEF IInv, TypeOK
    <3>2. 1 \in 1 .. Len(req[t]) /\ Head(req[t]) = req[t][1]
      BY <2>1, <3>1
    <3> QED
      BY <3>2 DEF OrderlyInv
  <2> QED
    BY <2>1 DEF ReloadItem, Item
<1> QED
  BY <1>1, <1>2, <1>3, <1>4, <1>5, <1>6
  DEF Next, TimerStep, TimerReturns, ClientStep, MainStep, TermSignal, Exited, SaveRoutine,
    LoadRoutine, Savers, vars

\* A process stays orderly.
LEMMA OrderlyInvStep == Orderly /\ IInv /\ IInv' /\ OrderlyInv /\ [Next]_vars => OrderlyInv'
<1> SUFFICES ASSUME Orderly, IInv, IInv', OrderlyInv, [Next]_vars PROVE OrderlyInv'
  OBVIOUS
<1> USE ThreadAssumption
    DEF Orderly, IInv, files, flags, locks, history, Threads, SaveSteps, FileOps, SaveEnds,
        TypeOK, LabelInv, LockInv, BootInv, Booting, OrderlyInv, MayFail
<1>1. CASE TimerFires
  BY <1>1 DEF TimerFires, At, Goto
<1>2. CASE TimerLocksAccess
  BY <1>2 DEF TimerLocksAccess, At, Goto
<1>3. CASE TimerStartsSave
  BY <1>3 DEF TimerStartsSave, EnterSave, At, Goto
<1>4. CASE TimerSkipsSave
  BY <1>4 DEF TimerSkipsSave, At, Goto
<1>5. CASE TimerEndsSave
  BY <1>5 DEF TimerEndsSave, Goto, Free
<1>6. CASE TimePasses
  BY <1>6 DEF TimePasses
<1>7. CASE TermServing
  BY <1>7 DEF TermServing, At, Goto
<1>8. CASE Exit
  BY <1>8 DEF Exit, At, Goto
<1>9. CASE FlashLocks(Main)
  BY <1>9 DEF FlashLocks, EnterSave, At, Goto
<1>10. CASE FlashEnds(Main)
  BY <1>10 DEF FlashEnds, Goto, Free
<1>11. CASE LoadRead(Main)
  BY <1>11 DEF LoadRead, At, Goto
<1>12. CASE LoadParsed(Main)
  BY <1>12 DEF LoadParsed, At, Goto
<1>13. CASE ApplyRecord(Main)
  BY <1>13 DEF ApplyRecord, At, ChangeRecord, Notify
<1>14. CASE LoadEnds(Main)
  BY <1>14 DEF LoadEnds, At, Goto, Free
<1>15. ASSUME NEW t \in {Timer, Main}, CopyRecord(t) PROVE OrderlyInv'
  BY <1>15 DEF CopyRecord, At, Goto
<1>16. ASSUME NEW t \in {Timer, Main}, OpenCur(t) PROVE OrderlyInv'
  BY <1>16 DEF OpenCur, At, Goto
<1>17. ASSUME NEW t \in {Timer, Main}, WriteCur(t) PROVE OrderlyInv'
  BY <1>17 DEF WriteCur, At, Goto
<1>18. ASSUME NEW t \in {Timer, Main}, OpenBak(t) PROVE OrderlyInv'
  BY <1>18 DEF OpenBak, At, Goto
<1>19. ASSUME NEW t \in {Timer, Main}, WriteBak(t) PROVE OrderlyInv'
  BY <1>19 DEF WriteBak, At, Goto
<1>20. ASSUME NEW t \in Clients, Receive(t) PROVE OrderlyInv'
  BY <1>20 DEF Receive, At, Goto
<1>21. ASSUME NEW t \in Clients, LockThread(t) PROVE OrderlyInv'
  BY <1>21 DEF LockThread, At, Goto
<1>22. ASSUME NEW t \in Clients, UNCHANGED <<faults, pc, cont>>, req[t] # << >>, NextItem(t)
       PROVE  OrderlyInv'
  <2>1. ASSUME NEW u \in Clients, NEW i \in 1 .. Len(req'[u]) PROVE req'[u][i].op # "reload"
    <3>1. CASE u # t
      BY <1>22, <2>1, <3>1 DEF NextItem
    <3>2. CASE u = t
      <4>1. req[t] \in Seq(SetItem \cup DelItem) /\ req'[t] = Tail(req[t])
        BY <1>22 DEF NextItem
      <4>2. i + 1 \in 1 .. Len(req[t]) /\ req'[t][i] = req[t][i + 1]
        BY <1>22, <2>1, <3>2, <4>1
      <4> QED
        BY <3>2, <4>2
    <3> QED
      BY <3>1, <3>2
  <2> QED
    BY <1>22, <2>1
<1>23. ASSUME NEW t \in Clients, WriteItem(t) PROVE OrderlyInv'
  BY <1>22, <1>23 DEF WriteItem, Item
<1>24. ASSUME NEW t \in Clients, SkipEqualItem(t) PROVE OrderlyInv'
  BY <1>22, <1>24 DEF SkipEqualItem, Item
<1>25. ASSUME NEW t \in Clients, DeleteItem(t) PROVE OrderlyInv'
  BY <1>22, <1>25 DEF DeleteItem, Item
<1>26. ASSUME NEW t \in Clients, DisableWritingItem(t) PROVE OrderlyInv'
  BY <1>22, <1>26 DEF DisableWritingItem, Item
<1>27. ASSUME NEW t \in Clients, FactoryResetItem(t) PROVE OrderlyInv'
  BY <1>22, <1>27 DEF FactoryResetItem, Item
<1>28. ASSUME NEW t \in Clients, Reply(t) PROVE OrderlyInv'
  BY <1>28 DEF Reply, At, Goto
<1>29. CASE UNCHANGED vars
  BY <1>29 DEF vars
<1> QED
  BY <1>1, <1>2, <1>3, <1>4, <1>5, <1>6, <1>7, <1>8, <1>9, <1>10, <1>11, <1>12, <1>13,
     <1>14, <1>15, <1>16, <1>17, <1>18, <1>19, <1>20, <1>21, <1>23, <1>24,
     <1>25, <1>26, <1>27, <1>28, <1>29, OrderlyNext

-----------------------------------------------------------------------------

\* A value that a record had since SIGTERM stays one of these values.
Grown == \A p \in Params : sinceTerm[p] \subseteq sinceTerm'[p]

\* Every record that changes after SIGTERM has the new value since then, too.
LEMMA RecentStays ==
  ASSUME Orderly, IInv, OrderlyInv, TermInv, Termed, [Next]_vars
  PROVE  Grown /\ Recent(repo)'
<1> USE ThreadAssumption DEF Termed, Ending
<1>1. Recent(repo) /\ pc[Main] \in {"flashLock", "exiting", "exited"} \cup SaveSteps
      /\ cont[Main] # "load"
  BY DEF TermInv, OrderlyInv, IInv, LabelInv, LockInv, BootInv, Booting
<1>2. CASE UNCHANGED <<repo, sinceTerm>>
  BY <1>1, <1>2 DEF Recent, Grown
<1>3. ASSUME NEW p \in Params, NEW v, ChangeRecord(p, v) PROVE Grown /\ Recent(repo)'
  <2>1. /\ repo' = [repo EXCEPT ![p] = v]
        /\ sinceTerm' = [sinceTerm EXCEPT ![p] = @ \cup {v}]
    BY <1>1, <1>3 DEF ChangeRecord, Recent
  <2>2. repo \in Config /\ sinceTerm \in [Params -> SUBSET (Vals \cup {Absent})]
    BY DEF IInv, TypeOK
  <2>3. \A q \in Params : /\ repo'[q] = IF q = p THEN v ELSE repo[q]
                          /\ sinceTerm'[q] = sinceTerm[q] \cup (IF q = p THEN {v} ELSE {})
    BY <2>1, <2>2 DEF Config
  <2> QED
    BY <1>1, <2>3 DEF Recent, Grown
<1>4. ASSUME NEW t \in Clients, WriteItem(t) \/ DeleteItem(t) PROVE Grown /\ Recent(repo)'
  <2>1. req[t] # << >> /\ Head(req[t]).op \in {"write", "delete"}
    BY <1>4 DEF WriteItem, DeleteItem, Item
  <2>2. Head(req[t]) \in SetItem \cup DelItem
    BY <2>1, RequestType DEF IInv
  <2>3. Head(req[t]).param \in Params
    BY <2>1, <2>2, ItemFacts
  <2> QED
    BY <1>2, <1>3, <1>4, <2>3 DEF WriteItem, DeleteItem
<1>5. ~TermServing /\ ~ApplyRecord(Main)
  BY <1>1 DEF TermServing, ApplyRecord, At, SaveSteps, FileOps, SaveEnds
<1>6. CASE TimerFires \/ TimerLocksAccess \/ TimerStartsSave \/ TimerSkipsSave
           \/ TimerEndsSave \/ TimePasses \/ Exit \/ UNCHANGED vars
  BY <1>2, <1>6 DEF TimerFires, TimerLocksAccess, TimerStartsSave, TimerSkipsSave,
    TimerEndsSave, TimePasses, Exit, vars, history
<1>7. CASE FlashLocks(Main) \/ FlashEnds(Main) \/ LoadRead(Main) \/ LoadParsed(Main)
           \/ LoadEnds(Main)
  BY <1>2, <1>7 DEF FlashLocks, FlashEnds, LoadRead, LoadParsed, LoadEnds, history
<1>8. ASSUME NEW t \in {Timer, Main},
             CopyRecord(t) \/ OpenCur(t) \/ WriteCur(t) \/ OpenBak(t) \/ WriteBak(t)
      PROVE  Grown /\ Recent(repo)'
  BY <1>2, <1>8 DEF CopyRecord, OpenCur, WriteCur, OpenBak, WriteBak, history
<1>9. ASSUME NEW t \in Clients,
             Receive(t) \/ LockThread(t) \/ SkipEqualItem(t) \/ DisableWritingItem(t)
               \/ FactoryResetItem(t) \/ Reply(t)
      PROVE  Grown /\ Recent(repo)'
  BY <1>2, <1>9 DEF Receive, LockThread, SkipEqualItem, DisableWritingItem,
    FactoryResetItem, Reply, history
<1> QED
  BY <1>4, <1>5, <1>6, <1>7, <1>8, <1>9, OrderlyNext

\* What is recent stays recent.
LEMMA RecentGrows ==
  ASSUME Grown
  PROVE  /\ \A c : Recent(c) => \A p \in Params : c[p] \in sinceTerm'[p]
         /\ \A f : KeptSince(f) => f # NoFile /\ \A p \in Params : f[p] \in sinceTerm'[p]
BY DEF Grown, Recent, KeptSince

\* Each step of a save goes on with recent values.
LEMMA SaveGoesOn ==
  ASSUME Orderly, IInv, OrderlyInv, NEW t \in {Timer, Main},
         RecentSave(t), Recent(repo), Grown,
         CopyRecord(t) \/ OpenCur(t) \/ WriteCur(t) \/ OpenBak(t) \/ WriteBak(t)
  PROVE  RecentSave(t)'
<1> USE DEF SaveSteps, FileOps, SaveEnds
<1>1. ~MayFail /\ t \in Threads /\ TypeOK
  BY ThreadFacts DEF MayFail, Orderly, OrderlyInv, IInv
<1>2. CASE CopyRecord(t)
  <2>1. PICK p \in todo[t] :
           /\ p \in Params
           /\ pc'[t] = (IF todo[t] = {p} THEN "openCur" ELSE "serialise")
           /\ todo'[t] = todo[t] \ {p}
           /\ \A q \in Params : buf'[t][q] = IF q = p THEN repo[p] ELSE buf[t][q]
    BY <1>1, <1>2, CopyEffect
  <2>2. pc[t] = "serialise" /\ \A q \in Params \ todo[t] : buf[t][q] \in sinceTerm[q]
    BY <1>2 DEF CopyRecord, At, RecentSave
  <2>3. \A q \in Params \ todo'[t] : buf'[t][q] \in sinceTerm'[q]
    BY <2>1, <2>2 DEF Recent, Grown
  <2>4. pc'[t] = "openCur" => Recent(buf[t])'
    BY <2>1, <2>3 DEF Recent
  <2> QED
    BY <2>1, <2>3, <2>4 DEF RecentSave
<1>3. CASE OpenCur(t)
  <2>1. cur' = EmptyConfig /\ pc'[t] = "writeCur" /\ buf' = buf /\ Recent(buf[t])
    BY <1>1, <1>3 DEF OpenCur, At, Goto, TypeOK, RecentSave
  <2>2. Recent(buf[t])'
    BY <2>1, RecentGrows DEF Recent
  <2> QED
    BY <2>1, <2>2 DEF RecentSave
<1>4. CASE WriteCur(t)
  <2>1. /\ cur' \in (IF cur = NoFile THEN {NoFile} ELSE Over(buf[t], cur))
        /\ pc'[t] = "openBak" /\ buf' = buf /\ Recent(buf[t]) /\ cur = EmptyConfig
    BY <1>1, <1>4 DEF WriteCur, At, Goto, TypeOK, RecentSave
  <2>2. cur # NoFile /\ buf[t] \in Config
    BY <1>1, <2>1, ConfigFacts, DataAssumption DEF TypeOK
  <2>3. cur' = buf[t]
    BY <2>1, <2>2, FileFacts
  <2>4. Recent(buf[t])'
    BY <2>1, RecentGrows DEF Recent
  <2> QED
    BY <2>1, <2>3, <2>4 DEF RecentSave
<1>5. CASE OpenBak(t)
  <2>1. buf' = buf /\ Recent(buf[t]) /\ cur' = cur /\ cur = buf[t] /\ pc[t] = "openBak"
    BY <1>1, <1>5 DEF OpenBak, At, RecentSave
  <2>2. cur # NoFile
    BY <1>1, <2>1, DataAssumption DEF TypeOK
  <2>3. bak' = EmptyConfig /\ pc'[t] = "writeBak"
    BY <1>1, <1>5, <2>2 DEF OpenBak, Goto, TypeOK
  <2>4. Recent(buf[t])'
    BY <2>1, RecentGrows DEF Recent
  <2> QED
    BY <2>1, <2>3, <2>4 DEF RecentSave
<1>6. CASE WriteBak(t)
  <2>1. /\ buf' = buf /\ Recent(buf[t]) /\ cur' = cur /\ cur = buf[t] /\ bak = EmptyConfig
        /\ pc'[t] = "saved"
    BY <1>1, <1>6 DEF WriteBak, At, Goto, TypeOK, RecentSave
  <2>2. Mapped(t) = {buf[t]} /\ bak # NoFile /\ buf[t] \in Config
    BY <1>1, <2>1, ConfigFacts, DataAssumption DEF Mapped, TypeOK
  <2>3. bak' \in Over(buf[t], EmptyConfig)
    BY <1>1, <1>6, <2>1, <2>2 DEF WriteBak
  <2>4. bak' = buf[t]
    BY <2>2, <2>3, FileFacts
  <2>5. Recent(buf[t])'
    BY <2>1, RecentGrows DEF Recent
  <2> QED
    BY <2>1, <2>4, <2>5 DEF RecentSave
<1> QED
  BY <1>2, <1>3, <1>4, <1>5, <1>6

\* A save that waits while another thread takes a step.
LEMMA SaveWaits ==
  ASSUME NEW t \in {Timer, Main}, RecentSave(t), Grown,
         pc'[t] = pc[t], buf'[t] = buf[t], todo'[t] = todo[t], UNCHANGED files
  PROVE  RecentSave(t)'
<1>1. Recent(buf[t]) => Recent(buf[t])'
  BY RecentGrows DEF Recent
<1>2. ASSUME NEW p \in Params, buf[t][p] \in sinceTerm[p] PROVE buf'[t][p] \in sinceTerm'[p]
  BY <1>2 DEF Grown
<1> QED
  BY <1>1, <1>2 DEF RecentSave, files

\* While the handler saves, the timer is before its flush.
LEMMA HandlerAlone ==
  ASSUME IInv, OrderlyInv, cont[Main] = "flash", pc[Main] \in SaveSteps
  PROVE  pc[Timer] \in {"idle", "waitAccess"}
BY ThreadAssumption DEF IInv, LabelInv, LockInv, Threads

\* A step keeps what TermInv says of main when it is not a step of main.
LEMMA MainWaits ==
  ASSUME IInv, OrderlyInv, TermInv, Grown, cont[Main] = "flash",
         pc'[Main] = pc[Main], buf'[Main] = buf[Main], todo'[Main] = todo[Main],
         pc[Main] = "flashLock" \/ UNCHANGED files
  PROVE  RecentSave(Main)'
<1>1. CASE pc[Main] = "flashLock"
  BY <1>1 DEF RecentSave, FileOps
<1>2. CASE UNCHANGED files
  BY <1>2, SaveWaits DEF TermInv
<1> QED
  BY <1>1, <1>2

\* The timer's part of TermInv under a step that leaves timer and files alone.
LEMMA TimerWaits ==
  ASSUME TermInv, Grown, Ending, UNCHANGED files,
         pc'[Timer] = pc[Timer], buf'[Timer] = buf[Timer], todo'[Timer] = todo[Timer]
  PROVE  /\ RecentSave(Timer)'
         /\ pc'[Timer] # "writeCur" => KeptSince(cur)'
         /\ pc'[Timer] # "writeBak" => KeptSince(bak)'
<1>1. RecentSave(Timer)'
  BY SaveWaits DEF TermInv
<1>2. KeptSince(cur) => KeptSince(cur)'
  BY RecentGrows DEF KeptSince, files
<1>3. KeptSince(bak) => KeptSince(bak)'
  BY RecentGrows DEF KeptSince, files
<1> QED
  BY <1>1, <1>2, <1>3 DEF TermInv

\* A step of the flush that was waiting leaves one of the files alone.
LEMMA FlushGoesOn ==
  ASSUME Orderly, IInv, IInv', OrderlyInv, TermInv, Grown, Ending,
         CopyRecord(Timer) \/ OpenCur(Timer) \/ WriteCur(Timer) \/ OpenBak(Timer)
           \/ WriteBak(Timer)
  PROVE  /\ RecentSave(Timer)'
         /\ pc'[Timer] # "writeCur" => KeptSince(cur)'
         /\ pc'[Timer] # "writeBak" => KeptSince(bak)'
<1> USE ThreadFacts DEF FileOps
<1>1. RecentSave(Timer)'
  BY SaveGoesOn DEF TermInv, Termed
<1>2. ~MayFail /\ Timer \in Threads /\ pc \in [Threads -> Labels]
  BY DEF MayFail, Orderly, OrderlyInv, IInv, TypeOK
<1>3. /\ KeptSince(cur) /\ cur' = cur => KeptSince(cur)'
      /\ KeptSince(bak) /\ bak' = bak => KeptSince(bak)'
  BY RecentGrows DEF KeptSince
<1>4. Recent(buf[Timer])' /\ cur' = buf'[Timer] => KeptSince(cur)'
  BY DataAssumption DEF Recent, KeptSince, IInv, TypeOK
<1>5. /\ pc[Timer] # "writeCur" => KeptSince(cur)
      /\ pc[Timer] # "writeBak" => KeptSince(bak)
  BY DEF TermInv
<1>6. CASE CopyRecord(Timer)
  BY <1>1, <1>3, <1>5, <1>6 DEF CopyRecord, At, files
<1>7. CASE OpenCur(Timer)
  BY <1>1, <1>2, <1>3, <1>5, <1>7 DEF OpenCur, At, Goto
<1>8. CASE WriteCur(Timer)
  <2>1. pc[Timer] = "writeCur" /\ pc'[Timer] = "openBak" /\ bak' = bak
    BY <1>2, <1>8 DEF WriteCur, At, Goto
  <2>2. KeptSince(cur)'
    BY <1>1, <1>4, <2>1 DEF RecentSave
  <2> QED
    BY <1>1, <1>3, <1>5, <2>1, <2>2
<1>9. CASE OpenBak(Timer)
  <2>1. pc[Timer] = "openBak" /\ cur' = cur /\ cur # NoFile
    BY <1>5, <1>9 DEF OpenBak, At, KeptSince
  <2>2. pc'[Timer] = "writeBak"
    BY <1>2, <1>9, <2>1 DEF OpenBak, Goto
  <2> QED
    BY <1>1, <1>3, <1>5, <2>1, <2>2
<1>10. CASE WriteBak(Timer)
  <2>1. pc[Timer] = "writeBak" /\ cur' = cur /\ pc'[Timer] = "saved"
    BY <1>2, <1>10 DEF WriteBak, At, Goto
  <2>2. KeptSince(cur)' /\ bak' = cur'
    BY <1>1, <1>3, <1>5, <2>1 DEF RecentSave
  <2> QED
    BY <1>1, <2>1, <2>2 DEF KeptSince
<1> QED
  BY <1>1, <1>6, <1>7, <1>8, <1>9, <1>10

\* TermInv is inductive.
LEMMA TermInvStep ==
  ASSUME Orderly, IInv, IInv', OrderlyInv, OrderlyInv', TermInv, [Next]_vars
  PROVE  TermInv'
<1> USE ThreadAssumption DEF Ending, Termed
<1>1. Termed => Grown /\ Recent(repo)'
  BY RecentStays
<1>2. /\ Timer \in Threads /\ Main \in Threads /\ Timer # Main /\ Timer \notin Clients
      /\ Main \notin Clients /\ pc \in [Threads -> Labels] /\ buf \in [Threads -> Config]
      /\ todo \in [Threads -> SUBSET Params]
      /\ cont \in [Threads -> {"none", "timer", "flash", "bootFlash", "load"}]
  BY ThreadFacts DEF IInv, TypeOK
<1>3. cont[Main] = "flash" => pc[Main] \in {"flashLock"} \cup SaveSteps
  BY DEF OrderlyInv
<1>4. CASE /\ pc'[Main] = pc[Main] /\ cont'[Main] = cont[Main] /\ buf'[Main] = buf[Main]
           /\ todo'[Main] = todo[Main]
           /\ UNCHANGED files \/ pc[Main] \notin SaveSteps \/ Ending
           /\ Ending => /\ RecentSave(Timer)'
                        /\ pc'[Timer] # "writeCur" => KeptSince(cur)'
                        /\ pc'[Timer] # "writeBak" => KeptSince(bak)'
  <2>1. cont[Main] = "flash" => ~Ending
    BY <1>3 DEF SaveSteps, FileOps, SaveEnds
  <2>2. cont[Main] = "flash" => RecentSave(Main)'
    BY <1>1, <1>3, <1>4, <2>1, MainWaits
  <2> QED
    BY <1>1, <1>4, <2>2 DEF TermInv
<1>5. CASE /\ pc'[Main] = pc[Main] /\ cont'[Main] = cont[Main] /\ UNCHANGED files
           /\ pc'[Timer] = pc[Timer] /\ UNCHANGED <<buf, todo>>
  <2>1. Ending => /\ RecentSave(Timer)'
                  /\ pc'[Timer] # "writeCur" => KeptSince(cur)'
                  /\ pc'[Timer] # "writeBak" => KeptSince(bak)'
    BY <1>1, <1>5, TimerWaits
  <2> QED
    BY <1>4, <1>5, <2>1
<1>6. CASE TimePasses \/ UNCHANGED vars
  BY <1>5, <1>6 DEF TimePasses, vars
<1>7. ASSUME NEW t \in Clients,
             Receive(t) \/ LockThread(t) \/ WriteItem(t) \/ SkipEqualItem(t)
               \/ DeleteItem(t) \/ DisableWritingItem(t) \/ Reply(t)
      PROVE  TermInv'
  BY <1>2, <1>5, <1>7 DEF Receive, LockThread, WriteItem, SkipEqualItem, DeleteItem,
    DisableWritingItem, Reply, Goto
<1>8. ASSUME NEW t \in Clients, FactoryResetItem(t) PROVE TermInv'
  BY <1>5, <1>8 DEF FactoryResetItem, Orderly
<1>9. CASE TimerFires \/ TimerLocksAccess \/ TimerStartsSave \/ TimerSkipsSave \/ TimerEndsSave
  <2>1. /\ pc'[Main] = pc[Main] /\ cont'[Main] = cont[Main] /\ buf'[Main] = buf[Main]
        /\ todo'[Main] = todo[Main] /\ UNCHANGED files
    BY <1>2, <1>9 DEF TimerFires, TimerLocksAccess, TimerStartsSave, TimerSkipsSave,
      TimerEndsSave, EnterSave, Goto, Free
  <2>2. pc[Timer] \in {"idle", "waitAccess", "waitThread", "saved", "saveFailed"}
    BY <1>9 DEF TimerFires, TimerLocksAccess, TimerStartsSave, TimerSkipsSave,
      TimerEndsSave, At, SaveEnds
  <2>3. RecentSave(Timer)'
    <3>1. CASE TimerStartsSave
      <4>1. pc'[Timer] = "serialise" /\ todo'[Timer] = Params
        BY <1>2, <3>1 DEF TimerStartsSave, EnterSave, Goto
      <4> QED
        BY <4>1 DEF RecentSave, FileOps
    <3>2. CASE TimerFires \/ TimerLocksAccess \/ TimerSkipsSave \/ TimerEndsSave
      <4>1. pc'[Timer] \in {"idle", "waitAccess", "waitThread"}
        BY <1>2, <3>2 DEF TimerFires, TimerLocksAccess, TimerSkipsSave, TimerEndsSave, Goto
      <4> QED
        BY <4>1 DEF RecentSave, FileOps
    <3> QED
      BY <1>9, <3>1, <3>2
  <2>4. Ending => KeptSince(cur)' /\ KeptSince(bak)'
    <3> SUFFICES ASSUME Ending PROVE KeptSince(cur)' /\ KeptSince(bak)'
      OBVIOUS
    <3>1. KeptSince(cur) /\ KeptSince(bak)
      BY <2>2 DEF TermInv
    <3> QED
      BY <1>1, <2>1, <3>1, RecentGrows DEF KeptSince, files
  <2> QED
    BY <1>4, <2>1, <2>3, <2>4
<1>10. CASE CopyRecord(Timer) \/ OpenCur(Timer) \/ WriteCur(Timer) \/ OpenBak(Timer)
            \/ WriteBak(Timer)
  <2>1. /\ pc'[Main] = pc[Main] /\ cont'[Main] = cont[Main] /\ buf'[Main] = buf[Main]
        /\ todo'[Main] = todo[Main]
    BY <1>2, <1>10 DEF CopyRecord, OpenCur, WriteCur, OpenBak, WriteBak, Goto
  <2>2. pc[Timer] \in FileOps \cup {"serialise"}
    BY <1>10 DEF CopyRecord, OpenCur, WriteCur, OpenBak, WriteBak, At, FileOps
  <2>3. cont[Main] = "flash" => pc[Main] \notin SaveSteps
    BY <2>2, HandlerAlone DEF FileOps
  <2>4. Ending => /\ RecentSave(Timer)'
                  /\ pc'[Timer] # "writeCur" => KeptSince(cur)'
                  /\ pc'[Timer] # "writeBak" => KeptSince(bak)'
    BY <1>1, <1>10, FlushGoesOn
  <2>5. CASE cont[Main] = "flash" \/ Ending
    BY <1>4, <2>1, <2>3, <2>4, <2>5
  <2>6. CASE ~Termed
    BY <2>1, <2>6 DEF TermInv
  <2> QED
    BY <2>5, <2>6
<1>11. CASE CopyRecord(Main) \/ OpenCur(Main) \/ WriteCur(Main) \/ OpenBak(Main)
            \/ WriteBak(Main)
  <2>1. cont'[Main] = cont[Main] /\ pc[Main] \in FileOps \cup {"serialise"}
        /\ pc'[Main] \in FileOps \cup {"serialise", "saved", "saveFailed"}
    BY <1>2, <1>11 DEF CopyRecord, OpenCur, WriteCur, OpenBak, WriteBak, At, Goto, FileOps
  <2>2. cont[Main] = "flash" => RecentSave(Main)'
    BY <1>1, <1>11, SaveGoesOn DEF TermInv
  <2> QED
    BY <1>1, <2>1, <2>2 DEF TermInv, FileOps
<1>12. CASE TermServing
  <2>1. pc'[Main] = "flashLock" /\ repo' = repo /\ sinceTerm' = [p \in Params |-> {repo[p]}]
    BY <1>2, <1>12 DEF TermServing, Goto
  <2>2. Recent(repo)'
    BY <2>1 DEF Recent
  <2>3. RecentSave(Main)'
    BY <2>1 DEF RecentSave, FileOps
  <2> QED
    BY <2>1, <2>2, <2>3 DEF TermInv
<1>13. CASE FlashLocks(Main)
  <2>1. pc'[Main] = "serialise" /\ todo'[Main] = Params /\ pc[Main] = "flashLock"
    BY <1>2, <1>13 DEF FlashLocks, EnterSave, At, Goto
  <2>2. RecentSave(Main)' /\ cont[Main] = "flash"
    BY <2>1 DEF RecentSave, FileOps, OrderlyInv
  <2> QED
    BY <1>1, <2>1, <2>2 DEF TermInv
<1>14. CASE FlashEnds(Main)
  <2>1. /\ pc[Main] = "saved" /\ cont[Main] = "flash" /\ cont'[Main] = "none"
        /\ UNCHANGED files /\ pc'[Timer] = pc[Timer]
    BY <1>2, <1>14 DEF FlashEnds, Goto, Free, OrderlyInv, SaveEnds
  <2>2. pc[Timer] \in {"idle", "waitAccess"}
    BY <2>1, HandlerAlone DEF SaveSteps, SaveEnds
  <2>3. RecentSave(Timer)'
    BY <2>1, <2>2 DEF RecentSave, FileOps
  <2>4. Recent(buf[Main]) /\ cur = buf[Main] /\ bak = cur
    BY <2>1 DEF TermInv, RecentSave
  <2>5. KeptSince(cur) /\ KeptSince(bak)
    BY <1>2, <2>4, DataAssumption DEF Recent, KeptSince
  <2>6. KeptSince(cur)' /\ KeptSince(bak)'
    BY <1>1, <2>1, <2>5, RecentGrows DEF KeptSince, files
  <2> QED
    BY <1>1, <2>1, <2>3, <2>6 DEF TermInv
<1>15. CASE Exit
  <2>1. /\ pc[Main] = "exiting" /\ cont'[Main] = cont[Main] /\ UNCHANGED files
        /\ pc'[Timer] = pc[Timer] /\ UNCHANGED <<buf, todo>>
    BY <1>2, <1>15 DEF Exit, At, Goto
  <2>2. cont[Main] # "flash"
    BY <1>3, <2>1 DEF SaveSteps, FileOps, SaveEnds
  <2>3. /\ RecentSave(Timer)'
        /\ pc'[Timer] # "writeCur" => KeptSince(cur)'
        /\ pc'[Timer] # "writeBak" => KeptSince(bak)'
    BY <1>1, <2>1, TimerWaits
  <2> QED
    BY <1>1, <2>1, <2>2, <2>3 DEF TermInv
<1>16. CASE LoadRead(Main) \/ LoadParsed(Main) \/ ApplyRecord(Main) \/ LoadEnds(Main)
  <2>1. cont'[Main] # "flash" /\ pc'[Main] \notin {"exiting", "exited"}
    <3>1. CASE LoadRead(Main)
      BY <1>2, <3>1 DEF LoadRead, Goto
    <3>2. CASE LoadParsed(Main)
      BY <1>2, <3>2 DEF LoadParsed, Goto
    <3>3. CASE ApplyRecord(Main)
      BY <1>3, <3>3 DEF ApplyRecord, At, SaveSteps, FileOps, SaveEnds
    <3>4. CASE LoadEnds(Main)
      BY <1>2, <3>4 DEF LoadEnds, Goto, Free
    <3> QED
      BY <1>16, <3>1, <3>2, <3>3, <3>4
  <2> QED
    BY <2>1 DEF TermInv
<1> QED
  BY <1>6, <1>7, <1>8, <1>9, <1>10, <1>11, <1>12, <1>13, <1>14, <1>15, <1>16, OrderlyNext

\* When the process has ended after SIGTERM, the current file or its backup holds, for
\* each record, a value that it had since the signal came: a flush that waited for
\* AccessLock may still be rewriting one of them (PsmSysroSaveConfigToFlash releases the
\* lock before the handler exits), but never both.
THEOREM TermKeepsACopyCorrect == ASSUME Orderly PROVE Spec => []TermKeepsACopy
<1>1. Init => OrderlyInv /\ TermInv
  <2> SUFFICES ASSUME Init PROVE OrderlyInv /\ TermInv
    OBVIOUS
  <2>1. /\ pc[Main] = "loadRead" /\ pc[Timer] = "idle" /\ cont[Main] = "none"
        /\ faults = 0 /\ \A t \in Clients : pc[t] = "idle" /\ req[t] = << >>
    BY ThreadAssumption, ThreadFacts DEF Init, Threads
  <2> QED
    BY <2>1 DEF OrderlyInv, TermInv, Termed, Ending
<1>2. Orderly /\ IInv /\ IInv' /\ OrderlyInv /\ TermInv /\ [Next]_vars =>
        (OrderlyInv /\ TermInv)'
  BY OrderlyInvStep, TermInvStep
<1>3. TermInv => TermKeepsACopy
  BY DEF TermInv, TermKeepsACopy, Ending
<1> QED
  BY Orderly, <1>1, <1>2, <1>3, Invariance, PTL DEF Spec

\* Nor do the handler's save and the timer's flush ever write at the same time.
THEOREM OneFileWriterAtTermCorrect == ASSUME Orderly PROVE Spec => []OneFileWriter
<1>1. Init => OrderlyInv
  BY ThreadAssumption, ThreadFacts DEF Init, Threads, OrderlyInv
<1>2. Orderly /\ IInv /\ IInv' /\ OrderlyInv /\ [Next]_vars => OrderlyInv'
  BY OrderlyInvStep
<1>3. Orderly /\ IInv /\ OrderlyInv => OneFileWriter
  <2> SUFFICES ASSUME Orderly, IInv, OrderlyInv, NEW t \in Threads, NEW u \in Threads,
                      pc[t] \in FileOps, pc[u] \in FileOps
               PROVE  t = u
    BY DEF OneFileWriter
  <2>1. t \in {Timer, Main} /\ u \in {Timer, Main}
    BY DEF Threads, Orderly, OrderlyInv, FileOps
  <2>2. ~(pc[Timer] \in FileOps /\ pc[Main] \in FileOps)
    BY ThreadAssumption
    DEF IInv, LockInv, BootInv, Booting, Threads, SaveSteps, FileOps, SaveEnds
  <2> QED
    BY <2>1, <2>2
<1> QED
  BY Orderly, <1>1, <1>2, <1>3, Invariance, PTL DEF Spec
=============================================================================
