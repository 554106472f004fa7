---------------------------- MODULE PsmRegistry ----------------------------
(***************************************************************************)
(* The write-back protocol of the PSM system registry: bus handlers change *)
(* the in-memory configuration, SysRamNotify marks it dirty, the periodic  *)
(* registry timer flushes it to the current and the backup file, and       *)
(* ReloadConfig, FactoryReset, DisableWriting and SIGTERM interfere.       *)
(*                                                                         *)
(* A thread takes one step for every access to state another thread can    *)
(* see: taking a lock, copying one record, truncating or writing one file. *)
(***************************************************************************)
EXTENDS Integers, Sequences, FiniteSets

CONSTANTS
  Clients,      \* bus threads that run setParameterValues and its siblings
  ResetTasks,   \* threads AnscSpawnTask may create for doFactoryResetTask
  Timer,        \* the ANSC timer thread, which calls RegTimerInvoke
  Main,         \* the main thread: Engage, then sleep and the SIGTERM handler
  NoThread,     \* the owner of a free lock
  Params,       \* names of the records under /Configuration/Provision
  Vals,         \* values of a record
  Absent,       \* a record that is not there
  NoFile,       \* a file that does not exist
  Default,      \* the default configuration file (never written)
  Requests,     \* the requests a client may send, as sequences of items
  RefCountMod,  \* 2^w for the w bits of the ULONG FileSyncRefCount
  TermAllowed,  \* whether SIGTERM may arrive while the bus is served
  BootTermAllowed, \* whether SIGTERM may arrive while Engage is loading
  MaxRequests,  \* bound: requests in a behaviour
  MaxFaults     \* bound: failing calls (allocation, open, write) in a behaviour

Threads == Clients \cup ResetTasks \cup {Timer, Main}
Config  == [Params -> Vals \cup {Absent}]
File    == Config \cup {NoFile}

SetItem == [op : {"write"}, param : Params, val : Vals]
           \cup [op : {"disableWriting"}, on : BOOLEAN]
           \cup [op : {"reload", "factoryReset"}]
DelItem == [op : {"delete"}, param : Params]

ASSUME ThreadAssumption ==
  /\ Clients \cap ResetTasks = {}
  /\ Timer \notin Clients \cup ResetTasks
  /\ Main \notin Clients \cup ResetTasks
  /\ Timer # Main
  /\ NoThread \notin Threads

ASSUME DataAssumption ==
  /\ Params # {}
  /\ Absent \notin Vals
  /\ NoFile \notin Config
  /\ Default \in Config
  /\ Requests \subseteq Seq(SetItem) \cup Seq(DelItem)

ASSUME BoundAssumption ==
  /\ RefCountMod \in Nat /\ RefCountMod > 1
  /\ TermAllowed \in BOOLEAN /\ BootTermAllowed \in BOOLEAN
  /\ MaxRequests \in Nat
  /\ MaxFaults \in Nat

VARIABLES
  repo,              \* the in-memory configuration
  cur, bak,          \* the current and the backup configuration file
  bNoSave, bNeedFlush, bSaveInProgress, FileSyncRefCount,
  quiet,             \* LastRegWriteAt is at least FLUSH_DELAY seconds old
  timerOn,           \* the registry timer is started
  accessLock, threadLock,
  pc,                \* where each thread stands
  cont,              \* who called the save routine: "timer", "flash", "load", or
                     \* "bootFlash" for a SIGTERM that interrupts the load
  req,               \* the items a client has still to process
  buf, todo,         \* a thread's file buffer, the records it has still to copy
  requests, faults,  \* how much of the two bounds is used
  applied,           \* history: repo when no request was being processed
  sinceTerm          \* history: values a record had since SIGTERM arrived

files   == <<cur, bak>>
flags   == <<bNoSave, bNeedFlush, bSaveInProgress, FileSyncRefCount, quiet, timerOn>>
locks   == <<accessLock, threadLock>>
history == <<applied, sinceTerm>>
vars    == <<repo, files, flags, locks, pc, cont, req, buf, todo, requests,
             faults, history>>

EmptyConfig == [p \in Params |-> Absent]
FileOps     == {"openCur", "writeCur", "openBak", "writeBak"}
SaveEnds    == {"saved", "saveFailed"}
SaveSteps   == {"serialise"} \cup FileOps \cup SaveEnds
Labels      == {"idle", "waitThread", "item", "flashLock", "reload", "loadRead",
                "apply", "waitAccess", "resetStart", "unlinkCur", "unlinkBak",
                "reboot", "up", "exiting", "exited"} \cup SaveSteps

Alive   == pc[Main] # "exited"
Serving == pc[Main] \in {"up", "exiting"} \/ cont[Main] = "flash"

\* Engage has not yet returned: the bus is not connected.
Booting == pc[Main] = "loadRead" \/ cont[Main] = "load"

Goto(t, l) == pc' = [pc EXCEPT ![t] = l]
At(t, l)   == Alive /\ pc[t] = l
MayFail    == faults < MaxFaults /\ faults' = faults + 1

\* The buffers of a finished save or load are freed.
Free(t) ==
  /\ cont' = [cont EXCEPT ![t] = "none"]
  /\ buf' = [buf EXCEPT ![t] = EmptyConfig]
  /\ todo' = [todo EXCEPT ![t] = {}]

\* Missing records take their default; a record of the file is never overwritten.
Merge(c) == [p \in Params |-> IF c[p] # Absent THEN c[p] ELSE Default[p]]

\* What an interrupted write may leave: any part of the records.
Partial(c) == {[p \in Params |-> IF p \in S THEN c[p] ELSE Absent] : S \in SUBSET Params}

\* A write starts at offset 0 of what another writer may have left in the file.
Over(c, f) == {m \in Config : \A p \in Params : m[p] \in {c[p]} \cup ({f[p]} \ {Absent})}

Init ==
  /\ repo = EmptyConfig
  /\ cur \in File /\ bak \in File
  /\ bNoSave = TRUE /\ bNeedFlush = FALSE /\ bSaveInProgress = FALSE
  /\ FileSyncRefCount = 0 /\ quiet = TRUE /\ timerOn = TRUE
  /\ accessLock = NoThread /\ threadLock = NoThread
  /\ pc = [t \in Threads |-> IF t = Main THEN "loadRead" ELSE "idle"]
  /\ cont = [t \in Threads |-> "none"]
  /\ req = [t \in Clients |-> <<>>]
  /\ buf = [t \in Threads |-> EmptyConfig]
  /\ todo = [t \in Threads |-> {}]
  /\ requests = 0 /\ faults = 0
  /\ applied = EmptyConfig
  /\ sinceTerm = [p \in Params |-> {}]

-----------------------------------------------------------------------------
(* Changing the repository.                                                *)

Notify ==
  IF bNoSave \/ bSaveInProgress
  THEN UNCHANGED <<bNeedFlush, quiet>>
  ELSE bNeedFlush' = TRUE /\ quiet' = FALSE

\* The repository changes a record and calls back SysRamNotify.
ChangeRecord(p, v) ==
  /\ repo' = [repo EXCEPT ![p] = v]
  /\ Notify
  /\ sinceTerm' = IF sinceTerm[p] = {} THEN sinceTerm
                  ELSE [sinceTerm EXCEPT ![p] = @ \cup {v}]

TimePasses ==
  /\ Alive /\ ~quiet
  /\ quiet' = TRUE
  /\ UNCHANGED <<repo, files, bNoSave, bNeedFlush, bSaveInProgress, FileSyncRefCount,
                 timerOn, locks, pc, cont, req, buf, todo, requests, faults, history>>

-----------------------------------------------------------------------------
(* SaveRegFile and SaveCurConfig, run by the timer, by SaveConfigToFlash   *)
(* and, from openCur on, by ReadCurConfig.                                 *)

\* Assignments of the caller that enters SaveRegFile.
EnterSave(t, who) ==
  /\ Goto(t, "serialise")
  /\ cont' = [cont EXCEPT ![t] = who]
  /\ buf' = [buf EXCEPT ![t] = EmptyConfig]
  /\ todo' = [todo EXCEPT ![t] = Params]
  /\ bSaveInProgress' = TRUE

CopyRecord(t) ==
  /\ At(t, "serialise")
  /\ \E p \in todo[t] :
       /\ buf' = [buf EXCEPT ![t][p] = repo[p]]
       /\ todo' = [todo EXCEPT ![t] = @ \ {p}]
       /\ Goto(t, IF todo[t] = {p} THEN "openCur" ELSE "serialise")
  /\ UNCHANGED <<repo, files, flags, locks, cont, req, requests, faults, history>>

\* Write access, the folder, the DOM tree or the encoding buffer is refused.
SaveRegFileFails(t) ==
  /\ At(t, "serialise")
  /\ MayFail
  /\ Goto(t, "saveFailed")
  /\ UNCHANGED <<repo, files, flags, locks, cont, req, buf, todo, requests, history>>

OpenCur(t) ==
  /\ At(t, "openCur")
  /\ \/ cur' = EmptyConfig /\ Goto(t, "writeCur") /\ UNCHANGED faults
     \/ MayFail /\ Goto(t, "saveFailed") /\ UNCHANGED cur
  /\ UNCHANGED <<repo, bak, flags, locks, cont, req, buf, todo, requests, history>>

\* Mutant: SaveCurConfig without its call of backup_file.
WriteCurWithoutBackup(t) ==
  /\ At(t, "writeCur")
  /\ cur' \in IF cur = NoFile THEN {NoFile} ELSE Over(buf[t], cur)
  /\ Goto(t, "saved")
  /\ UNCHANGED <<repo, bak, flags, locks, cont, req, buf, todo, requests, faults, history>>

\* A file unlinked while it is open receives the data but has no name.
WriteCur(t) ==
  /\ At(t, "writeCur")
  /\ \/ /\ cur' \in IF cur = NoFile THEN {NoFile} ELSE Over(buf[t], cur)
        /\ Goto(t, "openBak")
        /\ UNCHANGED faults
     \/ /\ MayFail
        /\ \E c \in Partial(buf[t]) :
             cur' \in IF cur = NoFile THEN {NoFile} ELSE Over(c, cur)
        /\ Goto(t, "saveFailed")
  /\ UNCHANGED <<repo, bak, flags, locks, cont, req, buf, todo, requests, history>>

\* backup_file: its failure is only logged.
OpenBak(t) ==
  /\ At(t, "openBak")
  /\ \/ cur # NoFile /\ bak' = EmptyConfig /\ Goto(t, "writeBak") /\ UNCHANGED faults
     \/ cur = NoFile /\ Goto(t, "saved") /\ UNCHANGED <<bak, faults>>
     \/ MayFail /\ Goto(t, "saved") /\ UNCHANGED bak
  /\ UNCHANGED <<repo, cur, flags, locks, cont, req, buf, todo, requests, history>>

\* It copies a mapping of the current file: the data just written, unless another
\* writer has changed the file under it.
Mapped(t) == {buf[t]} \cup (IF cur \in {NoFile, buf[t]} THEN {} ELSE Partial(cur))

WriteBak(t) ==
  /\ At(t, "writeBak")
  /\ \E c \in Mapped(t) :
       \/ bak' \in (IF bak = NoFile THEN {NoFile} ELSE Over(c, bak)) /\ UNCHANGED faults
       \/ /\ MayFail
          /\ bak' \in IF bak = NoFile THEN {NoFile} ELSE Partial(c)
  /\ Goto(t, "saved")
  /\ UNCHANGED <<repo, cur, flags, locks, cont, req, buf, todo, requests, history>>

SaveRoutine(t) ==
  \/ CopyRecord(t) \/ SaveRegFileFails(t)
  \/ OpenCur(t) \/ WriteCur(t) \/ OpenBak(t) \/ WriteBak(t)

-----------------------------------------------------------------------------
(* The registry timer.                                                     *)

\* The dirty and the delay tests are made before any lock is taken.
TimerFires ==
  /\ At(Timer, "idle") /\ timerOn
  /\ bNeedFlush /\ quiet
  /\ Goto(Timer, "waitAccess")
  /\ UNCHANGED <<repo, files, flags, locks, cont, req, buf, todo, requests, faults, history>>

TimerReturns ==
  /\ At(Timer, "idle") /\ timerOn
  /\ ~bNeedFlush \/ ~quiet
  /\ UNCHANGED vars

TimerLocksAccess ==
  /\ At(Timer, "waitAccess") /\ accessLock = NoThread
  /\ accessLock' = Timer
  /\ Goto(Timer, "waitThread")
  /\ UNCHANGED <<repo, files, flags, threadLock, cont, req, buf, todo, requests,
                 faults, history>>

\* Mutants: the flush without ThreadLock, and without the test of FileSyncRefCount.
TimerStartsSaveUnlocked ==
  /\ At(Timer, "waitThread")
  /\ FileSyncRefCount = 0
  /\ EnterSave(Timer, "timer")
  /\ UNCHANGED <<repo, files, bNoSave, bNeedFlush, FileSyncRefCount, quiet, timerOn,
                 locks, req, requests, faults, history>>

TimerStartsSaveUncounted ==
  /\ At(Timer, "waitThread") /\ threadLock = NoThread
  /\ threadLock' = Timer
  /\ EnterSave(Timer, "timer")
  /\ UNCHANGED <<repo, files, bNoSave, bNeedFlush, FileSyncRefCount, quiet, timerOn,
                 accessLock, req, requests, faults, history>>

TimerStartsSave ==
  /\ At(Timer, "waitThread") /\ threadLock = NoThread
  /\ FileSyncRefCount = 0
  /\ threadLock' = Timer
  /\ EnterSave(Timer, "timer")
  /\ UNCHANGED <<repo, files, bNoSave, bNeedFlush, FileSyncRefCount, quiet, timerOn,
                 accessLock, req, requests, faults, history>>

\* Mutant: the dirty flag is cleared although nothing was written.
TimerSkipsSaveClears ==
  /\ At(Timer, "waitThread") /\ threadLock = NoThread
  /\ FileSyncRefCount > 0
  /\ bNeedFlush' = FALSE
  /\ accessLock' = NoThread
  /\ Goto(Timer, "idle")
  /\ UNCHANGED <<repo, files, bNoSave, bSaveInProgress, FileSyncRefCount, quiet, timerOn,
                 threadLock, cont, req, buf, todo, requests, faults, history>>

\* Writing is disabled: both locks are released and the change stays pending.
TimerSkipsSave ==
  /\ At(Timer, "waitThread") /\ threadLock = NoThread
  /\ FileSyncRefCount > 0
  /\ accessLock' = NoThread
  /\ Goto(Timer, "idle")
  /\ UNCHANGED <<repo, files, flags, threadLock, cont, req, buf, todo, requests,
                 faults, history>>

\* Mutants: AccessLock is not released; a failed save leaves bSaveInProgress up.
TimerEndsSaveKeepsLock ==
  /\ Alive /\ pc[Timer] \in SaveEnds
  /\ bNeedFlush' = FALSE /\ bSaveInProgress' = FALSE
  /\ threadLock' = NoThread
  /\ Free(Timer)
  /\ Goto(Timer, "idle")
  /\ UNCHANGED <<repo, files, bNoSave, FileSyncRefCount, quiet, timerOn, accessLock, req,
                 requests, faults, history>>

TimerEndsSaveInProgress ==
  /\ Alive /\ pc[Timer] \in SaveEnds
  /\ bNeedFlush' = FALSE /\ bSaveInProgress' = (pc[Timer] = "saveFailed")
  /\ accessLock' = NoThread /\ threadLock' = NoThread
  /\ Free(Timer)
  /\ Goto(Timer, "idle")
  /\ UNCHANGED <<repo, files, bNoSave, FileSyncRefCount, quiet, timerOn, req, requests,
                 faults, history>>

\* The dirty flag is cleared whatever SaveRegFile returned.
TimerEndsSave ==
  /\ Alive /\ pc[Timer] \in SaveEnds
  /\ bNeedFlush' = FALSE /\ bSaveInProgress' = FALSE
  /\ accessLock' = NoThread /\ threadLock' = NoThread
  /\ Free(Timer)
  /\ Goto(Timer, "idle")
  /\ UNCHANGED <<repo, files, bNoSave, FileSyncRefCount, quiet, timerOn, req, requests,
                 faults, history>>

TimerStep ==
  \/ TimerFires \/ TimerLocksAccess \/ TimerStartsSave \/ TimerSkipsSave
  \/ TimerEndsSave \/ SaveRoutine(Timer)

-----------------------------------------------------------------------------
(* SaveConfigToFlash, called by ReloadConfig and by the SIGTERM handler.   *)

\* Mutant: SaveConfigToFlash does not take AccessLock.
FlashLocksUnguarded(t) ==
  /\ At(t, "flashLock")
  /\ timerOn' = FALSE
  /\ EnterSave(t, "flash")
  /\ UNCHANGED <<repo, files, bNoSave, bNeedFlush, FileSyncRefCount, quiet, locks,
                 req, requests, faults, history>>

FlashLocks(t) ==
  /\ At(t, "flashLock") /\ accessLock = NoThread
  /\ accessLock' = t
  /\ timerOn' = FALSE
  /\ EnterSave(t, IF cont[t] = "none" THEN "flash" ELSE cont[t])
  /\ UNCHANGED <<repo, files, bNoSave, bNeedFlush, FileSyncRefCount, quiet, threadLock,
                 req, requests, faults, history>>

FlashEnds(t) ==
  /\ Alive /\ pc[t] \in SaveEnds /\ cont[t] \in {"flash", "bootFlash"}
  /\ bNeedFlush' = FALSE /\ bSaveInProgress' = FALSE
  /\ accessLock' = NoThread
  /\ Free(t)
  /\ Goto(t, IF t # Main THEN "reload"
             ELSE IF cont[t] = "flash" THEN "exiting" ELSE "exited")
  /\ UNCHANGED <<repo, files, bNoSave, FileSyncRefCount, quiet, timerOn, threadLock,
                 req, requests, faults, history>>

-----------------------------------------------------------------------------
(* LoadRegFile, called by Engage and by ReloadConfig.                      *)

\* The backup is read only when the current file cannot be opened.
Readable == IF cur # NoFile THEN cur ELSE IF bak # NoFile THEN bak ELSE EmptyConfig

\* ReadCurConfig merges what it reads and saves the result before it returns.
LoadRead(t) ==
  /\ At(t, "loadRead")
  /\ cont' = [cont EXCEPT ![t] = "load"]
  /\ \/ /\ buf' = [buf EXCEPT ![t] = Merge(Readable)]
        /\ Goto(t, "openCur")
        /\ UNCHANGED faults
     \/ /\ MayFail
        /\ Goto(t, "saveFailed")
        /\ UNCHANGED buf
  /\ UNCHANGED <<repo, files, flags, locks, req, todo, requests, history>>

LoadParsed(t) ==
  /\ At(t, "saved") /\ cont[t] = "load"
  /\ todo' = [todo EXCEPT ![t] = {p \in Params : buf[t][p] # Absent}]
  /\ Goto(t, "apply")
  /\ UNCHANGED <<repo, files, flags, locks, cont, req, buf, requests, faults, history>>

ApplyRecord(t) ==
  /\ At(t, "apply")
  /\ \E p \in todo[t] :
       /\ ChangeRecord(p, buf[t][p])
       /\ todo' = [todo EXCEPT ![t] = @ \ {p}]
  /\ UNCHANGED <<files, bNoSave, bSaveInProgress, FileSyncRefCount, timerOn, locks, pc,
                 cont, req, buf, requests, faults, applied>>

\* Engage and ReloadConfig both ignore what LoadRegFile returns.
LoadEnds(t) ==
  /\ \/ At(t, "apply") /\ todo[t] = {} /\ UNCHANGED faults
     \/ At(t, "apply") /\ todo[t] # {} /\ MayFail
     \/ At(t, "saveFailed") /\ cont[t] = "load" /\ UNCHANGED faults
  /\ Free(t)
  /\ IF t = Main
     THEN Goto(t, "up") /\ bNoSave' = FALSE /\ applied' = repo
     ELSE Goto(t, "item") /\ UNCHANGED <<bNoSave, applied>>
  /\ UNCHANGED <<repo, files, bNeedFlush, bSaveInProgress, FileSyncRefCount, quiet,
                 timerOn, locks, req, requests, sinceTerm>>

LoadRoutine(t) == LoadRead(t) \/ LoadParsed(t) \/ ApplyRecord(t) \/ LoadEnds(t)

-----------------------------------------------------------------------------
(* Bus handlers: setParameterValues and setParameterAttributes.            *)

Receive(t) ==
  /\ At(t, "idle") /\ Serving
  /\ requests < MaxRequests
  /\ requests' = requests + 1
  /\ req' \in {[req EXCEPT ![t] = r] : r \in Requests}
  /\ Goto(t, "waitThread")
  /\ UNCHANGED <<repo, files, flags, locks, cont, buf, todo, faults, history>>

\* When the folder of the records cannot be opened, nothing of the request is done.
LockThread(t) ==
  /\ At(t, "waitThread") /\ threadLock = NoThread
  /\ threadLock' = t
  /\ req' \in {req, [req EXCEPT ![t] = << >>]}
  /\ Goto(t, "item")
  /\ UNCHANGED <<repo, files, flags, accessLock, cont, buf, todo, requests, faults, history>>

Item(t, ops) == At(t, "item") /\ req[t] # <<>> /\ Head(req[t]).op \in ops
NextItem(t)  == req' = [req EXCEPT ![t] = Tail(@)]

\* GetRecord is given an uninitialised buffer size, so an equal value may or
\* may not be recognised.
WriteItem(t) ==
  /\ Item(t, {"write"})
  /\ ChangeRecord(Head(req[t]).param, Head(req[t]).val)
  /\ NextItem(t)
  /\ UNCHANGED <<files, bNoSave, bSaveInProgress, FileSyncRefCount, timerOn, locks, pc,
                 cont, buf, todo, requests, faults, applied>>

SkipEqualItem(t) ==
  /\ Item(t, {"write"})
  /\ repo[Head(req[t]).param] = Head(req[t]).val
  /\ NextItem(t)
  /\ UNCHANGED <<repo, files, flags, locks, pc, cont, buf, todo, requests, faults, history>>

DeleteItem(t) ==
  /\ Item(t, {"delete"})
  /\ IF repo[Head(req[t]).param] # Absent
     THEN ChangeRecord(Head(req[t]).param, Absent)
     ELSE UNCHANGED <<repo, bNeedFlush, quiet, sinceTerm>>
  /\ NextItem(t)
  /\ UNCHANGED <<files, bNoSave, bSaveInProgress, FileSyncRefCount, timerOn, locks, pc,
                 cont, buf, todo, requests, faults, applied>>

\* Mutant: a signed count.
DisableWritingSigned(t) ==
  /\ Item(t, {"disableWriting"})
  /\ accessLock = NoThread
  /\ FileSyncRefCount' = FileSyncRefCount + (IF Head(req[t]).on THEN -1 ELSE 1)
  /\ NextItem(t)
  /\ UNCHANGED <<repo, files, bNoSave, bNeedFlush, bSaveInProgress, quiet, timerOn, locks,
                 pc, cont, buf, todo, requests, faults, history>>

\* DisableWriting = true enables file synchronisation and false disables it.
DisableWritingItem(t) ==
  /\ Item(t, {"disableWriting"})
  /\ accessLock = NoThread
  /\ FileSyncRefCount' =
       (IF Head(req[t]).on THEN FileSyncRefCount + RefCountMod - 1
                           ELSE FileSyncRefCount + 1) % RefCountMod
  /\ NextItem(t)
  /\ UNCHANGED <<repo, files, bNoSave, bNeedFlush, bSaveInProgress, quiet, timerOn, locks,
                 pc, cont, buf, todo, requests, faults, history>>

ReloadItem(t) ==
  /\ Item(t, {"reload"})
  /\ bNoSave' = TRUE
  /\ NextItem(t)
  /\ Goto(t, "flashLock")
  /\ UNCHANGED <<repo, files, bNeedFlush, bSaveInProgress, FileSyncRefCount, quiet,
                 timerOn, locks, cont, buf, todo, requests, faults, history>>

ReloadResumes(t) ==
  /\ At(t, "reload")
  /\ bNoSave' = FALSE
  /\ timerOn' = TRUE
  /\ Goto(t, "loadRead")
  /\ UNCHANGED <<repo, files, bNeedFlush, bSaveInProgress, FileSyncRefCount, quiet, locks,
                 cont, req, buf, todo, requests, faults, history>>

\* AnscSpawnTask's result is ignored: without a thread the item has no effect.
FactoryResetItem(t) ==
  /\ Item(t, {"factoryReset"})
  /\ \/ \E r \in ResetTasks : pc[r] = "idle" /\ Goto(r, "resetStart")
     \/ (\A r \in ResetTasks : pc[r] # "idle") /\ UNCHANGED pc
  /\ NextItem(t)
  /\ UNCHANGED <<repo, files, flags, locks, cont, buf, todo, requests, faults, history>>

Reply(t) ==
  /\ At(t, "item") /\ req[t] = <<>>
  /\ threadLock' = NoThread
  /\ applied' = repo
  /\ Goto(t, "idle")
  /\ UNCHANGED <<repo, files, flags, accessLock, cont, req, buf, todo, requests, faults,
                 sinceTerm>>

ClientStep(t) ==
  \/ LockThread(t) \/ WriteItem(t) \/ SkipEqualItem(t) \/ DeleteItem(t)
  \/ DisableWritingItem(t) \/ ReloadItem(t) \/ ReloadResumes(t) \/ FactoryResetItem(t)
  \/ FlashLocks(t) \/ FlashEnds(t) \/ SaveRoutine(t) \/ LoadRoutine(t) \/ Reply(t)

-----------------------------------------------------------------------------
(* doFactoryResetTask, in a thread of its own and without any lock.        *)

ResetBegins(t) ==
  /\ At(t, "resetStart")
  /\ bNoSave' = TRUE /\ timerOn' = FALSE
  /\ Goto(t, "unlinkCur")
  /\ UNCHANGED <<repo, files, bNeedFlush, bSaveInProgress, FileSyncRefCount, quiet, locks,
                 cont, req, buf, todo, requests, faults, history>>

UnlinkCur(t) ==
  /\ At(t, "unlinkCur")
  /\ cur' = NoFile
  /\ Goto(t, "unlinkBak")
  /\ UNCHANGED <<repo, bak, flags, locks, cont, req, buf, todo, requests, faults, history>>

\* Mutant: the result of unlink is taken the wrong way round.
UnlinkBakInverted(t) ==
  /\ At(t, "unlinkBak")
  /\ bak' = NoFile
  /\ Goto(t, IF bak # NoFile THEN "idle" ELSE "reboot")
  /\ UNCHANGED <<repo, cur, flags, locks, cont, req, buf, todo, requests, faults, history>>

\* Only the result of the second unlink decides whether a reboot is requested.
UnlinkBak(t) ==
  /\ At(t, "unlinkBak")
  /\ bak' = NoFile
  /\ Goto(t, IF bak # NoFile THEN "reboot" ELSE "idle")
  /\ UNCHANGED <<repo, cur, flags, locks, cont, req, buf, todo, requests, faults, history>>

ResetStep(t) == ResetBegins(t) \/ UnlinkCur(t) \/ UnlinkBak(t)

-----------------------------------------------------------------------------
(* The main thread: Engage, then SIGTERM.                                  *)

TermServing ==
  /\ At(Main, "up") /\ TermAllowed
  /\ bNoSave' = TRUE
  /\ sinceTerm' = [p \in Params |-> {repo[p]}]
  /\ Goto(Main, "flashLock")
  /\ cont' = [cont EXCEPT ![Main] = "flash"]
  /\ UNCHANGED <<repo, files, bNeedFlush, bSaveInProgress, FileSyncRefCount, quiet,
                 timerOn, locks, req, buf, todo, requests, faults, applied>>

\* What the load that is under way has read, or is about to read.
Stored == IF pc[Main] = "loadRead" THEN Merge(Readable) ELSE buf[Main]

\* The handler tests pPsmSysRegistry only, which main sets before it calls Engage,
\* and the load it interrupts does not go on.
TermBooting ==
  /\ Alive /\ Booting /\ BootTermAllowed
  /\ bNoSave' = TRUE
  /\ sinceTerm' = [p \in Params |-> {Stored[p]}]
  /\ applied' = repo
  /\ Goto(Main, "flashLock")
  /\ cont' = [cont EXCEPT ![Main] = "bootFlash"]
  /\ UNCHANGED <<repo, files, bNeedFlush, bSaveInProgress, FileSyncRefCount, quiet,
                 timerOn, locks, req, buf, todo, requests, faults>>

TermSignal == TermServing \/ TermBooting

Exit ==
  /\ At(Main, "exiting")
  /\ Goto(Main, "exited")
  /\ UNCHANGED <<repo, files, flags, locks, cont, req, buf, todo, requests, faults, history>>

MainStep ==
  LoadRoutine(Main) \/ SaveRoutine(Main) \/ FlashLocks(Main) \/ FlashEnds(Main) \/ Exit

Exited == pc[Main] = "exited" /\ UNCHANGED vars

Next ==
  \/ TimerStep \/ TimerReturns \/ TimePasses
  \/ \E t \in Clients : Receive(t) \/ ClientStep(t)
  \/ \E t \in ResetTasks : ResetStep(t)
  \/ MainStep \/ TermSignal \/ Exited

Spec == Init /\ [][Next]_vars

\* Threads are scheduled and time advances; requests and SIGTERM need not come.
Fairness ==
  /\ WF_vars(TimerStep) /\ WF_vars(TimePasses) /\ WF_vars(MainStep)
  /\ \A t \in Clients : WF_vars(ClientStep(t))
  /\ \A t \in ResetTasks : WF_vars(ResetStep(t))

FairSpec == Spec /\ Fairness

-----------------------------------------------------------------------------
(* Properties.                                                             *)

\* Every variable has its type.
TypeOK ==
  /\ repo \in Config
  /\ cur \in File /\ bak \in File
  /\ bNoSave \in BOOLEAN /\ bNeedFlush \in BOOLEAN /\ bSaveInProgress \in BOOLEAN
  /\ FileSyncRefCount \in 0 .. RefCountMod - 1
  /\ quiet \in BOOLEAN /\ timerOn \in BOOLEAN
  /\ accessLock \in Threads \cup {NoThread}
  /\ threadLock \in Threads \cup {NoThread}
  /\ pc \in [Threads -> Labels]
  /\ cont \in [Threads -> {"none", "timer", "flash", "bootFlash", "load"}]
  /\ req \in [Clients -> Seq(SetItem) \cup Seq(DelItem)]
  /\ buf \in [Threads -> Config]
  /\ todo \in [Threads -> SUBSET Params]
  /\ requests \in Nat /\ faults \in Nat
  /\ applied \in Config
  /\ sinceTerm \in [Params -> SUBSET (Vals \cup {Absent})]

Saving(t)  == pc[t] \in SaveSteps /\ cont[t] \in {"timer", "flash", "bootFlash"}
Loading(t) == cont[t] = "load" \/ pc[t] = "loadRead"

\* A change that is in memory and not in the current file is never forgotten:
\* unless saving is off or under way, the dirty flag is up (SysRamNotify
\* ignores changes during a save and RegTimerInvoke clears the flag after it).
DirtyTracked ==
  ~bNoSave /\ ~bSaveInProgress /\ cur # repo =>
    bNeedFlush \/ \E t \in Threads : Loading(t)

\* What the timer writes is the configuration between two requests, never
\* one half of a setParameterValues call.
WholeRequestsSaved ==
  cont[Timer] = "timer" /\ pc[Timer] \in FileOps => buf[Timer] = applied

\* No two threads write the configuration files at the same time.
OneFileWriter ==
  \A t, u \in Threads : pc[t] \in FileOps /\ pc[u] \in FileOps => t = u

\* While writing is disabled the timer is not in the middle of a flush.
DisabledMeansNoFlush ==
  FileSyncRefCount > 0 => ~Saving(Timer)

\* When no one is saving or loading, the backup is a copy of the current file.
BackupMirrorsCurrent ==
  Serving /\ (\A t \in Threads : ~Saving(t) /\ ~Loading(t)) => bak = cur

\* The file still holds, for each record, a value it had since SIGTERM came.
KeptSince(f) == f # NoFile /\ \A p \in Params : f[p] \in sinceTerm[p]

\* Whatever the other threads do between the handler's save and the end of
\* the process, one of the two files has the configuration: the one in memory,
\* or the one that was being loaded when SIGTERM came (ssp_main.c:221).
TermKeepsACopy == pc[Main] = "exited" => KeptSince(cur) \/ KeptSince(bak)

\* Once the clients fall silent, memory, current and backup file agree.
ChangesReachFiles == []<>(cur = repo /\ bak = repo)

\* A save that has begun ends, on its error paths too: while bSaveInProgress is
\* up, SysRamNotify drops every change.
SavesEnd == bSaveInProgress ~> ~bSaveInProgress \/ ~Alive

\* A factory reset task ends by requesting the reboot its comment announces
\* (psm_sysro_storage.c:129-133), unless a call has failed before: without a
\* backup file the second unlink fails, and no reboot is requested.
ResetReboots ==
  \A r \in ResetTasks :
    pc[r] = "resetStart" ~> pc[r] = "reboot" \/ ~Alive \/ faults > 0

\* A SIGTERM that arrives ends the process, and it is not left waiting for a lock.
TermExits == pc[Main] = "flashLock" ~> pc[Main] = "exited"

-----------------------------------------------------------------------------
(* The inductive invariant behind DisabledMeansNoFlush and                 *)
(* WholeRequestsSaved.                                                     *)

\* The labels each kind of thread uses.
LabelInv ==
  /\ pc[Timer] \in {"idle", "waitAccess", "waitThread"} \cup SaveSteps
  /\ pc[Main] \in {"loadRead", "apply", "up", "flashLock", "exiting", "exited"} \cup SaveSteps
  /\ \A t \in Clients :
       pc[t] \in {"idle", "waitThread", "item", "flashLock", "reload", "loadRead", "apply"}
                \cup SaveSteps
  /\ \A t \in ResetTasks : pc[t] \in {"idle", "resetStart", "unlinkCur", "unlinkBak", "reboot"}

\* Which locks a thread holds, by where it stands.
LockInv ==
  /\ pc[Timer] \in {"waitThread"} \cup SaveSteps => accessLock = Timer
  /\ pc[Timer] \in SaveSteps => threadLock = Timer /\ FileSyncRefCount = 0
  /\ cont[Timer] = (IF pc[Timer] \in SaveSteps THEN "timer" ELSE "none")
  /\ \A t \in Clients : pc[t] \notin {"idle", "waitThread"} => threadLock = t
  /\ \A t \in Clients \cup {Main} :
       /\ pc[t] \in SaveSteps /\ cont[t] # "load" => accessLock = t
       /\ cont[t] # "timer"
       /\ pc[t] = "apply" => cont[t] = "load"

\* Until Engage has loaded the configuration nobody else does anything, and
\* nobody ever will when SIGTERM interrupts it.
BootInv ==
  /\ Booting \/ cont[Main] = "bootFlash" =>
                /\ bNoSave /\ ~bNeedFlush
                /\ pc[Timer] = "idle"
                /\ \A t \in Clients : pc[t] = "idle"
  /\ cont[Main] = "bootFlash" => pc[Main] \in {"flashLock"} \cup SaveSteps
  /\ pc[Main] \in {"up", "flashLock", "exiting", "exited"} => ~Booting
  /\ pc[Main] \in SaveSteps => cont[Main] \in {"flash", "bootFlash", "load"}
  /\ pc[Main] = "loadRead" => cont[Main] = "none"

\* Between requests repo is applied, and the timer's copy of it is faithful.
CopyInv ==
  /\ threadLock \notin Clients /\ ~Booting => repo = applied
  /\ pc[Timer] = "serialise" => \A p \in Params \ todo[Timer] : buf[Timer][p] = repo[p]
  /\ pc[Timer] \in FileOps => buf[Timer] = repo

IInv == TypeOK /\ LabelInv /\ LockInv /\ BootInv /\ CopyInv
=============================================================================
