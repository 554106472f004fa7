# Formal models of CCSP PSM

PSM (Persistent Storage Manager) keeps a device's settings. Other processes
read, set and delete named records over a bus; PSM holds the records in memory
and writes them, delayed, to two XML files, from which it loads them again at
boot. This directory holds TLA+ modules that model the daemon, TLC
configurations that check them on small instances, and TLAPS proofs of what
holds for every instance. `PROJECT.json` lists the runs, the source lines every
definition stands for, the findings and the hazards.

    tlc -config RegistryCore.cfg MCRegistry.tla      # one run
    tlapm PsmRegistryProofs.tla                      # the proofs of one module

## 1. Inventory

Paths are below `src/source/`.

| Component | State | Operations | Interacts through |
|---|---|---|---|
| Registry (`PsmSysRegistry/psm_sysro_operation.c`, `_sysramif.c`, `_storage.c`) | `bNoSave`, `bNeedFlush`, `bSaveInProgress`, `FileSyncRefCount`, `LastRegWriteAt`, `AccessLock`, the periodic timer | `Engage`, `Cancel`, `RegTimerInvoke`, `SysRamNotify`, `SysRamEnableFileSync`, `SaveConfigToFlash`, `ResetToFactoryDefault` | called by the timer thread, by the repository on each change, by bus handlers, by the SIGTERM handler |
| Base config files (`psm_sysro_cfmif.c`) | current, backup, default file | `ReadCurConfig`, `ReadDefConfig`, `SaveCurConfig` | replaced by `ssp_cfmif.c` in the production build (`psm_hal_apis.h:78`) |
| File loader (`PsmFileLoader/psm_flo_control.c`, `_operation.c`) | `bActive`, the interfaces it uses | `Engage`, `Cancel`, `TestRegFile`, `LoadRegFile`, `SaveRegFile` | repository (folder, records, write access), config files |
| Codecs (`psm_flo_parse.c`) | none | folder to XML and back, addresses, lists, calendar, types | file loader |
| Platform config files (`Ssp/ssp_cfmif.c`) | the two files, record hash table, parameter-present table, partner trigger files | `ReadCurConfig` (load, custom, default, partner merge, flush), `SaveCurConfig`, `backup_file`, `UpdateConfigs` | file loader, `psm_hal_apis.c`, syscfg |
| Bus (`Ssp/ssp_dbus.c`, `ssp_rbus.c`) | health, PSM's own parameters | `getParameterValues`, `getParameterNames`, `setParameterValues`, `setParameterAttributes` (delete), factory reset task; four rbus methods that call them | repository under `ThreadLock`, registry |
| Process (`Ssp/ssp_main.c`) | `bEngaged`, `pPsmSysRegistry`, semaphore, pid file | `daemonize`, `main`, `cmd_dispatch`, `sig_handler` | registry, bus |
| External | record repository, locks, timer thread, buses, syscfg | | modelled from their use |

What each must get right:

* Registry: a change reaches the files; what reaches them is a configuration
  that existed between requests; a disabled, reset or terminating registry
  writes exactly what it says; a failure on the way leaves it able to go on.
* Config files: whatever moment the process or the power dies, one complete
  configuration can be read back; merging gives the file precedence over
  defaults, and partner values precedence over the file.
* Loader and codecs: what is saved loads back as the same records; a malformed
  file costs the malformed record only; loading ends.
* Bus: every path releases `ThreadLock` exactly once; a read returns one
  moment's records.
* Process: the parent learns how the child started; signals leave the files
  whole; nothing uses the registry after it is removed.

The hard behaviour is concurrency without a lock discipline. Five kinds of
thread (bus handlers, the timer, a reset task, the main thread in a signal
handler, the main thread booting) share the flags; some take `ThreadLock`, some
`AccessLock`, two take both, in opposite orders, and the reset task takes none.
Saves truncate the files in place. Error results are mostly dropped. The full
list, line by line, is `hazards` in `PROJECT.json`.

## 2. The modules

### PsmRegistry: the write-back protocol

Variables and what they are in the code:

| Variable | Code |
|---|---|
| `repo` | the records of `/Configuration/Provision` in the repository |
| `cur`, `bak` | the current file (`/tmp/bbhm_cur_cfg.xml`) and the backup (`/nvram/bbhm_bak_cfg.xml`) as the records they hold, or `NoFile` |
| `bNoSave` ... `FileSyncRefCount` | the fields of the registry object of those names; the count is an unsigned word, so it wraps at `RefCountMod` |
| `quiet` | `now - LastRegWriteAt >= PSM_SYSRO_REG_FLUSH_DELAY` |
| `timerOn` | the registry timer is started |
| `accessLock`, `threadLock` | who owns `AccessLock`, who owns the repository's thread lock |
| `pc`, `cont`, `req`, `buf`, `todo` | each thread's place in the code, the caller of the save routine, the rest of the request, the file buffer, the records still to copy |
| `requests`, `faults` | how much of `MaxRequests` and `MaxFaults` is used |
| `applied`, `sinceTerm` | history for the properties only |

Actions and handlers:

| Code | Actions |
|---|---|
| `PsmSysroRegTimerInvoke` | `TimerFires` / `TimerReturns` (the two tests without a lock), `TimerLocksAccess`, `TimerStartsSave` / `TimerSkipsSave`, the save routine, `TimerEndsSave` |
| `PsmFloSaveRegFile`, `ssp_CfmSaveCurConfig`, `backup_file` | `CopyRecord`, `SaveRegFileFails`, `OpenCur`, `WriteCur`, `OpenBak`, `WriteBak` |
| `PsmSysroSaveConfigToFlash` | `bNoSave` in the caller's step, `FlashLocks`, the save routine, `FlashEnds` |
| `PsmFloLoadRegFile`, `ssp_CfmReadCurConfig` | `LoadRead`, `OpenCur` ... `WriteBak` (reading ends in a save of the merged records), `LoadParsed`, `ApplyRecord`, `LoadEnds` |
| `setParameterValues` | `Receive`, `LockThread` (which may find that the folder of the records cannot be opened: then no item is done), one of `WriteItem`, `SkipEqualItem`, `DisableWritingItem`, `ReloadItem` + `ReloadResumes`, `FactoryResetItem` per item, `Reply` |
| `setParameterAttributes` | `Receive`, `LockThread`, `DeleteItem`, `Reply` |
| `PsmSysroSysRamNotify` | `Notify`, part of every step that changes a record |
| `doFactoryResetTask`, `PsmSysroResetToFactoryDefault` | `ResetBegins`, `UnlinkCur`, `UnlinkBak` |
| `PsmSysroEngage` | the initial state (its load is the first thing that happens), `LoadEnds(Main)` |
| `sig_handler(SIGTERM)` | `TermServing`, or `TermBooting` while `Engage` is loading; `FlashLocks`, the save routine, `FlashEnds`, `Exit` |

A thread takes one step per access to state another thread can see, so every
interleaving of locks, flags, record copies and file operations is explored.

Abstractions. A file is the set of its records; a truncated file and a file
without records are the same, as they are for `load_records`. A failed write
leaves any part of the data. Two writers of one file may leave a mixture
(`Over`, `Mapped`). A write to a file that was unlinked while open changes
nothing a later open would see. `GetRecord` with an uninitialised buffer size
may or may not find the old value (`WriteItem` and `SkipEqualItem` are both
enabled). The logging settings, the new-config path and `UpdateConfigs` are not
items: they touch none of this state. Custom and partner parameters are merged
in `PsmSspCfm`.

Actions prefixed or suffixed with a plausible mistake and commented "Mutant"
(`TimerStartsSaveUnlocked`, `WriteCurWithoutBackup`, ...) are not part of
`Next`. Each shows that a property can fail.

### MCRegistry and the runs

Two clients, two records (one with a default), two values. Two records are
what it takes to see half of a request or half of a file; two values, to tell
old from new; two clients, to have one wait while another works. `RefCountMod`
is 4: the properties only tell zero, one and the wrapped maximum apart.

| Run | Bounds | Shows |
|---|---|---|
| `RegistryCore` | 2 clients, 3 requests | `DirtyTracked`, `WholeRequestsSaved`, `BackupMirrorsCurrent`, and under fairness `ChangesReachFiles` |
| `RegistryTerm` | 2 clients, 2 requests, SIGTERM | `OneFileWriter`, `TermKeepsACopy`, `TermExits` |
| `RegistryControl` | 2 clients, 3 requests with ReloadConfig and DisableWriting | `TypeOK`, `DirtyTracked`, `WholeRequestsSaved`, `OneFileWriter`, `DisabledMeansNoFlush`, `BackupMirrorsCurrent` |
| `RegistryFaults` | 1 client, 1 reset task, 2 requests, 1 failing call, SIGTERM | `OneFileWriter`, `SavesEnd` on every error path, `ResetReboots` |
| `RegistryDeadlock` | violation | the timer and DisableWriting wait for each other; SIGTERM never exits |
| `RegistryTermAtBoot` | violation | SIGTERM during the load at boot: the part that is loaded is saved over both files |

Initial states have every content of the two files, so a boot after any earlier
life of the process is included. `RegistryControl` and the runs with a reset task
do not check deadlock: the first can reach the lock cycle above, and a reset
task's thread ends while `bNoSave` keeps everyone else idle. In the other runs
deadlock is checked; a finished process stutters (`Exited`).

`DirtyTracked` and `BackupMirrorsCurrent` are checked without SIGTERM and
without faults: after SIGTERM nothing is promised about the flags, and a flush
that fails clears `bNeedFlush` all the same (`psm_sysro_operation.c:301`).
`TermKeepsACopy` speaks of a SIGTERM that finds PSM serving in `RegistryTerm`,
and fails for one during boot.

Fairness (`Fairness`): the timer thread, the main thread, the reset task and
each client inside a request are scheduled weakly fairly, as threads of a
running process are, and time passes. Requests and SIGTERM are not assumed to
come. `TimerReturns`, the tick that finds nothing to do, needs no fairness.
A lock acquisition is weakly fair: `ChangesReachFiles` is about the end of a
bounded number of requests, so no thread is overtaken for ever.

### ConfigStore: what a store of configurations promises

One configuration is stored at any moment. A save replaces it at one instant, a
crash keeps it, a load returns it. It has no code of its own: it is what the
registry relies on.

### PsmSysroCfm and MCSysroCfm: the base configuration files

`psm_sysro_cfmif.c`. A save copies the current file to the backup and rewrites
the current file in place; a load takes the first of current, backup and default
that parses and copies it into the current file. A file holds a configuration,
or is missing, empty or torn.

| Code | Actions |
|---|---|
| `PsmSysroCfmReadCurConfig` | `BeginLoad`, then per round of its loop `OpenBak` / `OpenDef`, `CopyBak` / `CopyDef`, and `Accept`, `Reject` or `NoMemory` |
| `PsmFloTestRegFile` | the guard of `Accept` and `Reject`: the file parses |
| `PsmSysroCfmSaveCurConfig`, `backup_file` | `SaveBegins`, `OpenBackup` / `NoBackup`, `WriteBackup`, `OpenCur` / `NoCur`, `WriteCur` |
| end of the process, loss of power, the kernel's write-back | `Crash`, `PowerLoss`, `Writeback` |

`attempt` is the loop variable `i`, `buf` the argument of the save, `bakCached`
says that the backup may be in the page cache only: `backup_file` calls neither
fsync nor sync. Writes through the ANSC file library, which is external, are
taken to be durable when the call returns. `ReadDefConfig` has no caller. The
copy of a factory reset is in `PsmRegistry`: it unlinks both files.

| Run | Bounds | Shows |
|---|---|---|
| `SysroCfmStore` | 3 configurations, any number of crashes, no failing call | `ImplementsStore`: the two files are a `ConfigStore` under the mapping `stored <- Recoverable`; `KeepsACopy` |
| `SysroCfmFailing` | also power loss, 2 failing calls | `OnlySavesChange` as long as nothing failed, `OperationEnds` always |

The state is finite, so crashes need no bound. Three configurations are the
stored one, the one being saved and the default. Two failing calls let a load
fail twice on its way through three files.

`SysroCfmStore` leaves out power loss and failing calls because the refinement
does not hold with them. Add either to its constants and TLC finds:
power lost while the current file is rewritten and the backup's data are still
in the page cache; or a backup that could not be written, which is logged (line
601), after which the only whole file is truncated. Both leave no usable file
although the comment at line 559 describes the backup as the measure against it.

Fairness (`FairSpec`): a process inside a load or save goes on with it. Nothing
is assumed of crashes, the kernel or the caller.

### PsmSspCfm and MCSspCfm: the platform configuration files

`ssp_cfmif.c`, which replaces the above in production. At boot and on reload
`ssp_CfmReadCurConfig` collects records from five sources and saves them.

| Code | Actions |
|---|---|
| `load_records` of the current or the backup file | `LoadRecords` (`LoadSource` chooses) |
| `import_custom_params` | `ImportCustom`; the platform's table is the constant `Custom` |
| `merge_missing_param` | `MergeDefault` |
| `Psm_GetCustomPartnersParams` | `TestTriggers` (the two files in /tmp), `TestApplyFile` (the one in /nvram), `TakeParam(p)` per syscfg variable, `CommitSyscfg` |
| `import_custom_partners_params` | `ImportPartners`, which overwrites |
| `merge_missing_Partner_params`, `IsParameterMissed` | `MergeMissing`, or `DropMerge` when bootstrap.json cannot be opened or there is no memory for it (`ssp_cfmif.c:531`, `:547`); `present` is the flags of `parm_present_table`, which `Seen` raises in both |
| `flush_records` | `FlushRecords` |
| `ssp_CfmSaveCurConfig`, `backup_file` | `OpenCur`, `WriteCur`, `OpenBak`, `WriteBak` |
| the programs around it | `RequestPartner`, `ChangeRecord`, `Reload`, `Boot`, `FactoryReset`, `Crash`, `Reboot` |

Files are sets of records as in `PsmRegistry`; the failing calls of a save, and
a save that runs beside other threads, are there. The current file, two of the
three triggers and uncommitted syscfg values vanish in a reboot; the backup and
the third trigger stay. `present` and the tables belong to the process. History:
`expected` is what a client or a partner request last asked for (no request, or
a deletion, asks for nothing), `whole` which of the files were written to their
end.

Two assumptions about the programs around PSM, which are external: a partner
request sets the syscfg variables before it creates a trigger file, and uses the
one in /nvram only when there are no configuration files (after a factory
reset); and clients do not change those two partner parameters whose syscfg
variable PSM keeps (the LAN address and its netmask), because a later request
for any parameter would apply the variable again.

| Run | Bounds | Shows |
|---|---|---|
| `SspCfmLoad` | 3 records (one whose variable is unset, one kept, one only in bootstrap.json), 2 changes, reloads or resets, 2 partner requests, any number of crashes in the steps before a trigger is removed and after the current file is written, reboots while the registry is up | `TypeOK`, `LastRequestWins`, `BootstrapMerged` |
| `SspCfmTorn` | violation | a current file cut off by a crash is loaded although the backup is whole |

The custom, default and bootstrap values of a record differ from what clients
set, so a wrong precedence shows. Two changes and two requests are what it takes
to have an old value from each side overwritten by a new one from the other. The
record that only bootstrap.json has can be deleted by a client: `BootstrapMerged`
says that this, and nothing else, keeps a partner parameter out of a later load
that can read bootstrap.json, and only as long as the process lives. A load that
cannot read it (`DropMerge`) may hand out a configuration without its parameters;
`BootstrapMerged` says nothing of that load, but that a later one makes up for it.

`SspCfmLoad` leaves out crashes between the removal of a trigger and the end of
the write of the current file: with one there (say at `"overwrite"`) TLC finds
`LastRequestWins` false, as the trigger is unlinked (line 752) and the variable
unset and committed (line 1067) before the value is in any file. The comment
"Remove DB variable. It won't be used" (line 827) is right only without it.

### PsmFloParse, PsmRecordHash, PsmRecordPath and MCRecordPath: the way of a record

A record goes from the repository into an element, a line of the file, an object
in the hash table, the buffer that is parsed and saved, and back. `PsmFloParse`
has the codecs as operators, `PsmRecordHash` the table as a state machine, and
`PsmRecordPath` puts them together: one save, one merge, one load.

| Code | Definitions |
|---|---|
| `addRecordToXMLHandle2`, the `write...` functions | `addRecordToXMLHandle2`, `ValueText` and the operators of the same names |
| `loadRecordFromXML`, the `decode...` functions | `loadRecordFromXML`, one `Load...` per kind of value; each gives the set of outcomes: a record added, skipped, or a failure |
| `PsmSysFolderToXMLHandle` | `PsmSysFolderToXMLHandle`; `FileOf` adds elements put into the file by hand |
| `PsmSysFolderFromXMLHandle`, `loadFolderFromXML` | `LoadRecordElement`, `LoadFolderElement`, `LoadFolderEnds`, `LoadOtherElement` |
| `record_parse`, `load_records` | `Entry`, `Lines`; `SkipLine`, `LoadRecord` |
| `insert_record` and its callers | `Insert`; `KeepRecord` (custom, default, missing partner records), `OverwriteRecord` (partner) |
| `flush_records`, `free_records` | `FlushBegins`, `FlushRecord`, `FlushChain`, `FlushEnds`, `FlushFails`; `FreeRecords` |
| the order in `ssp_CfmReadCurConfig` | `ReadOrder` |

A value is a sequence of numbers and a text a sequence of items with the
separator inside an item: what the codecs tell apart, without characters. A
record in the table is an object on the heap, so freeing one twice is visible
(`misused`). `RecordMap` says what the table promises: one entry per name, the
first put under it unless a later one overwrites.

`RecordPath` starts from 693 repositories: every type and content type,
with the empty, shortest, longest and one-too-long value of each codec (below),
before or after other records, in the folder or a subfolder, with an element of an
unknown kind or a record of an unknown type behind them; 12 choices of the other
sources, whose names collide with those of the file and, in the default file,
with each other; two chains, one of them with two names; and, at every record,
a buffer that cannot grow. It shows

* `SavedComesBack`: a configuration of storable values (`Storable`) is saved and loads
  to its end with every record as it was; `LossIsContained`: of the others, only those
  whose text the loader cannot read (`Fails`: enums; an empty MAC address or address
  list, or a list that is not of four bytes each, written without text; an address
  list or another text that does not fit the loader's buffer) and records put into the
  file by hand that cannot be read can end the load, and only those that overrun the
  writer's buffer (`Overruns`) the save; any other loss is that of one record;
* `FoldersComeBack`: with content type and permission, in the base
  implementation (the platform's table takes records only);
* `SourcesInOrder` and `TableImplementsMap`: each name that a source has is handed
  out, and once if the file has it once, from the source that goes first (partner,
  file, platform, default, bootstrap; `Rank`, `Decides`). Of a file that was edited
  by hand and has a name twice, both are handed out;
* `FreedOnce`, `TableEmptied`: also around a failing flush, except that records
  of a chain whose flush has begun are freed twice;
* `LoadEnds`, unless the file has an element that is neither a record nor a
  folder: `LoadOtherElement` goes on with the same element for ever.

Not `Storable`, and so lost or changed: those that `Fails` and `Overruns` name, an
integer list that is empty, longer than 64 bytes or has a word above INT_MAX,
daylight saving and milliseconds of a time, a bool that is neither 0 nor 1 (it comes
back as TRUE), and on the platform's path a value of more than a line.

The fixed buffers are counted in characters (`Width`, `TextLength`):

* `writeMacAddress` and `writeIntList` print into 64 characters on the stack (lines
  324, 561) without looking at the length; line 570 bounds the bytes of a list, not its
  text. 22 bytes of a MAC address are 65 characters, sixteen words of four digits 79.
  What happens then is undefined; `Init` has two outcomes, the process dies before a
  file is written (`"overrun"`) or the whole text is written. Others (a changed
  neighbour on the stack) are not modelled.
* `loadRecordFromXML` reads most values into `pValue` (line 1271). Its size,
  SYS_MAX_RECORD_NAME_SIZE + 1, is not in this repository: it is the constant
  `ValueSize`, any number in the proofs and 111 in the run, so that address lists of
  110 and 111 characters are the last to fit and the first not to. Of an empty text or
  one that does not fit (`Unread`), what the XML library returns is left open: the
  record is skipped or ends the load. A read that fails although the text fits is not
  modelled.
* `decodeIntList` converts with a function that returns an int (line 538): above
  INT_MAX it saturates or wraps, and `decodeIntList` has both. `IntMax` is 2^29 - 1 in
  the run, as TLC's own numbers end at 2^31 - 1.

The catalogue has MAC addresses of 0, 1, 6, 21 and 22 bytes; lists of 0, 1, 16 and 17
words, of 63, 64 and 79 characters, and with words at `IntMax` and above it; address
lists that are empty, of 2, 4 and 8 bytes, and of 110 and 111 characters. 14688
initial states, some 210000 in all.

`saved` is the repository so far as `addRecordToXMLHandle2` could read it: a record
whose `GetRecordByIndex` fails, or for which there is no memory, is left out of the
file without a word (lines 1134-1143; the caller does not look at the status), and
would be missing after a restart. On a load `AddRecord2` and the allocations before it
are taken to succeed.
What an element without text yields in the external XML library is left open
(`LoadWord`, `LoadIntList`). Deadlock is not checked: the path ends.

Fairness: the one thread that does all of it goes on.

### PsmService and MCService: the process and its buses

| Code | Actions |
|---|---|
| `main`, `daemonize` | `daemonize`, `PidFile`, `Post`, `CommandQuit`, `Exit` |
| `cmd_dispatch('e')` | `CommandEngage`, `CreateSysRegistry`, `SetupEnv`, `LoadRecord`, `LoadEnds`, `PsmDbusInit`, `registerCapabilities`, `PsmRbusInit` |
| `cmd_dispatch('c')`, SIGUSR2 | `CommandCancel`, `SigUsr2` |
| `getParameterValues` | `NotReady`, `Enter`, `AcqThreadLock`, `OpenFolder`, `GetItem`, `GetMissing` + `ReleaseAgain`, `RelThreadLock` |
| `getParameterNames` | the same with `CountRecords`, `EnumRecord` |
| `setParameterValues`, `setParameterAttributes` | the same with `SetItem`, `DeleteItem` |
| the rbus methods | the same, with `Passed` (a set passes its first property), `OneByOne` and `ReleaseOne` (one call per deleted name), `Answer` (a read always "succeeds"), `NullDereference` |

`main`, `registry`, `g_psmHealth`, `bEngaged` and the two `...Open` variables are
where the process stands; `pc`, `req`, `got` and `reply` what each bus thread
does; `lock` is `ThreadLock`. A name is a sequence of tokens, one of them the
dot. The parameters that act on the registry (FactoryReset, DisableWriting,
ReloadConfig) are items of `PsmRegistry`. After the removal of the registry
`pPsmSysRegistry` points at freed memory; what a handler does with it, or with
the array a failed rbus read never got, is undefined, and the model ends the
process there (`UseRemoved`, `NullDereference`).

What is external is modelled from its use: `CCSP_Message_Bus_Exit` returns when
no dbus handler runs; releasing a lock of another thread frees it or does
nothing; `strcmp_s` with `sizeof(char *)` as the length of the name asked
(`ssp_dbus.c:952`) takes the names in the constant `Shadowed` for one of PSM's;
`DslhCreateCpeController` succeeds. Memory for a reply is always found.

`Service` has one thread per bus, which between them make two requests, two
engagements (so `c` and `e` can replace a registry), one failing call of the main
thread, seven requests chosen to meet half a change, a missing record, PSM's own
parameters and shadowed names. A daemon gets SIGUSR2, a console process its
commands. It shows

* `ReleasedWhenReady`: the parent of the daemon returns only when the registry is
  loaded and registered, or could not be created at all; `ParentReleased`: it
  does return unless the daemon dies before;
* `ServedAfterLoad`: no handler works while records are being loaded, although
  the load takes no lock and the handlers are registered while the health is
  Yellow. Only in the first engagement: `c` leaves the health Green;
* `SnapshotReads`, `NamesAnswer`: an answer is what the records were between two
  requests. As long as no thread's lock was released by another (`Steady`): the
  error path of `getParameterValues` releases it twice;
* `UnloadStopsDbus`: only a quit removes the registry under a dbus handler;
* `RequestsEnd`: every path answers and releases `ThreadLock`.

Fairness (`FairSpec`): the main thread and the bus threads are scheduled, and the
registrar, asked again every ten seconds, accepts in the end. Requests, commands
and SIGUSR2 need not come. Deadlock is not checked: a dead process stops.

### Also seen while modelling

In the models, but not the subject of a run:

* a `RegTimerInvoke` that waited for `AccessLock` during the SIGTERM save goes on
  to truncate the current file, and `exit` ends it (`ssp_main.c:226`); the backup
  has the configuration (`TermKeepsACopy`);
* a flush that passed its checks before a factory reset writes the files again
  after they were removed (`psm_sysro_storage.c:140`), although the comment at
  line 129 says that pending changes must not;
* a flush that fails clears `bNeedFlush` (`psm_sysro_operation.c:301`);
* DisableWriting reads back the opposite of what was set (`ssp_dbus.c:1232`, `:631`);
* a factory reset after a failed backup requests no reboot and leaves saving off
  (`psm_sysro_storage.c:144`);
* setting a record to the value it has may write it (`ssp_dbus.c:1287`, the buffer
  size is never set);
* a passing read error makes the base load copy the older backup over the current
  file (`psm_sysro_cfmif.c:316`);
* a legacy content type of the default file is saved under the new name that has
  its place (`psm_flo_parse.c:803`);
* an integer list or a MAC address overruns the 64 characters it is printed into
  (`psm_flo_parse.c:561`, `:324`), and an address list longer than the loader's buffer
  (`:1271`) is saved and then may end the load at its place;
* a record stored under the name of one of PSM's parameters that cannot be set is
  never read back (`ssp_dbus.c:1271`, `:950`), and a record with an empty value is
  left out of a reply (`:985`).

## 3. Proofs

Eight modules hold proofs; each theorem is for every value of the constants that
meets the named assumptions.

`PsmRegistryProofs` proves, for any number of clients, reset tasks, records and
values, requests of any length, and any bounds:

* `TypeCorrect`: `Spec => []TypeOK`.
* `Invariance`: `Spec => []IInv`.
* `DisabledMeansNoFlushCorrect`, `WholeRequestsSavedCorrect`: both properties,
  with ReloadConfig, resets, SIGTERM and faults all allowed.
* `OneFileWriterCorrect`: `OneFileWriter` when SIGTERM does not interrupt a process
  that serves; one during boot is allowed.

Assumptions are the named ones of `PsmRegistry`: the kinds of thread are
disjoint, `Default` is a configuration, requests are sequences of items, the
count's modulus is above one.

The properties are not inductive. `WholeRequestsSaved` compares the timer's
buffer with a history variable while clients change the repository; it holds
because the timer copies under `ThreadLock` and clients change records under the
same lock, and because nobody runs before Engage has finished loading. `IInv`
says exactly that: which labels each kind of thread uses (`LabelInv`), which
locks it owns there (`LockInv`), that the timer and the clients are idle while
Engage loads (`BootInv`), and that the records the timer has copied are still
those of the repository (`CopyInv`). Each part has one lemma with one step per
action. The lock that matters is `ThreadLock`: removing the `AccessLock` guard
of DisableWriting leaves the proofs whole, and removing the `ThreadLock` guard
of a client's request breaks them.

`PsmRegistrySyncProofs` proves `DirtyTrackedCorrect` and
`BackupMirrorsCurrentCorrect` under `Undisturbed`: no call fails, no reset task
runs and SIGTERM does not come beside a served bus (one during boot may). The
properties say nothing of the moments a save or load is under way, so `SyncInv`
follows the records through those: `CallerInv`, who called the save routine;
`FlagInv`, which flags are up at each step; `FileInv`, what an unfinished save has
done to each file; `BufferInv`, that a save's buffer agrees with the records
copied and a load's with those put back; `RestInv`, that the files agree whenever
nobody writes. It is inductive only together with `IInv`, whose locks keep two
savers apart. The step it turns on is the load of ReloadConfig: the save before
it has left the current file equal to the records, so loading them back changes
none and needs no flush.

The same module proves `TermKeepsACopyCorrect` and `OneFileWriterAtTermCorrect`
under `Orderly`, the process of the run `RegistryTerm`: SIGTERM comes when PSM
serves, no call fails, no reset task runs and no request asks for ReloadConfig. A
SIGTERM during boot makes the first property false (`RegistryTermAtBoot`). The
handler's save alone would be easy; but a flush may have waited for `AccessLock`
all the while, and goes on when the handler has released it and before the
process ends. `TermInv` says that whatever is being saved after the signal has,
for each record, a value it had since then, that the handler leaves both files
whole, and that the flush behind it empties one of them at a time. `OrderlyInv`
leaves only the timer and the main thread in the save routine.

`PsmSysroCfmProofs` proves, for any configurations:

* `TypeCorrect` and `OnlySavesChangeCorrect`, with faults, crashes and power loss.
* `ImplementsStoreCorrect` and `KeepsACopyCorrect` when `MaxFaults` is 0 and power
  is not lost.

`LoadInv` says that, until a call fails, a load has left a file behind only when
it was unusable; `SaveInv` that a save truncates the current file only when the
backup is a copy of it. The refinement maps each action to one of `ConfigStore`
or to a stutter: `Accept` to `Load`, `SaveBegins` to `BeginSave`, `WriteCur` to
`EndSave`, `Crash` to `Crash`, everything else to a stutter.

`PsmSspCfmProofs` proves, for any records, sources, requests and bounds:

* `TypeCorrect`, with crashes and reboots anywhere.
* `LastRequestWinsCorrect`, under `Safe`: crashes only at the steps
  `SspCfmLoad` has, reboots only while the registry is up, and clients change
  only parameters whose syscfg variable is unset when taken.

`LastRequestWins` only speaks of a registry that is up. `ExpectedInv` follows the
value from there to every other step: in a file or in syscfg with a trigger
(`Armed`) before a load, then in the table, among the values taken or still to be
taken, then in the buffer and the files. It needs `SyscfgInv` (syscfg has no value
older than what was last asked for, and none without a trigger), `TableInv` (no
source replaces what the file had) and `FilesInv` (where a save stands). One lemma
per part, one step per action.

`BootstrapMergedCorrect` does not need `Safe`. `MergeInv` says that a reload starts
from what the running registry has, and that no source takes a record out of the
table: what the table misses, the registry misses too. A merge that is dropped takes
none out either; it raises flags only for what the table has.

`PsmServiceProofs` proves, for any threads, names, requests, commands and bounds,
`TypeCorrect`, `ReleasedWhenReadyCorrect`, `ServedAfterLoadCorrect` and
`UnloadStopsDbusCorrect`. The three properties look at different moments and have
one cause, the order of the main thread's calls, so one invariant serves them:
`LifeInv` says what each call has left for the next (`ProgressInv`), when a bus
may call a handler (`BusInv`), and which registry a handler that has entered works
on (`HandlerInv`). A handler's step either goes back to the start of a call or
stays with the registry it has found (`Moves`). Besides the named assumptions of
`PsmService` nothing is needed: requests carry lists of names, or of names with
values and at least one.

`SnapshotReadsCorrect` and `NamesAnswerCorrect` are about many steps of one
thread beside any steps of the others, as long as no thread's lock is released by
another (`Steady`). `AskedInv` says what a thread keeps of the request it was
given. In `ReadInv`, `GuardInv` is the lock: the thread that works on the records
holds it, and they are those between two requests unless it changes them; so a
thread that reads finds the records it saw first (`SameFor`), what it has
collected is right for the first k names (`HalfFor`), and a reply is right for
all (`SnapFor`). `ListInv` is the same for a listing. That the k-th record
`EnumRecord` numbers exists and is the only one is the lemma `NthFacts`, by the
pigeonhole principle. Neither proof needs an induction over data: the steps of the
handler are the induction.

`PsmRecordHashProofs`, `PsmRecordMapProofs` and `PsmRecordPathProofs` build on each
other, and hold for any names, hash, number of chains, repository and sources:

* `TableInvariant` (`HashInv`): records stand in the chain of their hash, each at
  one place; while the table is filled none of them is freed, and while it is
  flushed exactly those are that the flush has passed in the chain it is at.
  `TypesHold`, `RecordsFreedOnce` and `TableIsEmptied` follow. The record that an
  overwrite replaces is the reason why "at one place" is needed: it is freed, and
  would still be in the table otherwise.
* `TableRefinesMap`: the chains implement `RecordMap`. Filling puts one entry per
  step (`InsertPuts`, `LoadPuts`); a step of the flush moves a record from a chain
  to the buffer and changes no name's entry, which takes that the chains before
  `bucket` are written out (`PassedWritten`); a flush that fails is the map's loss
  of all entries.
* `SourcesGoInOrder`: `ReadOrder` is sorted by source (`ReadInOrder`), so the map
  after k items has for each name what the first k items decide (`ValueInv`), and
  a name the file has once stands in the table, or table and buffer, once
  (`OnceInv`).

* `FoldersBack`, `LossContained` and `SavedBack` follow a repository through its
  file, on either path, in three parts.
  First the codecs: each `...Back` lemma says that one kind of value is read back
  from its text, if the text fits the loader's buffer, and `ValuesBack` puts them
  together: only values that `Fails` names can end a load, and those that `ReadsBack`
  names come back as they were. How long a text is does not matter to these proofs:
  they hold for any `ValueSize` and `IntMax` (`SizesAssumption`: natural numbers), and
  for the length that `TextLength` counts as for any other. That a save only dies of a
  record that `Overruns` is a conjunct of `PathInv`. The
  recursive functions of the lists (`Items`, `decodeIP4AddrList`) and of
  `PsmSysFolderToXMLHandle` are shown to have solutions (`KeptIs`, `BytesIs`,
  `UpToIs`), by induction over a set of numbers (`Counting`).
  Then the file: `IsOutline` counts the folders begun before each element and
  names the folder it is in, `Recorded` has each record at exactly one element. A
  folder more keeps both (`DrawnNext`), so the file of any repository has them
  (`FileDrawn`, `FileLaid`); on the platform's path the buffer has them with no
  folder at all (`ChartIs`).
  Last the load: `LoadInv` says that what is left to load is the end of the file
  (`DocInv`), that the loader is in the folder the outline says and has made as many
  (`PlaceInv`), and that a record which alone has its name in its folder is there
  once it is passed (`KeptInv`). That the records of the repository are alone is
  where the hypotheses of `SavedComesBack` come in, and `SourcesGoInOrder` for the
  platform's path: the buffer has one element of the name, that of the file, unless
  the partner has one (`AloneOnPlatform`).

They assume what the code and its callers give: a repository has a name once in a
folder and a folder once (`RepositoryAssumption`: `AddRecord2` sets the record that is
there), none of the elements put into the file by hand is a folder, a value has the
size its type and content type ask for (`RecordType`, by `DataOf`: `writeIP4Address`
and `writeCalendar` read 4 bytes and the fields of a time whatever the size is), and
the records of the default file, which comes with the program and has strings only
(`src/config/bbhm_def_cfg_qemu.xml`), can be read (`DefaultAssumption`). TLC evaluates
all of them for the repositories and sources of the run.

Left to TLC: liveness (`ChangesReachFiles`, `TermExits`, `SavesEnd`,
`ResetReboots`, `OperationEnds`, `LoadEnds`, `ParentReleased`, `RequestsEnd`), which
TLAPS cannot prove under fairness here.

## 4. Plan

Done: every module above. Next:

1. `PsmSystem`: the registry composed with `ConfigStore`, so that what a restart
   loads is tied to what clients were told.

## 5. Not modelled

Getters and setters (`*_states.c`, `*_interface.c`) and the creation of the file
loader have no protocol. `psm_hal_apis.c` is a table of platform values (the
constant `Custom` of `PsmSspCfm`). `ImportConfig`, `ExportConfig` and
`GetConfigSize` have no caller in the repository. `ssp_CfmUpdateConfigs` reads
the files it is pointed at but changes neither a file nor a record, and reports
success. The XML parser, access control entries, folder type names (nothing
reads them back), the capability calls, diagnostics and the signals that only
exit are left out. The libraries and buses are external; the models use what the
code assumes of them: a lock has one owner, the repository calls back on each
change, a timer calls its handler in one thread.
