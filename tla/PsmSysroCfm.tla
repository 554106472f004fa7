---------------------------- MODULE PsmSysroCfm ----------------------------
(***************************************************************************)
(* The base configuration files (psm_sysro_cfmif.c): a save copies the     *)
(* current file to the backup and then overwrites it in place; a load takes *)
(* the first of current, backup and default that parses, copying it into   *)
(* the current file.  The process or the device may stop between any two   *)
(* system calls and in the middle of a write.                              *)
(*                                                                         *)
(* Calls that write through the ANSC file library are taken to be durable  *)
(* when they return; backup_file writes the backup with write and close    *)
(* and no fsync, so its data may be in the page cache only.                *)
(***************************************************************************)
EXTENDS Naturals

CONSTANTS
  Configs,           \* the configurations a file may hold
  Default,           \* the one in the default file, which is never written
  NoFile,            \* contents: the file does not exist
  Empty,             \* contents: no bytes
  Torn,              \* contents: the beginning of a configuration, no XML document
  Nothing,           \* no configuration: not loaded, or not being saved
  PowerLossAllowed,  \* whether the page cache may be lost
  MaxFaults          \* bound: failing calls in a behaviour

Unusable == {NoFile, Empty, Torn}
File     == Configs \cup Unusable

ASSUME ConfigAssumption ==
  /\ Default \in Configs
  /\ Nothing \notin Configs
  /\ Configs \cap Unusable = {}
  /\ NoFile \notin {Empty, Torn}
  /\ PowerLossAllowed \in BOOLEAN
  /\ MaxFaults \in Nat

VARIABLES
  cur, bak,    \* the current and the backup file
  bakCached,   \* the backup is in the page cache and may not be on the medium
  pc,          \* where the process stands
  attempt,     \* the loop variable i of ReadCurConfig
  buf,         \* the configuration a save is writing
  loaded,      \* the configuration the last load returned
  faults

vars == <<cur, bak, bakCached, pc, attempt, buf, loaded, faults>>

LoadSteps == {"read", "openBak", "copyBak", "openDef", "copyDef"}
SaveSteps == {"backup", "writeBak", "openCur", "writeCur"}

Goto(l) == pc' = l
Fault   == faults < MaxFaults /\ faults' = faults + 1

Init ==
  /\ cur \in Configs \cup {NoFile}
  /\ bak \in Configs \cup {NoFile}
  /\ bakCached = FALSE
  /\ pc = "down" /\ attempt = 0
  /\ buf = Nothing /\ loaded = Nothing
  /\ faults = 0

-----------------------------------------------------------------------------
(* ReadCurConfig.                                                          *)

\* At boot, or for a ReloadConfig request.
BeginLoad ==
  /\ pc \in {"down", "up"}
  /\ Goto("read") /\ attempt' = 0
  /\ UNCHANGED <<cur, bak, bakCached, buf, loaded, faults>>

Accept ==
  /\ pc = "read" /\ cur \in Configs
  /\ loaded' = cur
  /\ Goto("up")
  /\ UNCHANGED <<cur, bak, bakCached, attempt, buf, faults>>

\* Mutants: the backup is skipped; the load does not move on from the backup.
RejectSkipsBackup ==
  /\ pc = "read"
  /\ \/ cur \notin Configs /\ UNCHANGED faults
     \/ Fault
  /\ attempt' = 2
  /\ Goto(IF attempt < 2 THEN "openDef" ELSE "up")
  /\ UNCHANGED <<cur, bak, bakCached, buf, loaded>>

RejectTriesBackupAgain ==
  /\ pc = "read"
  /\ \/ cur \notin Configs /\ UNCHANGED faults
     \/ Fault
  /\ attempt' = IF attempt = 0 THEN 1 ELSE attempt
  /\ Goto(IF attempt < 2 THEN "openBak" ELSE "up")
  /\ UNCHANGED <<cur, bak, bakCached, buf, loaded>>

\* The file is missing, empty or no XML document, or it cannot be read: go on
\* to the next one.  After the third the load has failed, which Engage ignores.
Reject ==
  /\ pc = "read"
  /\ \/ cur \notin Configs /\ UNCHANGED faults
     \/ Fault
  /\ attempt' = attempt + 1
  /\ Goto(IF attempt = 0 THEN "openBak" ELSE IF attempt = 1 THEN "openDef" ELSE "up")
  /\ UNCHANGED <<cur, bak, bakCached, buf, loaded>>

\* Without memory for the contents the load gives up, whatever files are left.
NoMemory ==
  /\ pc = "read" /\ cur \notin {NoFile, Empty}
  /\ Fault
  /\ Goto("up")
  /\ UNCHANGED <<cur, bak, bakCached, attempt, buf, loaded>>

\* Mutant: the two names of the copy are swapped.
OpenBakSwapped ==
  /\ pc = "openBak"
  /\ \/ /\ bak # NoFile
        /\ bak' = Empty /\ Goto("copyBak")
        /\ UNCHANGED <<attempt, faults>>
     \/ /\ bak = NoFile
        /\ attempt' = attempt + 1 /\ Goto("openDef")
        /\ UNCHANGED <<bak, faults>>
  /\ UNCHANGED <<cur, bakCached, buf, loaded>>

OpenBak ==
  /\ pc = "openBak"
  /\ \/ /\ bak # NoFile
        /\ cur' = Empty /\ Goto("copyBak")
        /\ UNCHANGED <<attempt, faults>>
     \/ /\ bak = NoFile \/ faults < MaxFaults
        /\ faults' = IF bak = NoFile THEN faults ELSE faults + 1
        /\ attempt' = attempt + 1 /\ Goto("openDef")
        /\ UNCHANGED cur
  /\ UNCHANGED <<bak, bakCached, buf, loaded>>

OpenDef ==
  /\ pc = "openDef"
  /\ cur' = Empty
  /\ Goto("copyDef")
  /\ UNCHANGED <<bak, bakCached, attempt, buf, loaded, faults>>

\* AnscCopyFile; whether it succeeds is not looked at.
Copy(l, from) ==
  /\ pc = l
  /\ \/ cur' = from /\ UNCHANGED faults
     \/ Fault /\ cur' \in {Empty, Torn}
  /\ Goto("read")
  /\ UNCHANGED <<bak, bakCached, attempt, buf, loaded>>

CopyBak == Copy("copyBak", bak)
CopyDef == Copy("copyDef", Default)

-----------------------------------------------------------------------------
(* SaveCurConfig.                                                          *)

\* Mutant: the current file is overwritten without a backup.
SaveBeginsWithoutBackup(c) ==
  /\ pc = "up"
  /\ buf' = c
  /\ Goto("openCur")
  /\ UNCHANGED <<cur, bak, bakCached, attempt, loaded, faults>>

SaveBegins(c) ==
  /\ pc = "up"
  /\ buf' = c
  /\ Goto("backup")
  /\ UNCHANGED <<cur, bak, bakCached, attempt, loaded, faults>>

\* backup_file: open, map (which fails for an empty file) and creat.
OpenBackup ==
  /\ pc = "backup" /\ cur \notin {NoFile, Empty}
  /\ bak' = Empty /\ bakCached' = TRUE
  /\ Goto("writeBak")
  /\ UNCHANGED <<cur, attempt, buf, loaded, faults>>

\* A failed backup is logged and the save goes on.
NoBackup ==
  /\ pc = "backup"
  /\ \/ cur \in {NoFile, Empty} /\ UNCHANGED faults
     \/ Fault
  /\ Goto("openCur")
  /\ UNCHANGED <<cur, bak, bakCached, attempt, buf, loaded>>

WriteBackup ==
  /\ pc = "writeBak"
  /\ \/ bak' = cur /\ UNCHANGED faults
     \/ Fault /\ bak' \in {Empty, Torn}
  /\ Goto("openCur")
  /\ UNCHANGED <<cur, bakCached, attempt, buf, loaded>>

\* The current file is opened for writing and truncated, but not created.
OpenCur ==
  /\ pc = "openCur" /\ cur # NoFile
  /\ cur' = Empty
  /\ Goto("writeCur")
  /\ UNCHANGED <<bak, bakCached, attempt, buf, loaded, faults>>

NoCur ==
  /\ pc = "openCur"
  /\ \/ cur = NoFile /\ UNCHANGED faults
     \/ Fault
  /\ buf' = Nothing
  /\ Goto("up")
  /\ UNCHANGED <<cur, bak, bakCached, attempt, loaded>>

WriteCur ==
  /\ pc = "writeCur"
  /\ \/ cur' = buf /\ UNCHANGED faults
     \/ Fault /\ cur' \in {Empty, Torn}
  /\ buf' = Nothing
  /\ Goto("up")
  /\ UNCHANGED <<bak, bakCached, attempt, loaded>>

-----------------------------------------------------------------------------
(* The environment.                                                        *)

WritingCur == pc \in {"copyBak", "copyDef", "writeCur"}
WritingBak == pc = "writeBak"

Stop ==
  /\ pc # "down"
  /\ buf' = Nothing /\ loaded' = Nothing
  /\ Goto("down")
  /\ UNCHANGED <<attempt, faults>>

\* The process dies.  A file it was writing keeps what was written so far.
Crash ==
  /\ Stop
  /\ cur' \in IF WritingCur THEN {Empty, Torn} ELSE {cur}
  /\ bak' \in IF WritingBak THEN {Empty, Torn} ELSE {bak}
  /\ UNCHANGED bakCached

\* The device loses power, and with it what was in the page cache only.
PowerLoss ==
  /\ PowerLossAllowed
  /\ Stop
  /\ cur' \in IF WritingCur THEN {Empty, Torn} ELSE {cur}
  /\ bak' \in IF WritingBak \/ bakCached THEN {bak, Empty, Torn} ELSE {bak}
  /\ bakCached' = FALSE

\* The kernel writes the page cache to the medium.
Writeback ==
  /\ bakCached /\ ~WritingBak
  /\ bakCached' = FALSE
  /\ UNCHANGED <<cur, bak, pc, attempt, buf, loaded, faults>>

-----------------------------------------------------------------------------

Load == Accept \/ Reject \/ NoMemory \/ OpenBak \/ OpenDef \/ CopyBak \/ CopyDef
Save == OpenBackup \/ NoBackup \/ WriteBackup \/ OpenCur \/ NoCur \/ WriteCur

Next ==
  \/ BeginLoad \/ Load
  \/ (\E c \in Configs : SaveBegins(c)) \/ Save
  \/ Crash \/ PowerLoss \/ Writeback

Spec == Init /\ [][Next]_vars

\* A process that is running an operation goes on with it.
FairSpec == Spec /\ WF_vars(Load \/ Save)

-----------------------------------------------------------------------------
(* Properties.                                                             *)

\* Type invariant of the base configuration files.
TypeOK ==
  /\ cur \in File /\ bak \in File
  /\ bakCached \in BOOLEAN
  /\ pc \in {"down", "up"} \cup LoadSteps \cup SaveSteps
  /\ attempt \in 0 .. 3
  /\ buf \in Configs \cup {Nothing}
  /\ loaded \in Configs \cup {Nothing}
  /\ faults \in 0 .. MaxFaults

\* The configuration the next successful load returns.
Recoverable ==
  IF cur \in Configs THEN cur
  ELSE IF bak \in Configs THEN bak
  ELSE Default

Store == INSTANCE ConfigStore WITH stored <- Recoverable, saving <- buf

\* The two files implement one stored configuration: a save of SaveCurConfig
\* takes effect at one instant, a crash at any step of a save or of a load
\* leaves the old or the new configuration, and ReadCurConfig returns it.
ImplementsStore == Store!Spec

CopyLeft == cur \in Configs \/ bak \in Configs

\* A whole copy of the configuration is never lost: while one of the two files
\* is whole, no step of a save, a load or a crash leaves both unusable (what
\* SaveCurConfig makes the backup for).
KeepsACopy ==
  [][CopyLeft => CopyLeft']_vars

\* As long as no call fails, only a save changes what is stored: reading the current file, falling back
\* from it to the backup or the default file, and a crash or power loss on the
\* way all keep it (while the page cache does not hold the only copy).
OnlySavesChange ==
  [][(pc \notin SaveSteps /\ faults' = 0 /\ (bakCached => cur \in Configs))
     => Recoverable' = Recoverable]_vars

\* Whatever fails, ReadCurConfig and SaveCurConfig come to an end: the load
\* tries each of the three files at most once.
OperationEnds == (pc \in LoadSteps \cup SaveSteps) ~> (pc \in {"up", "down"})

-----------------------------------------------------------------------------
(* Inductive strengthenings, for the proofs.                               *)

StepInv ==
  /\ pc = "read" => attempt \in 0 .. 2
  /\ pc \in {"openBak", "copyBak"} => attempt = 1
  /\ pc \in {"openDef", "copyDef"} => attempt = 2
  /\ IF pc \in SaveSteps THEN buf \in Configs ELSE buf = Nothing

\* Without faults a load leaves a file behind only when it is unusable.
LoadInv == faults = 0 =>
  /\ pc \in LoadSteps \ {"read"} => cur \notin Configs
  /\ pc \in {"openDef", "copyDef"} => bak \notin Configs
  /\ pc = "read" /\ attempt = 1 /\ cur \notin Configs => bak \notin Configs
  /\ pc = "read" /\ attempt = 2 => cur \in Configs

\* Without faults and power loss a save has a whole file at every step.
SaveInv ==
  /\ pc \in {"up", "backup", "writeBak", "openCur"} => cur \in Configs
  /\ pc = "openCur" => bak = cur
  /\ pc = "writeCur" => cur \notin Configs /\ bak \in Configs
  /\ pc \in SaveSteps \cup {"up"} => loaded \in Configs

===========================================================================
