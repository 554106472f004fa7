----------------------------- MODULE PsmSspCfm -----------------------------
(***************************************************************************)
(* The platform configuration files (ssp_cfmif.c): at boot and on reload   *)
(* ssp_CfmReadCurConfig collects records from the current or the backup    *)
(* file, the platform's custom values, the default file, partner values    *)
(* taken out of syscfg, and bootstrap.json, and saves the result to both   *)
(* files.  Other programs request the partner values with trigger files,   *)
(* which the load removes, and with syscfg variables, which it unsets.     *)
(*                                                                         *)
(* The current file and two of the trigger files are in /tmp and vanish    *)
(* when the device reboots; the backup, the third trigger file and the     *)
(* committed syscfg are in flash.                                          *)
(***************************************************************************)
EXTENDS Naturals

CONSTANTS
  Params,       \* names of records
  Partnered,    \* those that partner values exist for (parm_present_table)
  OneShot,      \* those of them whose syscfg variable is unset when taken
  Vals, Absent,
  NoFile,
  Custom,       \* values of the platform (PsmHal_GetCustomParams)
  Default,      \* records of the default file
  Bootstrap,    \* partner values of bootstrap.json
  UserParams,   \* the records clients change
  UserVals,     \* what they set them to; Absent is a deletion
  CrashesAt,    \* the steps at which the process may die
  RebootsAt,    \* the steps at which the device may reboot
  MaxChanges    \* bound: changes by clients, and requests for partner values

Value  == Vals \cup {Absent}
Config == [Params -> Value]
NoRecords == [p \in Params |-> Absent]
TmpTriggers == {"applyPsm", "applyNewMember"}

ASSUME DataAssumption ==
  /\ Partnered \subseteq Params /\ OneShot \subseteq Partnered
  /\ Absent \notin Vals
  /\ NoFile \notin Config
  /\ Custom \in Config /\ Default \in Config /\ Bootstrap \in Config
  /\ \A p \in Params \ Partnered : Bootstrap[p] = Absent
  /\ UserParams \subseteq Params /\ UserVals \subseteq Value
  /\ MaxChanges \in Nat

VARIABLES
  cur, bak,      \* the records in the two files
  whole,         \* history: which of the two was written to its end
  apply,         \* the trigger file in /nvram
  tmpTriggers,   \* the trigger files in /tmp
  syscfg,        \* partner values in the syscfg of the running device
  syscfgDb,      \* partner values in the committed syscfg
  present,       \* parm_present_table: the names whose flag is up
  table,         \* rec_hash
  taken,         \* cus_params: partner values taken from syscfg
  todo,          \* syscfg variables the load has still to look at
  buf,           \* the file contents being saved
  repo,          \* the records of the running registry
  pc,
  changes, requests,
  expected       \* history: what a client or a partner request last asked for

files    == <<cur, bak, whole>>
triggers == <<apply, tmpTriggers>>
sys      == <<syscfg, syscfgDb>>
load     == <<present, table, taken, todo>>
bounds   == <<changes, requests>>
vars     == <<files, triggers, sys, load, buf, repo, pc, bounds, expected>>

LoadSteps == {"load", "custom", "default", "triggers", "applyFile", "take", "commit",
              "overwrite", "missing", "dropped", "flush"}
SaveSteps == {"openCur", "writeCur", "openBak", "writeBak"}

Step(from, to) == pc = from /\ pc' = to

Over(high, low) == [p \in Params |-> IF high[p] # Absent THEN high[p] ELSE low[p]]
Partial(c) == {[p \in Params |-> IF p \in S THEN c[p] ELSE Absent] : S \in SUBSET Params}

Init ==
  /\ cur = NoFile
  /\ bak \in Config \cup {NoFile}
  /\ whole = IF bak = NoFile THEN {} ELSE {"bak"}
  /\ apply = FALSE /\ tmpTriggers = {}
  /\ syscfg = NoRecords /\ syscfgDb = NoRecords
  /\ present = {} /\ table = NoRecords /\ taken = NoRecords /\ todo = {}
  /\ buf = NoRecords /\ repo = NoRecords
  /\ pc = "down"
  /\ changes = 0 /\ requests = 0
  /\ expected = NoRecords

-----------------------------------------------------------------------------
(* The programs around PSM.                                                *)

\* Before PSM starts, a program leaves partner values in syscfg and asks for
\* them: with the file in /nvram after a factory reset (there are no
\* configuration files then), or with one in /tmp when the partner changes.
RequestPartner ==
  /\ pc = "down" /\ requests < MaxChanges
  /\ requests' = requests + 1
  /\ \E v \in Config :
       /\ v # NoRecords /\ \A p \in Params \ Partnered : v[p] = Absent
       /\ syscfg' = Over(v, syscfg) /\ syscfgDb' = syscfg'
       /\ expected' = Over(v, expected)
  /\ \/ /\ cur = NoFile /\ bak = NoFile
        /\ apply' = TRUE /\ UNCHANGED tmpTriggers
     \/ \E t \in TmpTriggers : tmpTriggers' = tmpTriggers \cup {t} /\ UNCHANGED apply
  /\ UNCHANGED <<files, load, buf, repo, pc, changes>>

Boot ==
  /\ Step("down", "load")
  /\ UNCHANGED <<files, triggers, sys, load, buf, repo, bounds, expected>>

\* ReloadConfig.
Reload ==
  /\ Step("up", "load") /\ changes < MaxChanges
  /\ changes' = changes + 1
  /\ UNCHANGED <<files, triggers, sys, load, buf, repo, requests, expected>>

\* A client changes a record, and the registry writes it back.
ChangeRecord ==
  /\ Step("up", "openCur") /\ changes < MaxChanges
  /\ changes' = changes + 1
  /\ \E p \in UserParams, v \in UserVals :
       /\ repo' = [repo EXCEPT ![p] = v]
       /\ expected' = [expected EXCEPT ![p] = v]
  /\ buf' = repo'
  /\ UNCHANGED <<files, triggers, sys, load, requests>>

-----------------------------------------------------------------------------
(* ssp_CfmReadCurConfig.                                                   *)

\* Mutant: a load that finds neither file goes on as if there were a backup.
LoadSourceAssumesBackup == IF cur # NoFile THEN cur ELSE bak

\* Whatever can be opened counts as loaded; only a missing file makes the load
\* turn to the backup, and a missing backup leaves the table empty.
LoadSource == IF cur # NoFile THEN cur ELSE IF bak # NoFile THEN bak ELSE NoRecords

LoadRecords ==
  /\ Step("load", "custom")
  /\ table' = LoadSource
  /\ UNCHANGED <<files, triggers, sys, present, taken, todo, buf, repo, bounds, expected>>

ImportCustom ==
  /\ Step("custom", "default")
  /\ table' = Over(table, Custom)
  /\ UNCHANGED <<files, triggers, sys, present, taken, todo, buf, repo, bounds, expected>>

MergeDefault ==
  /\ Step("default", "triggers")
  /\ table' = Over(table, Default)
  /\ UNCHANGED <<files, triggers, sys, present, taken, todo, buf, repo, bounds, expected>>

\* Psm_GetCustomPartnersParams: partner values are looked for when there are no
\* files or a trigger in /tmp, and taken when there is any trigger.
TestTriggers ==
  /\ pc = "triggers"
  /\ IF tmpTriggers # {} \/ (cur = NoFile /\ bak = NoFile)
     THEN pc' = "applyFile" ELSE pc' = "missing"
  /\ todo' = IF tmpTriggers # {} THEN Partnered ELSE {}
  /\ tmpTriggers' = {}
  /\ UNCHANGED <<files, apply, sys, present, table, taken, buf, repo, bounds, expected>>

TestApplyFile ==
  /\ pc = "applyFile"
  /\ todo' = IF apply THEN Partnered ELSE todo
  /\ pc' = IF todo' # {} THEN "take" ELSE "missing"
  /\ apply' = FALSE
  /\ UNCHANGED <<files, tmpTriggers, sys, present, table, taken, buf, repo, bounds, expected>>

TakeParam(p) ==
  /\ pc = "take" /\ p \in todo
  /\ todo' = todo \ {p}
  /\ taken' = [taken EXCEPT ![p] = syscfg[p]]
  /\ syscfg' = IF p \in OneShot THEN [syscfg EXCEPT ![p] = Absent] ELSE syscfg
  /\ pc' = IF todo' = {} THEN "commit" ELSE "take"
  /\ UNCHANGED <<files, triggers, syscfgDb, present, table, buf, repo, bounds, expected>>

CommitSyscfg ==
  /\ Step("commit", "overwrite")
  /\ syscfgDb' = syscfg
  /\ UNCHANGED <<files, triggers, syscfg, load, buf, repo, bounds, expected>>

\* Mutant: the flag overwrite is 0, as it is for the custom and default records.
ImportPartnersKeeps ==
  /\ Step("overwrite", "missing")
  /\ table' = Over(table, taken)
  /\ UNCHANGED <<files, triggers, sys, present, taken, todo, buf, repo, bounds, expected>>

ImportPartners ==
  /\ Step("overwrite", "missing")
  /\ table' = Over(taken, table)
  /\ UNCHANGED <<files, triggers, sys, present, taken, todo, buf, repo, bounds, expected>>

\* Mutant: IsParameterMissed raises the flag of a name it has not found.
MergeMissingFlagsAll ==
  /\ Step("missing", "flush")
  /\ present' = Partnered
  /\ table' = table
  /\ UNCHANGED <<files, triggers, sys, taken, todo, buf, repo, bounds, expected>>

\* IsParameterMissed raises the flags of the names it finds; none is taken down again.
Seen == present \cup {p \in Partnered : table[p] # Absent}

\* merge_missing_Partner_params.
MergeMissing ==
  /\ Step("missing", "flush")
  /\ present' = Seen
  /\ table' = [p \in Params |->
                 IF p \in Partnered \ present' THEN Bootstrap[p] ELSE table[p]]
  /\ UNCHANGED <<files, triggers, sys, taken, todo, buf, repo, bounds, expected>>

\* bootstrap.json cannot be opened or read, or there is no memory for it: nothing is
\* merged, and the caller, which only logs it, goes on.
DropMerge ==
  /\ Step("missing", "dropped")
  /\ \E p \in Partnered : table[p] = Absent
  /\ present' = Seen
  /\ UNCHANGED <<files, triggers, sys, table, taken, todo, buf, repo, bounds, expected>>

\* The file loader parses the buffer after it has been saved.
FlushRecords ==
  /\ pc \in {"flush", "dropped"} /\ pc' = "openCur"
  /\ buf' = table /\ repo' = table
  /\ table' = NoRecords /\ taken' = NoRecords
  /\ UNCHANGED <<files, triggers, sys, present, todo, bounds, expected>>

-----------------------------------------------------------------------------
(* ssp_CfmSaveCurConfig: the current file first, then the backup.          *)

OpenCur ==
  /\ Step("openCur", "writeCur")
  /\ cur' = NoRecords /\ whole' = whole \ {"cur"}
  /\ UNCHANGED <<bak, triggers, sys, load, buf, repo, bounds, expected>>

WriteCur ==
  /\ Step("writeCur", "openBak")
  /\ cur' = buf /\ whole' = whole \cup {"cur"}
  /\ UNCHANGED <<bak, triggers, sys, load, buf, repo, bounds, expected>>

OpenBak ==
  /\ Step("openBak", "writeBak")
  /\ bak' = NoRecords /\ whole' = whole \ {"bak"}
  /\ UNCHANGED <<cur, triggers, sys, load, buf, repo, bounds, expected>>

WriteBak ==
  /\ Step("writeBak", "up")
  /\ bak' = cur /\ whole' = whole \cup {"bak"}
  /\ buf' = NoRecords
  /\ UNCHANGED <<cur, triggers, sys, load, repo, bounds, expected>>

-----------------------------------------------------------------------------

\* The process is gone; of the file it was writing a part is left.
Stop ==
  /\ pc' = "down"
  /\ present' = {} /\ table' = NoRecords /\ taken' = NoRecords /\ todo' = {}
  /\ buf' = NoRecords /\ repo' = NoRecords
  /\ bak' \in IF pc = "writeBak" THEN Partial(cur) ELSE {bak}
  /\ UNCHANGED <<apply, syscfgDb, bounds, expected>>

Crash ==
  /\ pc \in CrashesAt
  /\ Stop
  /\ cur' \in IF pc = "writeCur" THEN Partial(buf) ELSE {cur}
  /\ UNCHANGED <<whole, tmpTriggers, syscfg>>

Reboot ==
  /\ pc \in RebootsAt
  /\ Stop
  /\ cur' = NoFile /\ whole' = whole \ {"cur"}
  /\ tmpTriggers' = {}
  /\ syscfg' = syscfgDb

\* One that asks for a factory reset has both files removed.
FactoryReset ==
  /\ pc = "up" /\ changes < MaxChanges
  /\ changes' = changes + 1
  /\ cur' = NoFile /\ bak' = NoFile /\ whole' = {}
  /\ pc' = "down"
  /\ present' = {} /\ table' = NoRecords /\ taken' = NoRecords /\ todo' = {}
  /\ buf' = NoRecords /\ repo' = NoRecords
  /\ tmpTriggers' = {} /\ syscfg' = syscfgDb
  /\ expected' = NoRecords
  /\ UNCHANGED <<apply, syscfgDb, requests>>

Load ==
  \/ LoadRecords \/ ImportCustom \/ MergeDefault
  \/ TestTriggers \/ TestApplyFile \/ (\E p \in Partnered : TakeParam(p))
  \/ CommitSyscfg \/ ImportPartners \/ MergeMissing \/ DropMerge \/ FlushRecords

Save == OpenCur \/ WriteCur \/ OpenBak \/ WriteBak

Next ==
  \/ RequestPartner \/ Boot \/ Reload \/ ChangeRecord
  \/ Load \/ Save
  \/ Crash \/ Reboot \/ FactoryReset

Spec == Init /\ [][Next]_vars

-----------------------------------------------------------------------------
(* Properties.                                                             *)

\* Type invariant of the platform configuration files.
TypeOK ==
  /\ cur \in Config \cup {NoFile} /\ bak \in Config \cup {NoFile}
  /\ whole \subseteq {"cur", "bak"}
  /\ apply \in BOOLEAN /\ tmpTriggers \subseteq TmpTriggers
  /\ syscfg \in Config /\ syscfgDb \in Config
  /\ present \subseteq Partnered /\ todo \subseteq Partnered
  /\ table \in Config /\ taken \in Config
  /\ buf \in Config /\ repo \in Config
  /\ pc \in {"down", "up"} \cup LoadSteps \cup SaveSteps
  /\ changes \in 0 .. MaxChanges /\ requests \in 0 .. MaxChanges
  /\ expected \in Config

\* Whatever a client or a partner request last asked for is what the registry
\* has, and what both files hold, once ReadCurConfig has loaded and saved: no
\* default, custom or bootstrap value, no older partner value and no older file
\* replaces it, over reloads, restarts and reboots.
LastRequestWins ==
  pc = "up" => \A p \in Params :
    expected[p] # Absent => repo[p] = expected[p] /\ cur[p] = expected[p] /\ bak[p] = expected[p]

\* A load that can read bootstrap.json hands over a value for every partner
\* parameter of that file (merge_missing_Partner_params), whichever other sources
\* were there, and though the merge of an earlier load was dropped.  Only a client
\* that deletes one keeps it out, until the process ends: its flag, once raised,
\* stays up.
BootstrapMerged ==
  [][pc = "missing" /\ pc' = "flush" =>
       \A p \in Partnered : Bootstrap[p] # Absent /\ table'[p] = Absent =>
         p \in present /\ repo[p] = Absent]_vars

\* When the current file was not written to its end, the load turns to a backup
\* that was ("try read cur config", then "try read bak config").
BackupUsed ==
  pc = "custom" /\ cur # NoFile /\ "cur" \notin whole /\ "bak" \in whole => table = bak

-----------------------------------------------------------------------------
(* The inductive strengthening of LastRequestWins: where the value that was *)
(* last asked for is, at each step.                                        *)

Early == {"down", "load", "custom", "default", "triggers"}

\* The next load takes the partner values from syscfg.
Armed == tmpTriggers # {} \/ (apply /\ cur = NoFile /\ bak = NoFile)

\* A value in syscfg was the last one asked for, and one that is unset when
\* taken is there only as long as a trigger announces it.
SyscfgInv ==
  /\ \A p \in Params :
       syscfg[p] # Absent => p \in Partnered /\ expected[p] \in {Absent, syscfg[p]}
  /\ \A p \in OneShot : syscfg[p] # Absent =>
       \/ pc \in Early /\ Armed
       \/ pc = "applyFile" /\ (todo = Partnered \/ apply)
       \/ pc = "take" /\ p \in todo
  /\ pc \notin {"take", "commit"} => syscfgDb = syscfg

TableInv ==
  /\ pc \in {"custom", "default", "triggers"} =>
       \A p \in Params : LoadSource[p] # Absent => table[p] = LoadSource[p]
  /\ pc \notin {"take", "commit", "overwrite", "missing", "dropped", "flush"} => taken = NoRecords
  /\ \A p \in Params : taken[p] # Absent => expected[p] \in {Absent, taken[p]}
  /\ pc = "applyFile" => todo \in {{}, Partnered}
  /\ \A p \in todo : taken[p] = Absent
  /\ pc \in {"commit", "overwrite"} => todo = {}

FilesInv ==
  /\ pc \in SaveSteps => buf = repo
  /\ pc \in {"openBak", "writeBak", "up"} => cur = repo
  /\ pc = "up" => bak = repo

ExpectedInv == \A p \in Params : expected[p] # Absent =>
  /\ pc \in Early => LoadSource[p] = expected[p] \/ (syscfg[p] = expected[p] /\ Armed)
  /\ pc = "applyFile" =>
       table[p] = expected[p] \/ (syscfg[p] = expected[p] /\ (todo = Partnered \/ apply))
  /\ pc \in {"take", "commit", "overwrite"} =>
       expected[p] \in {taken[p], table[p]} \/ (p \in todo /\ syscfg[p] = expected[p])
  /\ pc \in {"missing", "dropped", "flush"} => table[p] = expected[p]
  /\ pc \in SaveSteps \cup {"up"} => repo[p] = expected[p]

===========================================================================
