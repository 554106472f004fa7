----------------------------- MODULE PsmService -----------------------------
(***************************************************************************)
(* The process and its two buses: the main thread daemonizes, creates and  *)
(* engages the registry, registers with the bus and then serves, while the *)
(* dbus and rbus threads read, set, delete and list records under          *)
(* ThreadLock; console commands and SIGUSR2 unload the registry.           *)
(*                                                                         *)
(* A name is a sequence of tokens, one of which is ".".  The write-back of *)
(* the records is the business of PsmRegistry, and the registry's timer is *)
(* only one more holder of ThreadLock.                                     *)
(***************************************************************************)
EXTENDS Integers, SequencesExt

CONSTANTS
  Dbus, Rbus,      \* the threads in which the two buses call the handlers
  NoThread,        \* the owner of a free lock
  Order,           \* every name, in the order the repository enumerates records
  OwnNames,        \* NamespacePsm from index 1 on: parameters of PSM itself
  Settable,        \* those whose value setParameterValues keeps in a global
  Shadowed,        \* names strcmp_s takes for one of NamespacePsm's, within the
                   \* sizeof(char *) characters getParameterValues lets it compare
  Values, EmptyText, NoRecord, NoValue,
  Initial,         \* the records LoadRegFile finds
  Requests,        \* the requests a bus thread may be given
  Commands,        \* what may be typed on the console
  MaxRequests,     \* bound: requests in a behaviour
  MaxEngagements,  \* bound: registries created in a behaviour
  MaxFailures      \* bound: failing calls of the main thread in a behaviour

Names   == ToSet(Order)
Threads == Dbus \cup Rbus
Repo    == [Names -> Values \cup {NoRecord}]
Own     == [OwnNames -> Values]

ASSUME NameAssumption ==
  /\ Order \in Seq(Names) /\ IsInjective(Order)
  /\ \A n \in Names : n \in Seq(ToSet(n))
  /\ Settable \subseteq OwnNames /\ OwnNames \subseteq Shadowed /\ Shadowed \subseteq Names
  /\ EmptyText \in Values /\ NoRecord \notin Values /\ NoValue \notin Values
  /\ Initial \in Repo

\* What the buses and the rbus wrappers pass on.
ASSUME RequestAssumption == \A r \in Requests :
  /\ r.op \in {"get", "set", "delete", "names"}
  /\ r.op = "set" => r.items \in Seq([name : Names, value : Values]) /\ r.items # <<>>
  /\ r.op \in {"get", "delete"} => r.items \in Seq(Names)
  /\ r.op = "names" =>
       r.items = <<>> /\ r.prefix \in Seq(ToSet(r.prefix)) /\ r.nextLevel \in BOOLEAN

ASSUME ThreadAssumption == Dbus \cap Rbus = {} /\ NoThread \notin Threads

VARIABLES
  main,            \* where the main thread stands
  daemon,          \* bRunAsDaemon
  parent,          \* the process that ran PsmSsp: "none", "waiting" or "released"
  registry,        \* pPsmSysRegistry: "null", "fresh", "loading", "loaded", or
                   \* "removed" when it points at memory that was freed
  folder,          \* /Configuration/Provision exists
  g_psmHealth, bEngaged,
  busOpen, rbusOpen,
  repo, own,       \* the records and PSM's own parameters
  lock,            \* ThreadLock
  pc, req,         \* of each bus thread: where it stands, what it has to process
  got, reply,      \* what it has collected, and its last reply
  applied,         \* history: the records and parameters between two requests
  seen,            \* history: applied when the thread took the lock
  engagements,     \* history: how often 'e' has created a registry
  overReleased,    \* history: a thread has released the lock of another one
  stale,           \* history: the thread that used a removed registry
  requests, failures

process == <<main, daemon, parent, registry, folder, g_psmHealth, bEngaged, busOpen,
             rbusOpen, engagements, failures>>
threads == <<pc, req, got, reply, seen, requests>>
world   == <<repo, own, lock, applied, threads, overReleased, stale>>
vars    == <<process, world>>

NoRecords == [n \in Names |-> NoRecord]
NoReply   == [ok |-> FALSE, values |-> <<>>]
Alive     == main # "dead"
MayFail   == failures < MaxFailures /\ failures' = failures + 1

NoOwn     == [n \in OwnNames |-> EmptyText]
NotSeen   == [repo |-> NoRecords, own |-> NoOwn, life |-> 0]
NoRequest == [op |-> "none", items |-> <<>>, asked |-> <<>>]
Asleep    == [t \in Threads |-> "idle"]

Init ==
  /\ daemon \in BOOLEAN
  /\ main = (IF daemon THEN "daemonize" ELSE "pidFile")
  /\ parent = "none" /\ registry = "null" /\ folder = FALSE
  /\ g_psmHealth = "Red" /\ bEngaged = FALSE
  /\ busOpen = FALSE /\ rbusOpen = FALSE
  /\ repo = NoRecords /\ own = NoOwn
  /\ lock = NoThread
  /\ pc = Asleep
  /\ req = [t \in Threads |-> NoRequest]
  /\ got = [t \in Threads |-> <<>>]
  /\ reply = [t \in Threads |-> NoReply]
  /\ applied = [repo |-> repo, own |-> own]
  /\ seen = [t \in Threads |-> NotSeen]
  /\ engagements = 0 /\ overReleased = FALSE /\ stale = NoThread
  /\ requests = 0 /\ failures = 0

-----------------------------------------------------------------------------
(* The main thread.                                                        *)

Goto(l) == main' = l

\* sem_open or fork fails; the child's setsid fails and leaves the parent waiting.
daemonize ==
  /\ main = "daemonize"
  /\ \/ parent' = "waiting" /\ Goto("pidFile") /\ UNCHANGED failures
     \/ MayFail /\ parent' \in {"none", "waiting"} /\ Goto("dead")
  /\ UNCHANGED <<daemon, registry, folder, g_psmHealth, bEngaged, busOpen, rbusOpen,
                 engagements, world>>

PidFile ==
  /\ main = "pidFile"
  /\ \/ Goto("create") /\ UNCHANGED failures
     \/ MayFail /\ Goto("dead")
  /\ UNCHANGED <<daemon, parent, registry, folder, g_psmHealth, bEngaged, busOpen,
                 rbusOpen, engagements, world>>

\* Without a registry the command succeeds all the same.
CreateSysRegistry ==
  /\ main = "create"
  /\ \/ registry' = "fresh" /\ Goto("setup") /\ engagements' = engagements + 1
        /\ UNCHANGED failures
     \/ MayFail /\ registry' = "null" /\ Goto("post") /\ UNCHANGED engagements
  /\ repo' = NoRecords /\ folder' = FALSE /\ lock' = NoThread
  /\ applied' = [applied EXCEPT !.repo = NoRecords]
  /\ UNCHANGED <<daemon, parent, g_psmHealth, bEngaged, busOpen, rbusOpen, own, threads,
                 overReleased, stale>>

\* Mutant: the bus is connected before the registry is engaged.
SetupEnvServing ==
  /\ main = "setup"
  /\ folder' = TRUE /\ registry' = "loading"
  /\ g_psmHealth' = "Green" /\ busOpen' = TRUE
  /\ Goto("load")
  /\ UNCHANGED <<daemon, parent, bEngaged, rbusOpen, engagements, failures,
                 world>>

\* PsmSysroEngage ignores what SetupEnv returns.
SetupEnv ==
  /\ main = "setup"
  /\ \/ folder' = TRUE /\ UNCHANGED failures
     \/ MayFail /\ UNCHANGED folder
  /\ registry' = "loading"
  /\ Goto("load")
  /\ UNCHANGED <<daemon, parent, g_psmHealth, bEngaged, busOpen, rbusOpen, engagements,
                 world>>

\* LoadRegFile adds one record at a time and takes no lock, and Engage ignores
\* what it returns.
LoadRecord ==
  /\ main = "load"
  /\ \E i \in DOMAIN Order :
       /\ repo[Order[i]] # Initial[Order[i]]
       /\ \A j \in 1 .. i - 1 : repo[Order[j]] = Initial[Order[j]]
       /\ repo' = [repo EXCEPT ![Order[i]] = Initial[Order[i]]]
  /\ applied' = [applied EXCEPT !.repo = repo']
  /\ UNCHANGED <<process, own, lock, threads, overReleased, stale>>

LoadEnds ==
  /\ main = "load"
  /\ \/ repo = Initial /\ UNCHANGED failures
     \/ repo # Initial /\ MayFail
  /\ registry' = "loaded"
  /\ Goto("busInit")
  /\ UNCHANGED <<daemon, parent, folder, g_psmHealth, bEngaged, busOpen, rbusOpen,
                 engagements, world>>

\* The handlers may be called from Register_Path on.
PsmDbusInit ==
  /\ main = "busInit"
  /\ g_psmHealth' = "Yellow" /\ busOpen' = TRUE
  /\ Goto("register")
  /\ UNCHANGED <<daemon, parent, registry, folder, bEngaged, rbusOpen, engagements,
                 failures, world>>

\* Mutant: main goes on after a refusal.
registerOnce ==
  /\ main = "register"
  /\ g_psmHealth' \in {"Yellow", "Green"}
  /\ Goto("rbusInit")
  /\ UNCHANGED <<daemon, parent, registry, folder, bEngaged, busOpen, rbusOpen,
                 engagements, failures, world>>

\* The component registrar is asked every ten seconds until it accepts; a refusal
\* changes nothing.
registerCapabilities ==
  /\ main = "register"
  /\ g_psmHealth' = "Green"
  /\ Goto("rbusInit")
  /\ UNCHANGED <<daemon, parent, registry, folder, bEngaged, busOpen, rbusOpen,
                 engagements, failures, world>>

\* rbus may be disabled, and what PsmRbusInit returns is ignored.
PsmRbusInit ==
  /\ main = "rbusInit"
  /\ rbusOpen' \in {TRUE, rbusOpen}
  /\ bEngaged' = TRUE
  /\ Goto("post")
  /\ UNCHANGED <<daemon, parent, registry, folder, g_psmHealth, busOpen, engagements,
                 failures, world>>

\* Mutant: main forgets the parent.
PostNothing ==
  /\ main = "post"
  /\ Goto(IF daemon THEN "serve" ELSE "console")
  /\ UNCHANGED <<parent, daemon, registry, folder, g_psmHealth, bEngaged, busOpen,
                 rbusOpen, engagements, failures, world>>

\* sem_post lets the parent exit; the daemon sleeps from then on.
Post ==
  /\ main = "post"
  /\ parent' = (IF daemon THEN "released" ELSE parent)
  /\ Goto(IF daemon THEN "serve" ELSE "console")
  /\ UNCHANGED <<daemon, registry, folder, g_psmHealth, bEngaged, busOpen, rbusOpen,
                 engagements, failures, world>>

MainStep ==
  \/ daemonize \/ PidFile \/ CreateSysRegistry \/ SetupEnv \/ LoadRecord \/ LoadEnds
  \/ PsmDbusInit \/ registerCapabilities \/ PsmRbusInit \/ Post

-----------------------------------------------------------------------------
(* Console commands and SIGUSR2.                                           *)

CommandEngage ==
  /\ main = "console" /\ "e" \in Commands /\ ~bEngaged
  /\ engagements < MaxEngagements
  /\ Goto("create")
  /\ UNCHANGED <<daemon, parent, registry, folder, g_psmHealth, bEngaged, busOpen,
                 rbusOpen, engagements, failures, world>>

\* Mutant: the registry is removed while the bus is still connected.
RemoveServing ==
  /\ main = "console" /\ "c" \in Commands /\ bEngaged
  /\ registry' = "removed" /\ bEngaged' = FALSE
  /\ UNCHANGED <<main, daemon, parent, folder, g_psmHealth, busOpen, rbusOpen, engagements,
                 failures, world>>

\* Bus_Exit returns when no dbus handler runs.  rbus is never closed, the health
\* stays Green and pPsmSysRegistry keeps pointing at the registry.
CommandCancel ==
  /\ main = "console" /\ "c" \in Commands /\ bEngaged
  /\ \A t \in Dbus : pc[t] = "idle"
  /\ busOpen' = FALSE
  /\ registry' = "removed" /\ bEngaged' = FALSE
  /\ UNCHANGED <<main, daemon, parent, folder, g_psmHealth, rbusOpen, engagements,
                 failures, world>>

\* Cancel and Remove without leaving the bus, then the end of the process.
CancelAndRemove ==
  /\ registry' = (IF bEngaged /\ registry # "null" THEN "removed" ELSE registry)
  /\ bEngaged' = FALSE
  /\ Goto("exiting")
  /\ UNCHANGED <<daemon, parent, folder, g_psmHealth, busOpen, rbusOpen, engagements,
                 failures, world>>

CommandQuit == main = "console" /\ "q" \in Commands /\ CancelAndRemove

\* Bound: for the daemon only, which has no command that would do the same.
SigUsr2 == daemon /\ main \in {"post", "serve"} /\ bEngaged /\ CancelAndRemove

\* The memory of the process goes with it.
Die ==
  /\ Goto("dead")
  /\ repo' = NoRecords /\ own' = NoOwn /\ lock' = NoThread
  /\ applied' = [repo |-> NoRecords, own |-> NoOwn]
  /\ pc' = Asleep
  /\ req' = [t \in Threads |-> NoRequest]
  /\ got' = [t \in Threads |-> <<>>]
  /\ reply' = [t \in Threads |-> NoReply]
  /\ seen' = [t \in Threads |-> NotSeen]
  /\ UNCHANGED <<daemon, parent, registry, folder, g_psmHealth, bEngaged, busOpen, rbusOpen,
                 engagements, failures, requests>>

Exit == main = "exiting" /\ Die /\ UNCHANGED <<overReleased, stale>>

-----------------------------------------------------------------------------
(* The handlers.                                                           *)

At(t, l)      == Alive /\ pc[t] = l
Step(t, l)    == pc' = [pc EXCEPT ![t] = l]
Items(t)      == req[t].items
NextItem(t)   == req' = [req EXCEPT ![t].items = Tail(@)]
Collect(t, x) == got' = [got EXCEPT ![t] = Append(@, x)]

\* The registry this thread works on has been removed.
Gone(t) ==
  \/ registry = "removed"
  \/ pc[t] # "enter" /\ (registry = "null" \/ seen[t].life # engagements)

Working(t, l)  == At(t, l) /\ ~Gone(t)
Item(t, op)    == Working(t, "item") /\ req[t].op = op /\ Items(t) # <<>>
FreeOwnLock(t) == lock' = IF lock = t THEN NoThread ELSE lock

\* setParameterValues_rbus passes on the first property only.
Passed(t, r) == IF t \in Rbus /\ r.op = "set" THEN <<Head(r.items)>> ELSE r.items

Receive(t) ==
  /\ At(t, "idle") /\ (IF t \in Dbus THEN busOpen ELSE rbusOpen)
  /\ requests < MaxRequests
  /\ requests' = requests + 1
  /\ \E r \in Requests :
       req' = [req EXCEPT ![t] = [op |-> r.op, items |-> Passed(t, r), asked |-> r]]
  /\ reply' = [reply EXCEPT ![t] = NoReply]
  /\ seen' = [seen EXCEPT ![t] = NotSeen]
  /\ Step(t, "enter")
  /\ UNCHANGED <<process, repo, own, lock, applied, got, overReleased, stale>>

\* getParameterValues_rbus takes any result for a success, since neither
\* CCSP_SUCCESS nor CCSP_FAILURE is zero.
Answer(t, ok) ==
  /\ reply' = [reply EXCEPT ![t] =
       [ok     |-> ok \/ (t \in Rbus /\ req[t].op = "get"),
        values |-> IF ok THEN got[t] ELSE <<>>]]
  /\ got' = [got EXCEPT ![t] = <<>>]
  /\ seen' = [seen EXCEPT ![t].life = 0]
  /\ Step(t, "idle")

\* psmDel calls setParameterAttributes for one name after the other, and its
\* result does not depend on theirs.
OneByOne(t) == t \in Rbus /\ req[t].op = "delete"

Refuse(t) ==
  IF OneByOne(t) /\ Len(Items(t)) > 1
  THEN NextItem(t) /\ Step(t, "enter") /\ UNCHANGED <<got, reply, seen>>
  ELSE Answer(t, OneByOne(t)) /\ UNCHANGED req

\* The rbus wrappers look for a registry before they call a handler.
NoRegistry(t) == t \in Rbus /\ registry = "null" /\ Items(t) = Passed(t, req[t].asked)

NotReady(t) ==
  /\ At(t, "enter") /\ (g_psmHealth # "Green" \/ registry = "null")
  /\ IF NoRegistry(t) THEN Step(t, "idle") /\ UNCHANGED <<req, got, reply, seen>> ELSE Refuse(t)
  /\ UNCHANGED <<process, repo, own, lock, applied, requests, overReleased, stale>>

\* From here on the thread works on the registry it has found.
Enter(t) ==
  /\ Working(t, "enter") /\ g_psmHealth = "Green" /\ registry # "null"
  /\ seen' = [seen EXCEPT ![t].life = engagements]
  /\ Step(t, "wait")
  /\ UNCHANGED <<process, repo, own, lock, applied, req, got, reply, requests, overReleased,
                 stale>>

\* What follows a use of freed memory is undefined; the model ends the process.
UseRemoved(t) ==
  /\ Alive /\ pc[t] # "idle" /\ Gone(t)
  /\ stale' = t
  /\ Die
  /\ UNCHANGED overReleased

Observe(t) ==
  seen' = IF req[t].op \in {"get", "names"}
          THEN [seen EXCEPT ![t].repo = applied.repo, ![t].own = applied.own] ELSE seen

\* Mutant: the handler does not take ThreadLock.
AcqNoLock(t) ==
  /\ Working(t, "wait")
  /\ Observe(t)
  /\ Step(t, "open")
  /\ UNCHANGED <<process, lock, repo, own, applied, req, got, reply, requests, overReleased,
                 stale>>

AcqThreadLock(t) ==
  /\ Working(t, "wait") /\ lock = NoThread
  /\ lock' = t
  /\ Observe(t)
  /\ Step(t, "open")
  /\ UNCHANGED <<process, repo, own, applied, req, got, reply, requests, overReleased, stale>>

\* Mutant: the path without a folder keeps the lock.
OpenFolderKeeps(t) ==
  /\ Working(t, "open")
  /\ IF folder THEN Step(t, "item") /\ UNCHANGED <<req, got, reply, seen>> ELSE Refuse(t)
  /\ UNCHANGED <<process, lock, repo, own, applied, requests, overReleased, stale>>

OpenFolder(t) ==
  /\ Working(t, "open")
  /\ IF folder THEN Step(t, "item") /\ UNCHANGED <<lock, req, got, reply, seen>>
               ELSE Refuse(t) /\ FreeOwnLock(t)
  /\ UNCHANGED <<process, repo, own, applied, requests, overReleased, stale>>

\* What a read finds for a name: a parameter of PSM's own, no value for a name
\* that is only taken for one, or the record.
Lookup(n, r, o) ==
  IF n \in OwnNames THEN o[n] ELSE IF n \in Shadowed THEN NoValue ELSE r[n]

\* A record with an empty value needs no buffer, and is left out of the reply.
Given(n, v) == v # EmptyText \/ n \in OwnNames

GetItem(t) ==
  /\ Item(t, "get")
  /\ LET n == Head(Items(t))
         v == Lookup(n, repo, own)
     IN /\ v # NoRecord
        /\ IF Given(n, v) THEN Collect(t, <<n, v>>) ELSE UNCHANGED got
  /\ NextItem(t)
  /\ UNCHANGED <<process, repo, own, lock, applied, pc, reply, seen, requests, overReleased,
                 stale>>

\* A missing record ends the read: ThreadLock is released, and again at EXIT.
GetMissing(t) ==
  /\ Item(t, "get") /\ Lookup(Head(Items(t)), repo, own) = NoRecord
  /\ FreeOwnLock(t)
  /\ Step(t, "failed")
  /\ UNCHANGED <<process, repo, own, applied, req, got, reply, seen, requests, overReleased,
                 stale>>

\* getParameterValues_rbus reads the values of the names counted before the
\* missing one, but the array was never assigned.
Crashes(t) == t \in Rbus /\ got[t] # <<>>

\* The second release frees the lock under its new owner, or has no effect.
ReleaseAgain(t) ==
  /\ Working(t, "failed")
  /\ lock' \in {lock, NoThread}
  /\ overReleased' = (overReleased \/ lock' # lock)
  /\ ~Crashes(t) /\ Answer(t, FALSE)
  /\ UNCHANGED <<process, repo, own, applied, req, requests, stale>>

NullDereference(t) ==
  /\ Working(t, "failed") /\ Crashes(t)
  /\ Die
  /\ UNCHANGED <<overReleased, stale>>

\* A settable parameter of PSM is kept in a global.  Anything else is added as a
\* record, also under the name of a parameter that cannot be set.  The parameters
\* that act on the registry are in PsmRegistry, and not among OwnNames here.
SetItem(t) ==
  /\ Item(t, "set")
  /\ LET i == Head(Items(t))
     IN IF i.name \in Settable
        THEN own' = [own EXCEPT ![i.name] = i.value] /\ UNCHANGED repo
        ELSE repo' = [repo EXCEPT ![i.name] = i.value] /\ UNCHANGED own
  /\ NextItem(t)
  /\ UNCHANGED <<process, lock, applied, pc, got, reply, seen, requests, overReleased, stale>>

\* Mutant: the record is blanked, not deleted.
DeleteItemBlank(t) ==
  /\ Item(t, "delete")
  /\ repo' = [repo EXCEPT ![Head(Items(t))] = NoValue]
  /\ NextItem(t)
  /\ Step(t, IF OneByOne(t) THEN "one" ELSE "item")
  /\ UNCHANGED <<process, own, lock, applied, got, reply, seen, requests, overReleased, stale>>

DeleteItem(t) ==
  /\ Item(t, "delete")
  /\ repo' = [repo EXCEPT ![Head(Items(t))] = NoRecord]
  /\ NextItem(t)
  /\ Step(t, IF OneByOne(t) THEN "one" ELSE "item")
  /\ UNCHANGED <<process, own, lock, applied, got, reply, seen, requests, overReleased, stale>>

\* The places of the records, their number, and the k-th record.
Stored(r) == {i \in DOMAIN Order : r[Order[i]] # NoRecord}
Upto(r, i) == {j \in Stored(r) : j <= i}
Count(r)   == Cardinality(Stored(r))
Nth(r, k)  == Order[CHOOSE i \in Stored(r) : Cardinality(Upto(r, i)) = k]

\* Mutant: the dot is looked for from the start of the name.
CutAtFirstDot(n, prefix) ==
  LET dots == {i \in 1 .. Len(n) : n[i] = "."}
  IN IF dots = {} THEN n ELSE SubSeq(n, 1, CHOOSE i \in dots : \A j \in dots : i <= j)

\* A name up to the dot that ends its next level below the prefix.
NextLevel(n, prefix) ==
  LET dots == {i \in Len(prefix) + 1 .. Len(n) : n[i] = "."}
  IN IF dots = {} THEN n ELSE SubSeq(n, 1, CHOOSE i \in dots : \A j \in dots : i <= j)

\* Which records a listing is about, and what it calls them.
Below(n, a)  == IsPrefix(a.prefix, n) /\ (a.nextLevel => Len(n) > Len(a.prefix))
NameOf(n, a) == IF a.nextLevel THEN NextLevel(n, a.prefix) ELSE n

\* getParameterNames counts the records, then enumerates them by index.
CountRecords(t) ==
  /\ Working(t, "item") /\ req[t].op = "names"
  /\ req' = [req EXCEPT ![t] =
       [op |-> "enumerate", items |-> [k \in 1 .. Count(repo) |-> k], asked |-> @.asked]]
  /\ UNCHANGED <<process, repo, own, lock, applied, pc, got, reply, seen, requests,
                 overReleased, stale>>

EnumRecord(t) ==
  /\ Item(t, "enumerate")
  /\ LET a    == req[t].asked
         k    == Head(Items(t))
         n    == Nth(repo, k)
         name == NameOf(n, a)
     IN IF k <= Count(repo) /\ Below(n, a) /\ ~Contains(got[t], name)
        THEN Collect(t, name)
        ELSE UNCHANGED got
  /\ NextItem(t)
  /\ UNCHANGED <<process, repo, own, lock, applied, pc, reply, seen, requests, overReleased,
                 stale>>

RelThreadLock(t) ==
  /\ Working(t, "item") /\ Items(t) = <<>> /\ req[t].op # "names"
  /\ FreeOwnLock(t)
  /\ applied' = [repo |-> repo, own |-> own]
  /\ Answer(t, TRUE)
  /\ UNCHANGED <<process, repo, own, req, requests, overReleased, stale>>

\* The end of one of the calls psmDel makes.
ReleaseOne(t) ==
  /\ Working(t, "one")
  /\ FreeOwnLock(t)
  /\ applied' = [repo |-> repo, own |-> own]
  /\ IF Items(t) = <<>> THEN Answer(t, TRUE)
                        ELSE Step(t, "enter") /\ UNCHANGED <<got, reply, seen>>
  /\ UNCHANGED <<process, repo, own, req, requests, overReleased, stale>>

HandlerStep(t) ==
  \/ NotReady(t) \/ Enter(t) \/ UseRemoved(t) \/ AcqThreadLock(t) \/ OpenFolder(t)
  \/ GetItem(t) \/ GetMissing(t) \/ ReleaseAgain(t) \/ NullDereference(t)
  \/ SetItem(t) \/ DeleteItem(t)
  \/ CountRecords(t) \/ EnumRecord(t) \/ RelThreadLock(t) \/ ReleaseOne(t)

Next ==
  \/ MainStep \/ CommandEngage \/ CommandCancel \/ CommandQuit \/ SigUsr2 \/ Exit
  \/ \E t \in Threads : Receive(t) \/ HandlerStep(t)

Spec == Init /\ [][Next]_vars

\* Threads are scheduled, and the registrar accepts in the end; requests, commands
\* and the signal need not come.
Fairness == WF_vars(MainStep) /\ WF_vars(Exit) /\ \A t \in Threads : WF_vars(HandlerStep(t))

FairSpec == Spec /\ Fairness

-----------------------------------------------------------------------------
(* Properties.                                                             *)

\* Every variable has its type.
TypeOK ==
  /\ main \in {"daemonize", "pidFile", "create", "setup", "load", "busInit", "register",
               "rbusInit", "post", "serve", "console", "exiting", "dead"}
  /\ daemon \in BOOLEAN /\ parent \in {"none", "waiting", "released"}
  /\ registry \in {"null", "fresh", "loading", "loaded", "removed"}
  /\ folder \in BOOLEAN /\ bEngaged \in BOOLEAN /\ busOpen \in BOOLEAN /\ rbusOpen \in BOOLEAN
  /\ g_psmHealth \in {"Red", "Yellow", "Green"}
  /\ repo \in Repo /\ own \in Own /\ applied \in [repo : Repo, own : Own]
  /\ lock \in Threads \cup {NoThread} /\ stale \in Threads \cup {NoThread}
  /\ pc \in [Threads -> {"idle", "enter", "wait", "open", "item", "one", "failed"}]
  /\ seen \in [Threads -> [repo : Repo, own : Own, life : 0 .. engagements]]
  /\ \A t \in Threads : reply[t].ok \in BOOLEAN
  /\ overReleased \in BOOLEAN
  /\ engagements \in Nat /\ requests \in Nat /\ failures \in Nat

\* PsmSsp returns to whoever started it only when PSM can be used: the parent is
\* released when the daemon has its registry loaded and registered with the bus,
\* or could not create one at all.
ReleasedWhenReady ==
  parent = "released" /\ main = "serve" =>
    \/ registry = "null"
    \/ registry = "loaded" /\ bEngaged /\ busOpen /\ g_psmHealth = "Green"

\* No handler works on a configuration that is still being loaded, although the
\* load takes no lock.  Only the first engagement promises it: the health stays
\* Green and rbus open when 'c' and 'e' replace the registry.
ServedAfterLoad ==
  engagements < 2 => \A t \in Threads : pc[t] = "item" => registry \notin {"fresh", "loading"}

Steady == engagements < 2 /\ ~overReleased

\* A reply that has, for every one of the first k names that is given a value, the
\* name and its value, in the order of the names.
AnswersFirst(values, k, names, s) ==
  \E at \in [1 .. Len(values) -> 1 .. k] :
    /\ \A i, j \in DOMAIN at : i < j => at[i] < at[j]
    /\ Range(at) = {i \in 1 .. k : Given(names[i], Lookup(names[i], s.repo, s.own))}
    /\ \A i \in DOMAIN at : values[i] = <<names[at[i]], Lookup(names[at[i]], s.repo, s.own)>>

Answers(values, names, s) == AnswersFirst(values, Len(names), names, s)

Missing(names, s) == \E i \in DOMAIN names : Lookup(names[i], s.repo, s.own) = NoRecord

\* A read of several names that succeeds answers all of them, with the values they
\* had together between two requests: no other request is seen half done.  Through
\* rbus a read that misses a name also succeeds, and answers nothing.
SnapshotReads ==
  \A t \in Threads :
    LET names == req[t].asked.items
    IN Steady /\ pc[t] = "idle" /\ req[t].op = "get" /\ reply[t].ok =>
         \/ ~Missing(names, seen[t]) /\ Answers(reply[t].values, names, seen[t])
         \/ t \in Rbus /\ reply[t].values = <<>>

\* The records below a prefix, and the names of the next level: what the records'
\* names begin with up to their first dot behind the prefix, or to their end.
Under(r, p)      == {n \in Names : r[n] # NoRecord /\ IsPrefix(p, n)}
Beginnings(r, p) == UNION {{SubSeq(n, 1, k) : k \in Len(p) + 1 .. Len(n)} : n \in Under(r, p)}
IsFolder(m, p)   == m[Len(m)] = "." /\ ~Contains(SubSeq(m, Len(p) + 1, Len(m) - 1), ".")
IsPlain(m, p)    == ~Contains(SubSeq(m, Len(p) + 1, Len(m)), ".")
Levels(r, p)     ==
  {m \in Beginnings(r, p) : IsFolder(m, p) \/ (m \in Under(r, p) /\ IsPlain(m, p))}

\* getParameterNames answers each name of the next level, or each record, below
\* the prefix exactly once, also when other requests add and delete records.
NamesAnswer ==
  \A t \in Threads :
    LET a     == req[t].asked
        names == IF a.nextLevel THEN Levels(seen[t].repo, a.prefix)
                                ELSE Under(seen[t].repo, a.prefix)
    IN Steady /\ pc[t] = "idle" /\ req[t].op = "enumerate" /\ reply[t].ok =>
         ToSet(reply[t].values) = names /\ IsInjective(reply[t].values)

\* Leaving the bus before the registry is removed keeps the dbus handlers off the
\* removed registry: only a quit without Bus_Exit can pull it from under one.
UnloadStopsDbus ==
  [][stale' \in Dbus /\ stale = NoThread => main = "exiting"]_vars

\* The process that ran PsmSsp is released, unless the daemon has died before.
ParentReleased == parent = "waiting" ~> parent = "released" \/ ~Alive

\* A request that was received is answered, unless the process ends: no path
\* leaves ThreadLock held.
RequestsEnd == \A t \in Threads : pc[t] = "enter" ~> pc[t] = "idle" \/ ~Alive
=============================================================================
