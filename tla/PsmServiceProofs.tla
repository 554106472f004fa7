-------------------------- MODULE PsmServiceProofs --------------------------
(***************************************************************************)
(* Proofs about the process and its buses.  One invariant about the main   *)
(* thread's way through its calls (LifeInv) gives what the buses may count *)
(* on: the parent is released by a process that can be used, no handler    *)
(* sees a registry that is still being loaded, and leaving the bus keeps   *)
(* the dbus handlers off a removed registry.  A second one, about what     *)
(* ThreadLock guards and what a reader has collected so far (ReadInv),     *)
(* gives that a read of several names sees one state of the records, and   *)
(* with ListInv that a listing names each record of one state once.        *)
(***************************************************************************)
EXTENDS PsmService, FiniteSetTheorems, SequenceTheorems, TLAPS

BeforeBus == {"daemonize", "pidFile", "create", "setup", "load", "busInit"}
SetItems == [name : Names, value : Values]

Labels   == {"idle", "enter", "wait", "open", "item", "one", "failed"}

\* Type correctness, part by part, with what a request holds.
ProcType ==
  /\ main \in BeforeBus \cup {"register", "rbusInit", "post", "serve", "console", "exiting",
                            "dead"}
  /\ daemon \in BOOLEAN /\ parent \in {"none", "waiting", "released"}
  /\ registry \in {"null", "fresh", "loading", "loaded", "removed"}
  /\ folder \in BOOLEAN /\ bEngaged \in BOOLEAN /\ busOpen \in BOOLEAN /\ rbusOpen \in BOOLEAN
  /\ g_psmHealth \in {"Red", "Yellow", "Green"}
  /\ engagements \in Nat /\ failures \in Nat

DataType == repo \in Repo /\ own \in Own /\ applied \in [repo : Repo, own : Own]

PlaceType ==
  /\ lock \in Threads \cup {NoThread} /\ stale \in Threads \cup {NoThread}
  /\ pc \in [Threads -> Labels]
  /\ overReleased \in BOOLEAN /\ requests \in Nat

SeenType == seen \in [Threads -> [repo : Repo, own : Own, life : 0 .. engagements]]

IsReq(r) == r = [op |-> r.op, items |-> r.items, asked |-> r.asked]

ReqType ==
  /\ req = [t \in Threads |-> req[t]]
  /\ \A t \in Threads :
       /\ IsReq(req[t])
       /\ req[t].op = "set" => req[t].items \in Seq(SetItems)
       /\ req[t].op \in {"get", "delete"} => req[t].items \in Seq(Names)

ReplyType ==
  /\ reply = [t \in Threads |-> reply[t]]
  /\ \A t \in Threads : reply[t].ok \in BOOLEAN

TypeInv == ProcType /\ DataType /\ PlaceType /\ SeenType /\ ReqType /\ ReplyType

\* The calls of the main thread that need a registry.
WithRegistry == {"setup", "load", "busInit", "register", "rbusInit"}

\* What each call of the main thread has left behind for the next.
ProgressInv ==
  /\ main = "setup" => registry = "fresh"
  /\ main = "load" => registry = "loading"
  /\ registry \in {"fresh", "loading"} => main \in {"setup", "load", "dead"}
  /\ main \in {"busInit", "register", "rbusInit"} => registry = "loaded"
  /\ main \in {"register", "rbusInit"} => busOpen
  /\ main = "rbusInit" => g_psmHealth = "Green"
  /\ main = "serve" => daemon
  /\ main = "console" => ~daemon
  /\ daemon /\ main \in {"post", "serve"} =>
       \/ registry = "null"
       \/ registry = "loaded" /\ bEngaged /\ busOpen /\ g_psmHealth = "Green"

\* When the buses may call a handler.
BusInv ==
  /\ main \in BeforeBus => ~busOpen /\ ~bEngaged
  /\ main \in {"post", "serve", "console"} => (busOpen <=> bEngaged)
  /\ busOpen /\ main \notin {"exiting", "dead"} => registry = "loaded"
  /\ main \in {"daemonize", "pidFile"} => engagements = 0
  /\ engagements = 0 => ~rbusOpen /\ ~busOpen /\ main \notin WithRegistry
  /\ engagements < 2 /\ main \in {"setup", "load", "busInit"} => ~rbusOpen

\* Where the handlers are, and which registry they work on.
HandlerInv ==
  /\ main = "dead" => pc = Asleep
  /\ engagements = 0 => pc = Asleep
  /\ engagements < 2 /\ main \in {"setup", "load", "busInit"} => pc = Asleep
  /\ main \notin {"exiting", "dead"} => \A t \in Dbus :
       /\ pc[t] # "idle" => busOpen
       /\ pc[t] \notin {"idle", "enter"} => seen[t].life = engagements

LifeInv == ProgressInv /\ BusInv /\ HandlerInv

-----------------------------------------------------------------------------

\* The first item of a list, and the list without it.
LEMMA SeqFacts ==
  \A S : \A s \in Seq(S) : s # <<>> => Head(s) \in S /\ Tail(s) \in Seq(S)
OBVIOUS

\* The order of the repository is an order of the names.
LEMMA OrderFacts == \A i \in DOMAIN Order : Order[i] \in Names
BY DEF Names, ToSet

\* Taking the next item keeps what a thread was asked.
LEMMA NextItemFacts ==
  \A t \in Threads : ReqType /\ NextItem(t) /\ Items(t) # <<>> => ReqType'
<1> SUFFICES ASSUME NEW t \in Threads, ReqType, NextItem(t), Items(t) # <<>> PROVE ReqType'
  OBVIOUS
<1>1. /\ req' = [u \in Threads |-> req'[u]]
      /\ \A u \in Threads : u # t => req'[u] = req[u]
      /\ req'[t] = [req[t] EXCEPT !.items = Tail(@)]
  BY DEF ReqType, NextItem
<1>2. req'[t] = [op |-> req[t].op, items |-> Tail(req[t].items), asked |-> req[t].asked]
  BY <1>1 DEF ReqType, IsReq
<1>3. IsReq(req'[t]) /\ req'[t].op = req[t].op /\ req'[t].items = Tail(req[t].items)
  BY <1>2 DEF IsReq
<1>4. /\ req[t].op = "set" => Tail(req[t].items) \in Seq(SetItems)
      /\ req[t].op \in {"get", "delete"} => Tail(req[t].items) \in Seq(Names)
  BY SeqFacts DEF ReqType, Items
<1> QED
  BY <1>1, <1>3, <1>4 DEF ReqType

\* What a bus passes on of a request is as well-formed as the request.
LEMMA PassedFacts ==
  \A t \in Threads, r \in Requests :
    /\ r.op = "set" => Passed(t, r) \in Seq(SetItems)
    /\ r.op \in {"get", "delete"} => Passed(t, r) \in Seq(Names)
<1> SUFFICES ASSUME NEW t \in Threads, NEW r \in Requests
             PROVE  /\ r.op = "set" => Passed(t, r) \in Seq(SetItems)
                    /\ r.op \in {"get", "delete"} => Passed(t, r) \in Seq(Names)
  OBVIOUS
<1>1. r.op = "set" => r.items \in Seq(SetItems) /\ Head(r.items) \in SetItems
  BY RequestAssumption, SeqFacts DEF SetItems
<1>2. r.op \in {"get", "delete"} => r.items \in Seq(Names)
  BY RequestAssumption
<1>3. \A x \in SetItems : <<x>> \in Seq(SetItems)
  OBVIOUS
<1> QED
  BY <1>1, <1>2, <1>3 DEF Passed

\* A reply that says whether it is one.
LEMMA ReplyFacts ==
  \A v : \A t \in Threads, ok \in BOOLEAN :
    ReplyType /\ reply' = [reply EXCEPT ![t] = [ok |-> ok, values |-> v]] => ReplyType'
BY DEF ReplyType

\* Forgetting which registry a thread worked on, or noting the present one.
LEMMA LifeType ==
  \A t \in Threads, n \in 0 .. engagements :
    SeenType /\ engagements' = engagements /\ seen' = [seen EXCEPT ![t].life = n] => SeenType'
BY DEF SeenType

\* No thread works on a registry before it has entered.
LEMMA LifeZero == ProcType => 0 \in 0 .. engagements
BY DEF ProcType

\* The history a request starts with.
LEMMA NotSeenType ==
  ProcType => NoRecords \in Repo /\ NoOwn \in Own
                /\ NotSeen \in [repo : Repo, own : Own, life : 0 .. engagements]
BY NameAssumption DEF ProcType, NoRecords, NoOwn, Repo, Own, NotSeen

\* The end of the process leaves every variable in its type.
LEMMA DieType ==
  TypeInv /\ Die /\ overReleased' \in BOOLEAN /\ stale' \in Threads \cup {NoThread} => TypeInv'
<1> SUFFICES ASSUME TypeInv, Die, overReleased' \in BOOLEAN,
                    stale' \in Threads \cup {NoThread}
             PROVE  TypeInv'
  OBVIOUS
<1> USE DEF TypeInv, Die, Goto
<1>1. ProcType'
  BY DEF ProcType
<1>2. DataType'
  BY NotSeenType DEF DataType, NoOwn
<1>3. PlaceType'
  BY DEF PlaceType, Asleep, Labels
<1>4. SeenType'
  BY NotSeenType DEF SeenType
<1>5. ReqType'
  BY DEF ReqType, IsReq, NoRequest
<1>6. ReplyType'
  BY DEF ReplyType, NoReply
<1> QED
  BY <1>1, <1>2, <1>3, <1>4, <1>5, <1>6

\* A step keeps every variable in its type.
LEMMA TypeStep == TypeInv /\ [Next]_vars => TypeInv'
<1> SUFFICES ASSUME TypeInv, [Next]_vars PROVE TypeInv'
  OBVIOUS
<1> USE NameAssumption, ThreadAssumption DEF TypeInv, BeforeBus
<1>1. CASE daemonize
  <2>1. ProcType'
    BY <1>1 DEF daemonize, Goto, ProcType, MayFail
  <2>2. DataType' /\ PlaceType' /\ SeenType' /\ ReqType' /\ ReplyType'
    BY <1>1 DEF daemonize, DataType, PlaceType, SeenType, ReqType, ReplyType, process,
      world, threads
  <2> QED
    BY <2>1, <2>2 DEF TypeInv
<1>2. CASE PidFile
  <2>1. ProcType'
    BY <1>2 DEF PidFile, Goto, ProcType, MayFail
  <2>2. DataType' /\ PlaceType' /\ SeenType' /\ ReqType' /\ ReplyType'
    BY <1>2 DEF PidFile, DataType, PlaceType, SeenType, ReqType, ReplyType, process, world,
      threads
  <2> QED
    BY <2>1, <2>2 DEF TypeInv
<1>3. CASE CreateSysRegistry
  <2>1. ProcType'
    <3>1. folder' \in BOOLEAN
      BY <1>3 DEF CreateSysRegistry, ProcType
    <3> QED
      BY <1>3, <3>1 DEF CreateSysRegistry, Goto, ProcType, MayFail
  <2>2. DataType'
    BY <1>3, NameAssumption DEF CreateSysRegistry, DataType, Repo, NoRecords
  <2>3. PlaceType'
    BY <1>3 DEF CreateSysRegistry, PlaceType, threads
  <2>4. SeenType'
    <3>1. seen' = seen /\ engagements \in Nat /\ engagements' \in {engagements, engagements + 1}
      BY <1>3 DEF CreateSysRegistry, ProcType, threads, MayFail
    <3> QED
      BY <3>1 DEF SeenType
  <2>5. ReqType' /\ ReplyType'
    BY <1>3 DEF CreateSysRegistry, ReqType, ReplyType, process, world, threads
  <2> QED
    BY <2>1, <2>2, <2>3, <2>4, <2>5 DEF TypeInv
<1>4. CASE SetupEnv
  <2>1. ProcType'
    <3>1. folder' \in BOOLEAN
      BY <1>4 DEF SetupEnv, ProcType
    <3> QED
      BY <1>4, <3>1 DEF SetupEnv, Goto, ProcType, MayFail
  <2>2. DataType' /\ PlaceType' /\ SeenType' /\ ReqType' /\ ReplyType'
    BY <1>4 DEF SetupEnv, DataType, PlaceType, SeenType, ReqType, ReplyType, process, world,
      threads
  <2> QED
    BY <2>1, <2>2 DEF TypeInv
<1>5. CASE LoadRecord
  <2>1. DataType'
    <3>1. PICK i \in DOMAIN Order : repo' = [repo EXCEPT ![Order[i]] = Initial[Order[i]]]
      BY <1>5 DEF LoadRecord
    <3>2. Order[i] \in Names /\ Initial \in Repo /\ repo \in Repo
      BY OrderFacts, NameAssumption DEF DataType
    <3>3. repo' \in Repo
      BY <3>1, <3>2, Zenon DEF Repo
    <3> QED
      BY <1>5, <3>3 DEF LoadRecord, DataType
  <2>2. ProcType' /\ PlaceType' /\ SeenType' /\ ReqType' /\ ReplyType'
    BY <1>5 DEF LoadRecord, ProcType, PlaceType, SeenType, ReqType, ReplyType, process,
      world, threads, MayFail
  <2> QED
    BY <2>1, <2>2 DEF TypeInv
<1>6. CASE LoadEnds
  <2>1. ProcType'
    BY <1>6 DEF LoadEnds, Goto, ProcType, MayFail
  <2>2. DataType' /\ PlaceType' /\ SeenType' /\ ReqType' /\ ReplyType'
    BY <1>6 DEF LoadEnds, DataType, PlaceType, SeenType, ReqType, ReplyType, process, world,
      threads
  <2> QED
    BY <2>1, <2>2 DEF TypeInv
<1>7. CASE PsmDbusInit
  <2>1. ProcType'
    BY <1>7 DEF PsmDbusInit, Goto, ProcType, MayFail
  <2>2. DataType' /\ PlaceType' /\ SeenType' /\ ReqType' /\ ReplyType'
    BY <1>7 DEF PsmDbusInit, DataType, PlaceType, SeenType, ReqType, ReplyType, process,
      world, threads
  <2> QED
    BY <2>1, <2>2 DEF TypeInv
<1>8. CASE registerCapabilities
  <2>1. ProcType'
    BY <1>8 DEF registerCapabilities, Goto, ProcType, MayFail
  <2>2. DataType' /\ PlaceType' /\ SeenType' /\ ReqType' /\ ReplyType'
    BY <1>8 DEF registerCapabilities, DataType, PlaceType, SeenType, ReqType, ReplyType,
      process, world, threads
  <2> QED
    BY <2>1, <2>2 DEF TypeInv
<1>9. CASE PsmRbusInit
  <2>1. ProcType'
    BY <1>9 DEF PsmRbusInit, Goto, ProcType, MayFail
  <2>2. DataType' /\ PlaceType' /\ SeenType' /\ ReqType' /\ ReplyType'
    BY <1>9 DEF PsmRbusInit, DataType, PlaceType, SeenType, ReqType, ReplyType, process,
      world, threads
  <2> QED
    BY <2>1, <2>2 DEF TypeInv
<1>10. CASE Post
  <2>1. ProcType'
    BY <1>10 DEF Post, Goto, ProcType, MayFail
  <2>2. DataType' /\ PlaceType' /\ SeenType' /\ ReqType' /\ ReplyType'
    BY <1>10 DEF Post, DataType, PlaceType, SeenType, ReqType, ReplyType, process, world,
      threads
  <2> QED
    BY <2>1, <2>2 DEF TypeInv
<1>11. CASE CommandEngage
  <2>1. ProcType'
    BY <1>11 DEF CommandEngage, Goto, ProcType, MayFail
  <2>2. DataType' /\ PlaceType' /\ SeenType' /\ ReqType' /\ ReplyType'
    BY <1>11 DEF CommandEngage, DataType, PlaceType, SeenType, ReqType, ReplyType, process,
      world, threads
  <2> QED
    BY <2>1, <2>2 DEF TypeInv
<1>12. CASE CommandCancel
  <2>1. ProcType'
    BY <1>12 DEF CommandCancel, ProcType, MayFail
  <2>2. DataType' /\ PlaceType' /\ SeenType' /\ ReqType' /\ ReplyType'
    BY <1>12 DEF CommandCancel, DataType, PlaceType, SeenType, ReqType, ReplyType, process,
      world, threads
  <2> QED
    BY <2>1, <2>2 DEF TypeInv
<1>13. CASE CommandQuit
  <2>1. ProcType'
    BY <1>13 DEF CommandQuit, CancelAndRemove, Goto, ProcType, MayFail
  <2>2. DataType' /\ PlaceType' /\ SeenType' /\ ReqType' /\ ReplyType'
    BY <1>13 DEF CommandQuit, DataType, PlaceType, SeenType, ReqType, ReplyType, process,
      world, threads, CancelAndRemove
  <2> QED
    BY <2>1, <2>2 DEF TypeInv
<1>14. CASE SigUsr2
  <2>1. ProcType'
    BY <1>14 DEF SigUsr2, CancelAndRemove, Goto, ProcType, MayFail
  <2>2. DataType' /\ PlaceType' /\ SeenType' /\ ReqType' /\ ReplyType'
    BY <1>14 DEF SigUsr2, DataType, PlaceType, SeenType, ReqType, ReplyType, process, world,
      threads, CancelAndRemove
  <2> QED
    BY <2>1, <2>2 DEF TypeInv
<1>15. CASE Exit
  BY <1>15, DieType DEF Exit, PlaceType
<1>16. ASSUME NEW t \in Threads, Receive(t) PROVE TypeInv'
  <2>1. PlaceType'
    BY <1>16 DEF Receive, At, Step, PlaceType, Labels
  <2>2. SeenType'
    BY <1>16, NotSeenType DEF Receive, SeenType, process
  <2>3. ReqType'
    <3>1. PICK r \in Requests :
            req' = [req EXCEPT ![t] = [op |-> r.op, items |-> Passed(t, r), asked |-> r]]
      BY <1>16 DEF Receive
    <3>2. /\ r.op = "set" => Passed(t, r) \in Seq(SetItems)
          /\ r.op \in {"get", "delete"} => Passed(t, r) \in Seq(Names)
      BY RequestAssumption, PassedFacts
    <3> QED
      BY <3>1, <3>2 DEF ReqType, IsReq
  <2>4. ReplyType'
    BY <1>16, ReplyFacts DEF Receive, NoReply
  <2>5. ProcType' /\ DataType'
    BY <1>16 DEF Receive, ProcType, DataType, process, world, threads
  <2> QED
    BY <2>1, <2>2, <2>3, <2>4, <2>5 DEF TypeInv
<1>17. ASSUME NEW t \in Threads, NotReady(t) PROVE TypeInv'
  <2>1. PlaceType'
    BY <1>17 DEF NotReady, Refuse, Answer, At, Step, NextItem, PlaceType, Labels
  <2>2. SeenType'
    <3>1. /\ UNCHANGED engagements
          /\ seen' = seen \/ seen' = [seen EXCEPT ![t].life = 0]
      BY <1>17 DEF NotReady, Refuse, Answer, process
    <3> QED
      BY <3>1, LifeType, LifeZero DEF SeenType
  <2>3. ReqType'
    BY <1>17, NextItemFacts DEF NotReady, Refuse, Answer, At, Step, NextItem, OneByOne,
      Items, ReqType
  <2>4. ReplyType'
    BY <1>17, ReplyFacts DEF NotReady, Refuse, Answer, At, Step, NextItem, ReplyType, OneByOne
  <2>5. ProcType' /\ DataType'
    BY <1>17 DEF NotReady, ProcType, DataType, process, world, threads
  <2> QED
    BY <2>1, <2>2, <2>3, <2>4, <2>5 DEF TypeInv
<1>18. ASSUME NEW t \in Threads, Enter(t) PROVE TypeInv'
  <2>1. PlaceType'
    BY <1>18 DEF Enter, Working, At, Step, PlaceType, Labels
  <2>2. SeenType'
    <3>1. engagements \in 0 .. engagements
      BY DEF ProcType
    <3> QED
      BY <1>18, <3>1, LifeType DEF Enter, process
  <2>3. ProcType' /\ DataType' /\ ReqType' /\ ReplyType'
    BY <1>18 DEF Enter, ProcType, DataType, ReqType, ReplyType, process, world, threads
  <2> QED
    BY <2>1, <2>2, <2>3 DEF TypeInv
<1>19. ASSUME NEW t \in Threads, UseRemoved(t) PROVE TypeInv'
  BY <1>19, DieType DEF UseRemoved, PlaceType
<1>20. ASSUME NEW t \in Threads, AcqThreadLock(t) PROVE TypeInv'
  <2>1. PlaceType'
    BY <1>20 DEF AcqThreadLock, Working, At, Step, Observe, PlaceType, Labels
  <2>2. SeenType'
    BY <1>20 DEF AcqThreadLock, Observe, SeenType, DataType, process
  <2>3. ProcType' /\ DataType' /\ ReqType' /\ ReplyType'
    BY <1>20 DEF AcqThreadLock, ProcType, DataType, ReqType, ReplyType, process, world,
      threads
  <2> QED
    BY <2>1, <2>2, <2>3 DEF TypeInv
<1>21. ASSUME NEW t \in Threads, OpenFolder(t) PROVE TypeInv'
  <2>1. PlaceType'
    BY <1>21 DEF OpenFolder, Refuse, Answer, Working, At, Step, NextItem, FreeOwnLock,
      PlaceType, Labels
  <2>2. SeenType'
    <3>1. /\ UNCHANGED engagements
          /\ seen' = seen \/ seen' = [seen EXCEPT ![t].life = 0]
      BY <1>21 DEF OpenFolder, Refuse, Answer, process
    <3> QED
      BY <3>1, LifeType, LifeZero DEF SeenType
  <2>3. ReqType'
    BY <1>21, NextItemFacts DEF OpenFolder, Refuse, Answer, Working, At, Step, NextItem,
      FreeOwnLock, OneByOne, Items, ReqType
  <2>4. ReplyType'
    BY <1>21, ReplyFacts DEF OpenFolder, Refuse, Answer, Working, At, Step, NextItem,
      FreeOwnLock, ReplyType, OneByOne
  <2>5. ProcType' /\ DataType'
    BY <1>21 DEF OpenFolder, ProcType, DataType, process, world, threads
  <2> QED
    BY <2>1, <2>2, <2>3, <2>4, <2>5 DEF TypeInv
<1>22. ASSUME NEW t \in Threads, GetItem(t) PROVE TypeInv'
  <2>1. ReqType'
    BY <1>22, NextItemFacts DEF GetItem, Item
  <2>2. ProcType' /\ DataType' /\ PlaceType' /\ SeenType' /\ ReplyType'
    BY <1>22 DEF GetItem, ProcType, DataType, PlaceType, SeenType, ReplyType, process,
      world, threads
  <2> QED
    BY <2>1, <2>2 DEF TypeInv
<1>23. ASSUME NEW t \in Threads, GetMissing(t) PROVE TypeInv'
  <2>1. PlaceType'
    BY <1>23 DEF GetMissing, Item, Working, At, FreeOwnLock, Step, PlaceType, Labels
  <2>2. ProcType' /\ DataType' /\ SeenType' /\ ReqType' /\ ReplyType'
    BY <1>23 DEF GetMissing, ProcType, DataType, SeenType, ReqType, ReplyType, process,
      world, threads
  <2> QED
    BY <2>1, <2>2 DEF TypeInv
<1>24. ASSUME NEW t \in Threads, ReleaseAgain(t) PROVE TypeInv'
  <2>1. PlaceType'
    BY <1>24 DEF ReleaseAgain, Working, At, Answer, Step, PlaceType, Labels
  <2>2. SeenType'
    BY <1>24, LifeType, LifeZero DEF ReleaseAgain, Answer, ProcType, process
  <2>3. ReplyType'
    BY <1>24, ReplyFacts DEF ReleaseAgain, Answer
  <2>4. ProcType' /\ DataType' /\ ReqType'
    BY <1>24 DEF ReleaseAgain, ProcType, DataType, ReqType, process, world, threads
  <2> QED
    BY <2>1, <2>2, <2>3, <2>4 DEF TypeInv
<1>25. ASSUME NEW t \in Threads, NullDereference(t) PROVE TypeInv'
  BY <1>25, DieType DEF NullDereference, PlaceType
<1>26. ASSUME NEW t \in Threads, SetItem(t) PROVE TypeInv'
  <2>1. DataType'
    <3>1. Head(Items(t)) \in SetItems
      BY <1>26, SeqFacts DEF SetItem, Item, Items, ReqType
    <3> QED
      BY <1>26, <3>1 DEF SetItem, SetItems, DataType, Repo, Own
  <2>2. ReqType'
    BY <1>26, NextItemFacts DEF SetItem, Item
  <2>3. ProcType' /\ PlaceType' /\ SeenType' /\ ReplyType'
    BY <1>26 DEF SetItem, ProcType, PlaceType, SeenType, ReplyType, process, world, threads
  <2> QED
    BY <2>1, <2>2, <2>3 DEF TypeInv
<1>27. ASSUME NEW t \in Threads, DeleteItem(t) PROVE TypeInv'
  <2>1. DataType'
    BY <1>27, SeqFacts, NameAssumption DEF DeleteItem, Item, Items, ReqType, DataType, Repo
  <2>2. PlaceType'
    BY <1>27 DEF DeleteItem, Item, Working, At, NextItem, Items, Step, PlaceType, Labels
  <2>3. ReqType'
    BY <1>27, NextItemFacts DEF DeleteItem, Item
  <2>4. ProcType' /\ SeenType' /\ ReplyType'
    BY <1>27 DEF DeleteItem, ProcType, SeenType, ReplyType, process, world, threads
  <2> QED
    BY <2>1, <2>2, <2>3, <2>4 DEF TypeInv
<1>28. ASSUME NEW t \in Threads, CountRecords(t) PROVE TypeInv'
  <2>1. ReqType'
    <3> DEFINE new == [k \in 1 .. Count(repo) |-> k]
    <3>1. req' = [req EXCEPT ![t] = [op |-> "enumerate", items |-> new, asked |-> req[t].asked]]
      BY <1>28 DEF CountRecords, ReqType, IsReq
    <3> HIDE DEF new
    <3> QED
      BY <3>1 DEF ReqType, IsReq
  <2>2. ProcType' /\ DataType' /\ PlaceType' /\ SeenType' /\ ReplyType'
    BY <1>28 DEF CountRecords, ProcType, DataType, PlaceType, SeenType, ReplyType, process,
      world, threads
  <2> QED
    BY <2>1, <2>2 DEF TypeInv
<1>29. ASSUME NEW t \in Threads, EnumRecord(t) PROVE TypeInv'
  <2>1. ReqType'
    BY <1>29, NextItemFacts DEF EnumRecord, Item
  <2>2. ProcType' /\ DataType' /\ PlaceType' /\ SeenType' /\ ReplyType'
    BY <1>29 DEF EnumRecord, ProcType, DataType, PlaceType, SeenType, ReplyType, process,
      world, threads
  <2> QED
    BY <2>1, <2>2 DEF TypeInv
<1>30. ASSUME NEW t \in Threads, RelThreadLock(t) PROVE TypeInv'
  <2>1. DataType'
    BY <1>30 DEF RelThreadLock, DataType
  <2>2. PlaceType'
    BY <1>30 DEF RelThreadLock, Working, At, Answer, Step, FreeOwnLock, PlaceType, Labels
  <2>3. SeenType'
    BY <1>30, LifeType, LifeZero DEF RelThreadLock, Answer, ProcType, process
  <2>4. ReplyType'
    BY <1>30, ReplyFacts DEF RelThreadLock, Answer, ReplyType
  <2>5. ProcType' /\ ReqType'
    BY <1>30 DEF RelThreadLock, ProcType, ReqType, process, world, threads
  <2> QED
    BY <2>1, <2>2, <2>3, <2>4, <2>5 DEF TypeInv
<1>31. ASSUME NEW t \in Threads, ReleaseOne(t) PROVE TypeInv'
  <2>1. DataType'
    BY <1>31 DEF ReleaseOne, DataType
  <2>2. PlaceType'
    BY <1>31 DEF ReleaseOne, Working, At, Answer, Step, FreeOwnLock, PlaceType, Labels
  <2>3. SeenType'
    <3>1. /\ UNCHANGED engagements
          /\ seen' = seen \/ seen' = [seen EXCEPT ![t].life = 0]
      BY <1>31 DEF ReleaseOne, Refuse, Answer, process
    <3> QED
      BY <3>1, LifeType, LifeZero DEF SeenType
  <2>4. ReplyType'
    BY <1>31, ReplyFacts DEF ReleaseOne, Answer, ReplyType
  <2>5. ProcType' /\ ReqType'
    BY <1>31 DEF ReleaseOne, ProcType, ReqType, process, world, threads
  <2> QED
    BY <2>1, <2>2, <2>3, <2>4, <2>5 DEF TypeInv
<1>32. CASE UNCHANGED vars
  BY <1>32 DEF vars, process, world, threads, TypeInv, ProcType, DataType, PlaceType,
    SeenType, ReqType, ReplyType
<1> QED
  BY <1>1, <1>2, <1>3, <1>4, <1>5, <1>6, <1>7, <1>8, <1>9, <1>10, <1>11, <1>12,
     <1>13, <1>14, <1>15, <1>16, <1>17, <1>18, <1>19, <1>20, <1>21, <1>22, <1>23, <1>24,
     <1>25, <1>26, <1>27, <1>28, <1>29, <1>30, <1>31, <1>32
  DEF Next, MainStep, HandlerStep

\* At first nothing is open and nobody works.
LEMMA TypeInit == Init => TypeInv
<1> SUFFICES ASSUME Init PROVE TypeInv
  OBVIOUS
<1>1. ProcType /\ engagements = 0
  BY DEF Init, ProcType, BeforeBus
<1>2. DataType
  BY <1>1, NotSeenType DEF Init, DataType
<1>3. PlaceType
  BY DEF Init, PlaceType, Asleep, Labels
<1>4. SeenType
  BY <1>1, NotSeenType DEF Init, SeenType
<1>5. ReqType
  BY DEF Init, ReqType, IsReq, NoRequest
<1>6. ReplyType
  BY DEF Init, ReplyType, NoReply
<1> QED
  BY <1>1, <1>2, <1>3, <1>4, <1>5, <1>6 DEF TypeInv

\* Every variable has its type in every reachable state.
THEOREM TypeCorrect == Spec => []TypeOK
<1>1. TypeInv => TypeOK
  BY DEF TypeInv, TypeOK, ProcType, DataType, PlaceType, SeenType, ReplyType, BeforeBus,
    Labels
<1> QED
  BY <1>1, TypeInit, TypeStep, PTL DEF Spec

-----------------------------------------------------------------------------

\* A step of a handler that has entered: it goes back to the start of a call, or
\* stays with the registry it has found.
Moves(t) ==
  /\ Alive /\ pc[t] # "idle" /\ UNCHANGED process
  /\ \A u \in Threads : u # t => pc'[u] = pc[u] /\ seen'[u].life = seen[u].life
  /\ \/ pc'[t] \in {"idle", "enter"}
     \/ pc[t] # "enter" /\ seen'[t].life = seen[t].life
     \/ seen'[t].life = engagements

\* Such a step keeps LifeInv.
LEMMA MovesKeeps == \A t \in Threads : TypeInv /\ LifeInv /\ Moves(t) => LifeInv'
<1> SUFFICES ASSUME NEW t \in Threads, TypeInv, LifeInv, Moves(t) PROVE LifeInv'
  OBVIOUS
<1>1. ProgressInv' /\ BusInv'
  BY DEF Moves, LifeInv, ProgressInv, BusInv, process
<1>2. pc # Asleep
  BY DEF Moves, Asleep
<1>3. main # "dead" /\ UNCHANGED <<main, engagements, busOpen>> /\ Dbus \subseteq Threads
  BY DEF Moves, Alive, process, Threads
<1> QED
  BY <1>1, <1>2, <1>3 DEF LifeInv, HandlerInv, Moves

\* So does the end of the process.
LEMMA DieKeeps == LifeInv /\ Die => LifeInv'
BY DEF LifeInv, ProgressInv, BusInv, HandlerInv, Die, Goto, BeforeBus, WithRegistry

\* Every step leaves what the next call of the main thread counts on.
LEMMA LifeStep == TypeInv /\ LifeInv /\ [Next]_vars => LifeInv'
<1> SUFFICES ASSUME TypeInv, LifeInv, [Next]_vars PROVE LifeInv'
  OBVIOUS
<1>1. CASE daemonize
  <2>1. pc' = pc /\ seen' = seen /\ engagements \in Nat
    BY <1>1 DEF daemonize, process, world, threads, TypeInv, ProcType
  <2> QED
    BY <1>1, <2>1 DEF daemonize, LifeInv, ProgressInv, BusInv, HandlerInv, BeforeBus,
      WithRegistry, MayFail, Goto
<1>2. CASE PidFile
  <2>1. pc' = pc /\ seen' = seen /\ engagements \in Nat
    BY <1>2 DEF PidFile, process, world, threads, TypeInv, ProcType
  <2> QED
    BY <1>2, <2>1 DEF PidFile, LifeInv, ProgressInv, BusInv, HandlerInv, BeforeBus,
      WithRegistry, MayFail, Goto
<1>3. CASE CreateSysRegistry
  <2>1. pc' = pc /\ seen' = seen /\ engagements \in Nat
    BY <1>3 DEF CreateSysRegistry, process, world, threads, TypeInv, ProcType
  <2> QED
    BY <1>3, <2>1 DEF CreateSysRegistry, LifeInv, ProgressInv, BusInv, HandlerInv,
      BeforeBus, WithRegistry, MayFail, Goto
<1>4. CASE SetupEnv
  <2>1. pc' = pc /\ seen' = seen /\ engagements \in Nat
    BY <1>4 DEF SetupEnv, process, world, threads, TypeInv, ProcType
  <2> QED
    BY <1>4, <2>1 DEF SetupEnv, LifeInv, ProgressInv, BusInv, HandlerInv, BeforeBus,
      WithRegistry, MayFail, Goto
<1>5. CASE LoadRecord
  <2>1. pc' = pc /\ seen' = seen /\ engagements \in Nat
    BY <1>5 DEF LoadRecord, process, world, threads, TypeInv, ProcType
  <2> QED
    BY <1>5, <2>1 DEF LoadRecord, LifeInv, ProgressInv, BusInv, HandlerInv, BeforeBus,
      WithRegistry, MayFail, process
<1>6. CASE LoadEnds
  <2>1. pc' = pc /\ seen' = seen /\ engagements \in Nat
    BY <1>6 DEF LoadEnds, process, world, threads, TypeInv, ProcType
  <2> QED
    BY <1>6, <2>1 DEF LoadEnds, LifeInv, ProgressInv, BusInv, HandlerInv, BeforeBus,
      WithRegistry, MayFail, Goto
<1>7. CASE PsmDbusInit
  <2>1. pc' = pc /\ seen' = seen /\ engagements \in Nat
    BY <1>7 DEF PsmDbusInit, process, world, threads, TypeInv, ProcType
  <2> QED
    BY <1>7, <2>1 DEF PsmDbusInit, LifeInv, ProgressInv, BusInv, HandlerInv, BeforeBus,
      WithRegistry, MayFail, Goto
<1>8. CASE registerCapabilities
  <2>1. pc' = pc /\ seen' = seen /\ engagements \in Nat
    BY <1>8 DEF registerCapabilities, process, world, threads, TypeInv, ProcType
  <2> QED
    BY <1>8, <2>1 DEF registerCapabilities, LifeInv, ProgressInv, BusInv, HandlerInv,
      BeforeBus, WithRegistry, MayFail, Goto
<1>9. CASE PsmRbusInit
  <2>1. pc' = pc /\ seen' = seen /\ engagements \in Nat
    BY <1>9 DEF PsmRbusInit, process, world, threads, TypeInv, ProcType
  <2> QED
    BY <1>9, <2>1 DEF PsmRbusInit, LifeInv, ProgressInv, BusInv, HandlerInv, BeforeBus,
      WithRegistry, MayFail, Goto
<1>10. CASE Post
  <2>1. pc' = pc /\ seen' = seen /\ engagements \in Nat
    BY <1>10 DEF Post, process, world, threads, TypeInv, ProcType
  <2> QED
    BY <1>10, <2>1 DEF Post, LifeInv, ProgressInv, BusInv, HandlerInv, BeforeBus,
      WithRegistry, MayFail, Goto
<1>11. CASE CommandEngage
  <2>1. pc' = pc /\ seen' = seen /\ engagements \in Nat
    BY <1>11 DEF CommandEngage, process, world, threads, TypeInv, ProcType
  <2> QED
    BY <1>11, <2>1 DEF CommandEngage, LifeInv, ProgressInv, BusInv, HandlerInv, BeforeBus,
      WithRegistry, MayFail, Goto
<1>12. CASE CommandCancel
  <2>1. pc' = pc /\ seen' = seen /\ engagements \in Nat
    BY <1>12 DEF CommandCancel, process, world, threads, TypeInv, ProcType
  <2> QED
    BY <1>12, <2>1 DEF CommandCancel, LifeInv, ProgressInv, BusInv, HandlerInv, BeforeBus,
      WithRegistry, MayFail
<1>13. CASE CommandQuit
  <2>1. pc' = pc /\ seen' = seen /\ engagements \in Nat
    BY <1>13 DEF CommandQuit, process, world, threads, TypeInv, ProcType, CancelAndRemove
  <2> QED
    BY <1>13, <2>1 DEF CommandQuit, LifeInv, ProgressInv, BusInv, HandlerInv, BeforeBus,
      WithRegistry, MayFail, CancelAndRemove, Goto
<1>14. CASE SigUsr2
  <2>1. pc' = pc /\ seen' = seen /\ engagements \in Nat
    BY <1>14 DEF SigUsr2, process, world, threads, TypeInv, ProcType, CancelAndRemove
  <2> QED
    BY <1>14, <2>1 DEF SigUsr2, LifeInv, ProgressInv, BusInv, HandlerInv, BeforeBus,
      WithRegistry, MayFail, CancelAndRemove, Goto
<1>15. CASE Exit
  BY <1>15, DieKeeps DEF Exit
<1>16. ASSUME NEW t \in Threads, Receive(t) PROVE LifeInv'
  <2>1. /\ pc[t] = "idle" /\ pc' = [pc EXCEPT ![t] = "enter"] /\ Alive /\ UNCHANGED process
        /\ IF t \in Dbus THEN busOpen ELSE rbusOpen
        /\ seen' = [seen EXCEPT ![t] = NotSeen]
    BY <1>16 DEF Receive, At, Step
  <2> QED
    BY <2>1 DEF LifeInv, ProgressInv, BusInv, HandlerInv, BeforeBus, WithRegistry, TypeInv,
      PlaceType, SeenType, Labels, process, Alive
<1>17. ASSUME NEW t \in Threads, NotReady(t) PROVE LifeInv'
  <2>1. Moves(t)
    BY <1>17 DEF NotReady, Refuse, Answer, At, Step, NextItem, Moves, TypeInv, PlaceType,
      SeenType, Labels
  <2> QED
    BY <2>1, MovesKeeps
<1>18. ASSUME NEW t \in Threads, Enter(t) PROVE LifeInv'
  <2>1. Moves(t)
    BY <1>18 DEF Enter, Working, At, Step, Moves, TypeInv, PlaceType, SeenType, Labels
  <2> QED
    BY <2>1, MovesKeeps
<1>19. ASSUME NEW t \in Threads, UseRemoved(t) PROVE LifeInv'
  BY <1>19, DieKeeps DEF UseRemoved
<1>20. ASSUME NEW t \in Threads, AcqThreadLock(t) PROVE LifeInv'
  <2>1. Moves(t)
    BY <1>20 DEF AcqThreadLock, Working, At, Step, Observe, Moves, TypeInv, PlaceType,
      SeenType, Labels
  <2> QED
    BY <2>1, MovesKeeps
<1>21. ASSUME NEW t \in Threads, OpenFolder(t) PROVE LifeInv'
  <2>1. Moves(t)
    BY <1>21 DEF OpenFolder, Refuse, Answer, Working, At, Step, NextItem, FreeOwnLock,
      Moves, TypeInv, PlaceType, SeenType, Labels
  <2> QED
    BY <2>1, MovesKeeps
<1>22. ASSUME NEW t \in Threads, GetItem(t) PROVE LifeInv'
  <2>1. Moves(t)
    BY <1>22 DEF GetItem, Item, Working, At, NextItem, Collect, Items, Moves, TypeInv,
      PlaceType, SeenType, Labels
  <2> QED
    BY <2>1, MovesKeeps
<1>23. ASSUME NEW t \in Threads, GetMissing(t) PROVE LifeInv'
  <2>1. Moves(t)
    BY <1>23 DEF GetMissing, Item, Working, At, FreeOwnLock, Step, Moves, TypeInv,
      PlaceType, SeenType, Labels
  <2> QED
    BY <2>1, MovesKeeps
<1>24. ASSUME NEW t \in Threads, ReleaseAgain(t) PROVE LifeInv'
  <2>1. Moves(t)
    BY <1>24 DEF ReleaseAgain, Working, At, Answer, Step, Moves, TypeInv, PlaceType,
      SeenType, Labels
  <2> QED
    BY <2>1, MovesKeeps
<1>25. ASSUME NEW t \in Threads, NullDereference(t) PROVE LifeInv'
  BY <1>25, DieKeeps DEF NullDereference, Working, At
<1>26. ASSUME NEW t \in Threads, SetItem(t) PROVE LifeInv'
  <2>1. Moves(t)
    BY <1>26 DEF SetItem, Item, Working, At, NextItem, Items, Moves, TypeInv, PlaceType,
      SeenType, Labels
  <2> QED
    BY <2>1, MovesKeeps
<1>27. ASSUME NEW t \in Threads, DeleteItem(t) PROVE LifeInv'
  <2>1. Moves(t)
    BY <1>27 DEF DeleteItem, Item, Working, At, NextItem, Items, Step, Moves, TypeInv,
      PlaceType, SeenType, Labels
  <2> QED
    BY <2>1, MovesKeeps
<1>28. ASSUME NEW t \in Threads, CountRecords(t) PROVE LifeInv'
  <2>1. Moves(t)
    BY <1>28 DEF CountRecords, Working, At, Moves, TypeInv, PlaceType, SeenType, Labels
  <2> QED
    BY <2>1, MovesKeeps
<1>29. ASSUME NEW t \in Threads, EnumRecord(t) PROVE LifeInv'
  <2>1. Moves(t)
    BY <1>29 DEF EnumRecord, Item, Working, At, NextItem, Collect, Items, Moves, TypeInv,
      PlaceType, SeenType, Labels
  <2> QED
    BY <2>1, MovesKeeps
<1>30. ASSUME NEW t \in Threads, RelThreadLock(t) PROVE LifeInv'
  <2>1. Moves(t)
    BY <1>30 DEF RelThreadLock, Working, At, Answer, Step, FreeOwnLock, Moves, TypeInv,
      PlaceType, SeenType, Labels
  <2> QED
    BY <2>1, MovesKeeps
<1>31. ASSUME NEW t \in Threads, ReleaseOne(t) PROVE LifeInv'
  <2>1. Moves(t)
    BY <1>31 DEF ReleaseOne, Working, At, Answer, Step, FreeOwnLock, Moves, TypeInv,
      PlaceType, SeenType, Labels
  <2> QED
    BY <2>1, MovesKeeps
<1>32. CASE UNCHANGED vars
  BY <1>32 DEF vars, process, world, threads, LifeInv, ProgressInv, BusInv, HandlerInv
<1> QED
  BY <1>1, <1>2, <1>3, <1>4, <1>5, <1>6, <1>7, <1>8, <1>9, <1>10, <1>11, <1>12,
     <1>13, <1>14, <1>15, <1>16, <1>17, <1>18, <1>19, <1>20, <1>21, <1>22, <1>23, <1>24,
     <1>25, <1>26, <1>27, <1>28, <1>29, <1>30, <1>31, <1>32
  DEF Next, MainStep, HandlerStep

\* Both invariants hold in every reachable state.
LEMMA LifeCorrect == Spec => [](TypeInv /\ LifeInv)
<1>1. ASSUME Init PROVE LifeInv
  <2>1. main \in {"daemonize", "pidFile"} /\ registry = "null" /\ pc = Asleep /\ engagements = 0
    BY <1>1 DEF Init
  <2>2. ~busOpen /\ ~rbusOpen /\ ~bEngaged
    BY <1>1 DEF Init
  <2>3. \A t \in Threads : Asleep[t] = "idle"
    BY DEF Asleep
  <2> QED
    BY <2>1, <2>2, <2>3 DEF LifeInv, ProgressInv, BusInv, HandlerInv, BeforeBus, WithRegistry,
      Threads
<1> QED
  BY <1>1, TypeInit, TypeStep, LifeStep, PTL DEF Spec

\* Whoever started PsmSsp gets its prompt back from a process that has its registry
\* loaded and registered with the bus, or has none at all.
THEOREM ReleasedWhenReadyCorrect == Spec => []ReleasedWhenReady
<1>1. LifeInv => ReleasedWhenReady
  BY DEF LifeInv, ProgressInv, ReleasedWhenReady
<1> QED
  BY <1>1, LifeCorrect, PTL

\* In its first life no handler works on a registry that is still being loaded.
THEOREM ServedAfterLoadCorrect == Spec => []ServedAfterLoad
<1>1. TypeInv /\ LifeInv => ServedAfterLoad
  <2> SUFFICES ASSUME TypeInv, LifeInv, engagements < 2, NEW t \in Threads, pc[t] = "item",
                      registry \in {"fresh", "loading"}
               PROVE  FALSE
    BY DEF ServedAfterLoad
  <2>1. main \in {"setup", "load", "dead"}
    BY DEF LifeInv, ProgressInv
  <2>2. pc = Asleep
    BY <2>1 DEF LifeInv, HandlerInv
  <2> QED
    BY <2>2 DEF Asleep
<1> QED
  BY <1>1, LifeCorrect, PTL

\* As long as the process is not ending, a dbus handler that has found a registry
\* works on one that is still there.
THEOREM UnloadStopsDbusCorrect == Spec => UnloadStopsDbus
<1>1. TypeInv /\ LifeInv /\ [Next]_vars =>
        [stale' \in Dbus /\ stale = NoThread => main = "exiting"]_vars
  <2> SUFFICES ASSUME TypeInv, LifeInv, Next, stale' \in Dbus, stale = NoThread,
                      main # "exiting"
               PROVE  FALSE
    OBVIOUS
  <2>1. stale' # stale /\ Dbus \subseteq Threads
    BY ThreadAssumption DEF Threads
  <2>2. PICK t \in Threads : UseRemoved(t)
    BY <2>1 DEF Next, MainStep, daemonize, PidFile, CreateSysRegistry, SetupEnv, LoadRecord,
      LoadEnds, PsmDbusInit, registerCapabilities, PsmRbusInit, Post, CommandEngage,
      CommandCancel, CommandQuit, SigUsr2, CancelAndRemove, Exit, Receive, HandlerStep,
      NotReady, Enter, AcqThreadLock, OpenFolder, GetItem, GetMissing, ReleaseAgain,
      NullDereference, SetItem, DeleteItem, CountRecords, EnumRecord, RelThreadLock,
      ReleaseOne, world
  <2>3. t \in Dbus /\ pc[t] # "idle" /\ Gone(t) /\ main \notin {"exiting", "dead"}
    BY <2>2 DEF UseRemoved, Alive
  <2>4. registry = "loaded" /\ (pc[t] # "enter" => seen[t].life = engagements)
    BY <2>3 DEF LifeInv, BusInv, HandlerInv
  <2> QED
    BY <2>3, <2>4 DEF Gone
<1> QED
  BY <1>1, LifeCorrect, PTL DEF Spec, UnloadStopsDbus

-----------------------------------------------------------------------------
(* Reads of several names.                                                 *)

Reading(t) == req[t].op \in {"get", "names", "enumerate"}
Inside     == {"open", "item", "one"}
Holds(t)   == pc[t] \in Inside /\ ~Gone(t)

\* The registry of the first engagement is there, or there has been none.
Intact  == engagements = 0 \/ registry \in {"fresh", "loading", "loaded"}
Current == applied.repo = repo /\ applied.own = own

\* What a thread keeps of its request while it waits, and after its answer.
AskedBy(t) ==
  /\ req[t].op = "get" => req[t].asked.items \in Seq(Names)
  /\ req[t].op = "get" /\ pc[t] \in {"enter", "wait", "open"} =>
       req[t].items = req[t].asked.items
  /\ pc[t] # "idle" => reply[t] = NoReply
  /\ req[t].op \in {"names", "enumerate"} =>
       req[t].asked \in Requests /\ req[t].asked.op = "names"
  /\ pc[t] \in {"enter", "wait", "open"} => req[t].op # "enumerate"
  /\ pc[t] \notin {"item", "failed"} \/ req[t].op \in {"delete", "names"} => got[t] = <<>>
  /\ pc[t] = "failed" => req[t].op = "get"
  /\ pc[t] = "one" => req[t].op = "delete"

AskedInv ==
  /\ got = [t \in Threads |-> got[t]]
  /\ \A t \in Threads : AskedBy(t)

\* ThreadLock is held by the thread that works on the records, and the records are
\* those between two requests unless it changes them.
GuardInv ==
  /\ \A t \in Threads : Holds(t) => lock = t
  /\ lock # NoThread => pc[lock] \in Inside
  /\ Intact /\ (lock # NoThread => pc[lock] = "open" \/ Reading(lock)) => Current

\* A thread that reads finds the records as they were when it took the lock.
SameFor(t) == Holds(t) /\ Reading(t) => seen[t].repo = repo /\ seen[t].own = own

\* What a reply to a read is made of.
Pairs == Names \X (Values \cup {NoRecord, NoValue})

\* How far a read has come: the first k names are answered, and the rest is left.
Half(left, values, k, names, s) ==
  /\ Len(left) = Len(names) - k /\ \A i \in 1 .. Len(left) : left[i] = names[k + i]
  /\ \A i \in 1 .. k : Lookup(names[i], s.repo, s.own) # NoRecord
  /\ values \in Seq(Pairs)
  /\ AnswersFirst(values, k, names, s)

HalfFor(t) ==
  pc[t] = "item" /\ req[t].op = "get" /\ ~Gone(t) =>
    \E k \in 0 .. Len(req[t].asked.items) :
      Half(req[t].items, got[t], k, req[t].asked.items, seen[t])

\* What SnapshotReads says of a reply.
IsAnswer(t, r, names, s) ==
  r.ok => \/ ~Missing(names, s) /\ Answers(r.values, names, s)
          \/ t \in Rbus /\ r.values = <<>>

SnapFor(t) ==
  pc[t] = "idle" /\ req[t].op = "get" => IsAnswer(t, reply[t], req[t].asked.items, seen[t])

ReadInv ==
  Steady => GuardInv /\ \A t \in Threads : SameFor(t) /\ HalfFor(t) /\ SnapFor(t)

\* Nothing is answered for no names.
LEMMA NothingAnswered ==
  \A names, s : AnswersFirst(<<>>, 0, names, s)
<1> SUFFICES ASSUME NEW names, NEW s PROVE AnswersFirst(<<>>, 0, names, s)
  OBVIOUS
<1> DEFINE at == [i \in 1 .. 0 |-> i]
<1>1. at \in [1 .. Len(<<>>) -> 1 .. 0] /\ DOMAIN at = {}
  OBVIOUS
<1>2. Range(at) = {i \in 1 .. 0 : Given(names[i], Lookup(names[i], s.repo, s.own))}
  BY <1>1 DEF Range
<1> QED
  BY <1>1, <1>2 DEF AnswersFirst

\* One more name adds its value, or nothing when it is not given.
LEMMA OneMoreAnswered ==
  ASSUME NEW names, NEW s, NEW k \in Nat, NEW values \in Seq(Pairs),
         AnswersFirst(values, k, names, s),
         NEW n, n = names[k + 1], NEW v, v = Lookup(n, s.repo, s.own), <<n, v>> \in Pairs
  PROVE  /\ Given(n, v) => AnswersFirst(Append(values, <<n, v>>), k + 1, names, s)
         /\ ~Given(n, v) => AnswersFirst(values, k + 1, names, s)
<1> DEFINE V(i) == Lookup(names[i], s.repo, s.own)
           G(i) == Given(names[i], V(i))
<1>1. PICK at \in [1 .. Len(values) -> 1 .. k] :
        /\ \A i, j \in DOMAIN at : i < j => at[i] < at[j]
        /\ Range(at) = {i \in 1 .. k : G(i)}
        /\ \A i \in DOMAIN at : values[i] = <<names[at[i]], V(at[i])>>
  BY DEF AnswersFirst
<1>2. Len(values) \in Nat /\ V(k + 1) = v /\ (G(k + 1) <=> Given(n, v))
  OBVIOUS
<1> HIDE DEF V, G
<1>3. ASSUME ~G(k + 1)
      PROVE  \E to \in [1 .. Len(values) -> 1 .. k + 1] :
               /\ \A i, j \in DOMAIN to : i < j => to[i] < to[j]
               /\ Range(to) = {i \in 1 .. k + 1 : G(i)}
               /\ \A i \in DOMAIN to : values[i] = <<names[to[i]], V(to[i])>>
  <2>1. at \in [1 .. Len(values) -> 1 .. k + 1]
    OBVIOUS
  <2>2. {i \in 1 .. k : G(i)} = {i \in 1 .. k + 1 : G(i)}
    BY <1>3
  <2> QED
    BY <1>1, <2>1, <2>2
<1>4. ASSUME G(k + 1)
      PROVE  \E to \in [1 .. Len(Append(values, <<n, v>>)) -> 1 .. k + 1] :
               /\ \A i, j \in DOMAIN to : i < j => to[i] < to[j]
               /\ Range(to) = {i \in 1 .. k + 1 : G(i)}
               /\ \A i \in DOMAIN to :
                    Append(values, <<n, v>>)[i] = <<names[to[i]], V(to[i])>>
  <2> DEFINE w == Append(values, <<n, v>>)
             to == [i \in 1 .. Len(values) + 1 |-> IF i <= Len(values) THEN at[i] ELSE k + 1]
  <2>1. Len(w) = Len(values) + 1 /\ w[Len(values) + 1] = <<n, v>>
        /\ \A i \in 1 .. Len(values) : w[i] = values[i]
    OBVIOUS
  <2> HIDE DEF w
  <2>2. /\ to \in [1 .. Len(values) + 1 -> 1 .. k + 1] /\ DOMAIN to = 1 .. Len(values) + 1
        /\ to[Len(values) + 1] = k + 1
        /\ \A i \in 1 .. Len(values) : to[i] = at[i] /\ at[i] \in 1 .. k
    BY <1>2
  <2>3. Range(to) = Range(at) \cup {k + 1}
    <3>1. \A i \in 1 .. Len(values) + 1 : i \in 1 .. Len(values) \/ i = Len(values) + 1
      BY <1>2
    <3> HIDE DEF to
    <3>2. ASSUME NEW x \in Range(to) PROVE x \in Range(at) \cup {k + 1}
      <4>1. PICK i \in 1 .. Len(values) + 1 : x = to[i]
        BY <2>2 DEF Range
      <4>2. i \in 1 .. Len(values) => x = at[i] /\ i \in DOMAIN at
        BY <2>2, <4>1
      <4> QED
        BY <2>2, <3>1, <4>1, <4>2 DEF Range
    <3>3. ASSUME NEW x \in Range(at) PROVE x \in Range(to)
      <4>1. PICK i \in 1 .. Len(values) : x = at[i]
        BY DEF Range
      <4>2. i \in DOMAIN to /\ x = to[i]
        BY <1>2, <2>2, <4>1
      <4> QED
        BY <4>2 DEF Range
    <3>4. k + 1 \in Range(to)
      BY <1>2, <2>2 DEF Range
    <3> QED
      BY <3>2, <3>3, <3>4
  <2> HIDE DEF to
  <2>4. {i \in 1 .. k + 1 : G(i)} = {i \in 1 .. k : G(i)} \cup {k + 1}
    BY <1>4
  <2>5. ASSUME NEW i \in DOMAIN to, NEW j \in DOMAIN to, i < j PROVE to[i] < to[j]
    <3>1. CASE j \in 1 .. Len(values)
      <4>1. i \in 1 .. Len(values)
        BY <1>2, <2>2, <2>5, <3>1
      <4> QED
        BY <1>1, <2>2, <2>5, <3>1, <4>1
    <3>2. CASE j = Len(values) + 1
      <4>1. i \in 1 .. Len(values)
        BY <1>2, <2>2, <2>5, <3>2
      <4>2. to[i] \in 1 .. k /\ to[j] = k + 1
        BY <2>2, <3>2, <4>1
      <4> QED
        BY <4>2
    <3> QED
      BY <1>2, <2>2, <3>1, <3>2
  <2>6. ASSUME NEW i \in DOMAIN to PROVE w[i] = <<names[to[i]], V(to[i])>>
    <3>1. CASE i \in 1 .. Len(values)
      BY <1>1, <2>1, <2>2, <3>1
    <3>2. CASE i = Len(values) + 1
      BY <1>2, <2>1, <2>2, <3>2
    <3> QED
      BY <1>2, <2>2, <3>1, <3>2
  <2>7. Range(to) = {i \in 1 .. k + 1 : G(i)}
    BY <1>1, <2>3, <2>4
  <2>8. to \in [1 .. Len(w) -> 1 .. k + 1]
    BY <2>1, <2>2
  <2> QED
    BY <2>5, <2>6, <2>7, <2>8 DEF w
<1> QED
  BY <1>2, <1>3, <1>4 DEF AnswersFirst, V, G

-----------------------------------------------------------------------------

\* A step of thread t: the other threads stay where they are.
StepOf(t) ==
  /\ Alive /\ UNCHANGED process
  /\ \A u \in Threads : u # t =>
       /\ pc'[u] = pc[u] /\ req'[u] = req[u] /\ got'[u] = got[u] /\ reply'[u] = reply[u]
       /\ seen'[u] = seen[u]

\* The threads are functions, so that a step changes what it says it does.
ThreadsAre ==
  /\ pc = [t \in Threads |-> pc[t]] /\ req = [t \in Threads |-> req[t]]
  /\ got = [t \in Threads |-> got[t]] /\ reply = [t \in Threads |-> reply[t]]
  /\ seen = [t \in Threads |-> seen[t]]
  /\ \A t \in Threads : IsReq(req[t])

\* That follows from the types.
LEMMA ThreadsAreFunctions == TypeInv /\ AskedInv => ThreadsAre
BY DEF TypeInv, AskedInv, ThreadsAre, PlaceType, SeenType, ReqType, ReplyType

\* The parts of a request when its next item is taken.
LEMMA NextItemParts ==
  ASSUME NEW t \in Threads, ThreadsAre, NextItem(t)
  PROVE  /\ req'[t].op = req[t].op /\ req'[t].asked = req[t].asked
         /\ req'[t].items = Tail(req[t].items)
         /\ \A u \in Threads : u # t => req'[u] = req[u]
<1>1. req'[t] = [req[t] EXCEPT !.items = Tail(@)] /\ \A u \in Threads : u # t => req'[u] = req[u]
  BY DEF ThreadsAre, NextItem
<1>2. req[t] = [op |-> req[t].op, items |-> req[t].items, asked |-> req[t].asked]
  BY DEF ThreadsAre, IsReq
<1>3. req'[t] = [op |-> req[t].op, items |-> Tail(req[t].items), asked |-> req[t].asked]
  BY <1>1, <1>2
<1> QED
  BY <1>1, <1>3

\* The end of a call.
LEMMA AnswerParts ==
  ASSUME NEW t \in Threads, NEW ok \in BOOLEAN, ThreadsAre, SeenType, Answer(t, ok)
  PROVE  /\ pc'[t] = "idle" /\ got'[t] = <<>>
         /\ reply'[t] = [ok     |-> ok \/ (t \in Rbus /\ req[t].op = "get"),
                         values |-> IF ok THEN got[t] ELSE <<>>]
         /\ seen'[t].repo = seen[t].repo /\ seen'[t].own = seen[t].own
         /\ \A u \in Threads : u # t =>
              pc'[u] = pc[u] /\ got'[u] = got[u] /\ reply'[u] = reply[u] /\ seen'[u] = seen[u]
<1>1. pc'[t] = "idle" /\ got'[t] = <<>> /\ seen'[t] = [seen[t] EXCEPT !.life = 0]
  BY DEF ThreadsAre, Answer, Step
<1>2. reply'[t] = [ok     |-> ok \/ (t \in Rbus /\ req[t].op = "get"),
                   values |-> IF ok THEN got[t] ELSE <<>>]
  BY DEF ThreadsAre, Answer
<1>3. seen'[t].repo = seen[t].repo /\ seen'[t].own = seen[t].own
  BY <1>1 DEF SeenType
<1>4. \A u \in Threads : u # t =>
        pc'[u] = pc[u] /\ got'[u] = got[u] /\ reply'[u] = reply[u] /\ seen'[u] = seen[u]
  BY DEF ThreadsAre, Answer, Step
<1> QED
  BY <1>1, <1>2, <1>3, <1>4

\* What a refused call leaves.
LEMMA RefuseParts ==
  ASSUME NEW t \in Threads, TypeInv, AskedInv, Refuse(t), pc[t] \in {"enter", "open"}
  PROVE  /\ pc'[t] \in {"idle", "enter"} /\ got'[t] = <<>> /\ req'[t].op = req[t].op
         /\ req'[t].asked = req[t].asked
         /\ pc'[t] = "enter" => req[t].op = "delete" /\ reply'[t] = reply[t]
         /\ pc'[t] = "idle" /\ req[t].op = "get" /\ reply'[t].ok =>
              t \in Rbus /\ reply'[t].values = <<>>
         /\ \A u \in Threads : u # t =>
              /\ pc'[u] = pc[u] /\ req'[u] = req[u] /\ got'[u] = got[u]
              /\ reply'[u] = reply[u] /\ seen'[u] = seen[u]
<1>1. ThreadsAre /\ SeenType /\ got[t] = <<>>
  BY ThreadsAreFunctions DEF AskedInv, AskedBy, TypeInv
<1>2. CASE OneByOne(t) /\ Len(Items(t)) > 1
  <2>1. NextItem(t) /\ Step(t, "enter") /\ UNCHANGED <<got, reply, seen>>
    BY <1>2 DEF Refuse
  <2>2. pc'[t] = "enter" /\ \A u \in Threads : u # t => pc'[u] = pc[u]
    BY <1>1, <2>1 DEF Step, ThreadsAre
  <2> QED
    BY <1>1, <1>2, <2>1, <2>2, NextItemParts DEF OneByOne
<1>3. CASE ~(OneByOne(t) /\ Len(Items(t)) > 1)
  <2>1. Answer(t, OneByOne(t)) /\ req' = req /\ OneByOne(t) \in BOOLEAN
    BY <1>3 DEF Refuse, OneByOne
  <2>2. req[t].op = "get" => ~OneByOne(t)
    BY DEF OneByOne
  <2>3. /\ pc'[t] = "idle" /\ got'[t] = <<>>
        /\ reply'[t] = [ok     |-> OneByOne(t) \/ (t \in Rbus /\ req[t].op = "get"),
                        values |-> IF OneByOne(t) THEN got[t] ELSE <<>>]
        /\ \A u \in Threads : u # t =>
             pc'[u] = pc[u] /\ got'[u] = got[u] /\ reply'[u] = reply[u] /\ seen'[u] = seen[u]
    BY <1>1, <2>1, AnswerParts
  <2>4. reply'[t].values = <<>>
    BY <1>1, <2>3
  <2>5. ASSUME req[t].op = "get", t \notin Rbus PROVE ~reply'[t].ok
    <3>1. (OneByOne(t) \/ (t \in Rbus /\ req[t].op = "get")) = FALSE
      BY <2>2, <2>5
    <3>2. reply'[t] = [ok |-> FALSE, values |-> IF OneByOne(t) THEN got[t] ELSE <<>>]
      BY ONLY <2>3, <3>1, Zenon
    <3> QED
      BY <3>2
  <2> QED
    BY <2>1, <2>3, <2>4, <2>5
<1> QED
  BY <1>2, <1>3

\* A request that arrives.
LEMMA ReceiveParts ==
  ASSUME NEW t \in Threads, TypeInv, AskedInv, Receive(t)
  PROVE  /\ pc'[t] = "enter" /\ got'[t] = <<>> /\ reply'[t] = NoReply
         /\ req'[t].op \in {"get", "set", "delete", "names"}
         /\ req'[t].asked \in Requests /\ req'[t].asked.op = req'[t].op
         /\ req'[t].op = "get" =>
              req'[t].asked.items \in Seq(Names) /\ req'[t].items = req'[t].asked.items
         /\ \A u \in Threads : u # t =>
              /\ pc'[u] = pc[u] /\ req'[u] = req[u] /\ got'[u] = got[u]
              /\ reply'[u] = reply[u] /\ seen'[u] = seen[u]
<1>1. ThreadsAre /\ got[t] = <<>>
  BY ThreadsAreFunctions DEF AskedInv, AskedBy, Receive, At
<1>2. PICK r \in Requests :
        req' = [req EXCEPT ![t] = [op |-> r.op, items |-> Passed(t, r), asked |-> r]]
  BY DEF Receive
<1>3. /\ req'[t].op = r.op /\ req'[t].items = Passed(t, r) /\ req'[t].asked = r
      /\ \A u \in Threads : u # t => req'[u] = req[u]
  BY <1>1, <1>2 DEF ThreadsAre
<1>4. /\ r.op \in {"get", "set", "delete", "names"}
      /\ r.op = "get" => r.items \in Seq(Names) /\ Passed(t, r) = r.items
  BY RequestAssumption DEF Passed
<1> QED
  BY <1>1, <1>3, <1>4 DEF Receive, Step, ThreadsAre

-----------------------------------------------------------------------------

\* What another thread keeps does not depend on a step of t.
LEMMA AskedOfOthers ==
  ASSUME NEW t \in Threads, AskedInv,
         \A u \in Threads : u # t =>
           pc'[u] = pc[u] /\ req'[u] = req[u] /\ got'[u] = got[u] /\ reply'[u] = reply[u],
         got' = [u \in Threads |-> got'[u]], AskedBy(t)'
  PROVE  AskedInv'
BY DEF AskedInv, AskedBy

\* A thread's answer leaves nothing of what it was asked to do.
LEMMA AskedAnswered ==
  ASSUME NEW t \in Threads, NEW ok \in BOOLEAN, TypeInv, AskedInv, Answer(t, ok), req' = req
  PROVE  AskedInv'
<1>1. ThreadsAre /\ SeenType /\ AskedBy(t)
  BY ThreadsAreFunctions DEF TypeInv, AskedInv
<1>2. /\ pc'[t] = "idle" /\ got'[t] = <<>>
      /\ \A u \in Threads : u # t => pc'[u] = pc[u] /\ got'[u] = got[u] /\ reply'[u] = reply[u]
  BY <1>1, AnswerParts
<1>3. got' = [u \in Threads |-> got'[u]]
  BY <1>1 DEF ThreadsAre, Answer
<1>4. AskedBy(t)'
  BY <1>1, <1>2 DEF AskedBy
<1> QED
  BY <1>2, <1>3, <1>4, AskedOfOthers

\* Nor does a refusal, except for a deletion that goes on.
LEMMA AskedRefused ==
  ASSUME NEW t \in Threads, TypeInv, AskedInv, Refuse(t), pc[t] \in {"enter", "open"}
  PROVE  AskedInv'
<1>1. CASE OneByOne(t) /\ Len(Items(t)) > 1
  <2>1. NextItem(t) /\ Step(t, "enter") /\ UNCHANGED <<got, reply, seen>> /\ req[t].op = "delete"
    BY <1>1 DEF Refuse, OneByOne
  <2>2. ThreadsAre /\ AskedBy(t) /\ got = [u \in Threads |-> got[u]]
    BY ThreadsAreFunctions DEF AskedInv
  <2>3. pc'[t] = "enter" /\ \A u \in Threads : u # t => pc'[u] = pc[u]
    BY <2>1, <2>2 DEF Step, ThreadsAre
  <2>4. req'[t].op = "delete" /\ \A u \in Threads : u # t => req'[u] = req[u]
    BY <2>1, <2>2, NextItemParts
  <2>5. AskedBy(t)'
    BY <2>1, <2>2, <2>3, <2>4 DEF AskedBy
  <2> QED
    BY <2>1, <2>2, <2>3, <2>4, <2>5, AskedOfOthers
<1>2. CASE ~(OneByOne(t) /\ Len(Items(t)) > 1)
  <2>1. Answer(t, OneByOne(t)) /\ req' = req /\ OneByOne(t) \in BOOLEAN
    BY <1>2 DEF Refuse, OneByOne
  <2> QED
    BY <2>1, AskedAnswered
<1> QED
  BY <1>1, <1>2

\* The end of the process leaves no request.
LEMMA AskedAtEnd == ASSUME Die PROVE AskedInv'
BY DEF Die, AskedInv, AskedBy, Asleep, NoRequest, NoReply

\* A step keeps what a thread knows of its request.
LEMMA AskedStep == TypeInv /\ AskedInv /\ [Next]_vars => AskedInv'
<1> SUFFICES ASSUME TypeInv, AskedInv, [Next]_vars PROVE AskedInv'
  OBVIOUS
<1>0. ThreadsAre
  BY ThreadsAreFunctions
<1>1. CASE UNCHANGED <<pc, req, got, reply>>
  BY <1>1 DEF AskedInv, AskedBy
<1>2. CASE MainStep \/ CommandEngage \/ CommandCancel \/ CommandQuit \/ SigUsr2
           \/ UNCHANGED vars
  BY <1>1, <1>2 DEF MainStep, daemonize, PidFile, CreateSysRegistry, SetupEnv, LoadRecord,
    LoadEnds, PsmDbusInit, registerCapabilities, PsmRbusInit, Post, CommandEngage,
    CommandCancel, CommandQuit, SigUsr2, CancelAndRemove, vars, world, threads
<1>3. CASE Exit
  BY <1>3, AskedAtEnd DEF Exit
<1>4. ASSUME NEW t \in Threads, Receive(t) PROVE AskedInv'
  <2>1. /\ pc'[t] = "enter" /\ got'[t] = <<>> /\ reply'[t] = NoReply
        /\ req'[t].op \in {"get", "set", "delete", "names"}
        /\ req'[t].asked \in Requests /\ req'[t].asked.op = req'[t].op
        /\ req'[t].op = "get" =>
             req'[t].asked.items \in Seq(Names) /\ req'[t].items = req'[t].asked.items
        /\ \A u \in Threads : u # t =>
             /\ pc'[u] = pc[u] /\ req'[u] = req[u] /\ got'[u] = got[u] /\ reply'[u] = reply[u]
    BY <1>4, ReceiveParts
  <2>2. got' = [u \in Threads |-> got'[u]]
    BY <1>0, <1>4 DEF Receive, ThreadsAre
  <2>3. AskedBy(t)'
    BY <2>1 DEF AskedBy
  <2> QED
    BY <2>1, <2>2, <2>3, AskedOfOthers
<1>5. ASSUME NEW t \in Threads, HandlerStep(t) PROVE AskedInv'
  <2>0. AskedBy(t) /\ got = [u \in Threads |-> got[u]]
    BY DEF AskedInv
  <2>1. CASE NotReady(t)
    <3>1. CASE Refuse(t)
      BY <2>1, <3>1, AskedRefused DEF NotReady, At
    <3>2. CASE ~Refuse(t)
      <4>1. Step(t, "idle") /\ UNCHANGED <<req, got, reply>> /\ pc[t] = "enter"
        BY <2>1, <3>2 DEF NotReady, At
      <4>2. pc'[t] = "idle" /\ \A u \in Threads : u # t => pc'[u] = pc[u]
        BY <1>0, <4>1 DEF Step, ThreadsAre
      <4>3. AskedBy(t)'
        BY <2>0, <4>1, <4>2 DEF AskedBy
      <4> QED
        BY <2>0, <4>1, <4>2, <4>3, AskedOfOthers
    <3> QED
      BY <3>1, <3>2
  <2>2. CASE Enter(t)
    <3>1. pc'[t] = "wait" /\ pc[t] = "enter" /\ UNCHANGED <<req, got, reply>>
          /\ \A u \in Threads : u # t => pc'[u] = pc[u]
      BY <1>0, <2>2 DEF Enter, Working, At, Step, ThreadsAre
    <3>2. AskedBy(t)'
      BY <2>0, <3>1 DEF AskedBy
    <3> QED
      BY <2>0, <3>1, <3>2, AskedOfOthers
  <2>3. CASE UseRemoved(t) \/ NullDereference(t)
    BY <2>3, AskedAtEnd DEF UseRemoved, NullDereference
  <2>4. CASE AcqThreadLock(t)
    <3>1. pc'[t] = "open" /\ pc[t] = "wait" /\ UNCHANGED <<req, got, reply>>
          /\ \A u \in Threads : u # t => pc'[u] = pc[u]
      BY <1>0, <2>4 DEF AcqThreadLock, Working, At, Step, ThreadsAre
    <3>2. AskedBy(t)'
      BY <2>0, <3>1 DEF AskedBy
    <3> QED
      BY <2>0, <3>1, <3>2, AskedOfOthers
  <2>5. CASE OpenFolder(t)
    <3>1. CASE folder
      <4>1. pc'[t] = "item" /\ pc[t] = "open" /\ UNCHANGED <<req, got, reply>>
            /\ \A u \in Threads : u # t => pc'[u] = pc[u]
        BY <1>0, <2>5, <3>1 DEF OpenFolder, Working, At, Step, ThreadsAre
      <4>2. AskedBy(t)'
        BY <2>0, <4>1 DEF AskedBy
      <4> QED
        BY <2>0, <4>1, <4>2, AskedOfOthers
    <3>2. CASE ~folder
      BY <2>5, <3>2, AskedRefused DEF OpenFolder, Working, At
    <3> QED
      BY <3>1, <3>2
  <2>6. CASE GetItem(t) \/ EnumRecord(t)
    <3>1. pc[t] = "item" /\ req[t].op \in {"get", "enumerate"} /\ pc' = pc /\ reply' = reply
          /\ NextItem(t)
      BY <2>6 DEF GetItem, EnumRecord, Item, Working, At
    <3>2. /\ got' = [u \in Threads |-> got'[u]]
          /\ \A u \in Threads : u # t => got'[u] = got[u]
      <4>1. \A x : Collect(t, x) =>
              /\ got' = [u \in Threads |-> got'[u]]
              /\ \A u \in Threads : u # t => got'[u] = got[u]
        BY <2>0 DEF Collect
      <4> HIDE DEF Collect
      <4>2. got' = got \/ \E x : Collect(t, x)
        BY <2>6 DEF GetItem, EnumRecord
      <4> QED
        BY <2>0, <4>1, <4>2
    <3>3. /\ req'[t].op = req[t].op /\ req'[t].asked = req[t].asked
          /\ \A u \in Threads : u # t => req'[u] = req[u]
      BY <1>0, <3>1, NextItemParts
    <3>4. AskedBy(t)'
      BY <2>0, <3>1, <3>2, <3>3 DEF AskedBy
    <3> QED
      BY <3>1, <3>2, <3>3, <3>4, AskedOfOthers
  <2>7. CASE GetMissing(t)
    <3>1. /\ pc'[t] = "failed" /\ pc[t] = "item" /\ req[t].op = "get"
          /\ UNCHANGED <<req, got, reply>> /\ \A u \in Threads : u # t => pc'[u] = pc[u]
      BY <1>0, <2>7 DEF GetMissing, Item, Working, At, Step, ThreadsAre
    <3>2. AskedBy(t)'
      BY <2>0, <3>1 DEF AskedBy
    <3> QED
      BY <2>0, <3>1, <3>2, AskedOfOthers
  <2>8. CASE ReleaseAgain(t)
    BY <2>8, AskedAnswered DEF ReleaseAgain
  <2>9. CASE SetItem(t)
    <3>1. pc[t] = "item" /\ req[t].op = "set" /\ UNCHANGED <<pc, got, reply>> /\ NextItem(t)
      BY <2>9 DEF SetItem, Item, Working, At
    <3>2. /\ req'[t].op = "set" /\ \A u \in Threads : u # t => req'[u] = req[u]
      BY <1>0, <3>1, NextItemParts
    <3>3. AskedBy(t)'
      BY <2>0, <3>1, <3>2 DEF AskedBy
    <3> QED
      BY <2>0, <3>1, <3>2, <3>3, AskedOfOthers
  <2>10. CASE DeleteItem(t)
    <3>1. pc[t] = "item" /\ req[t].op = "delete" /\ UNCHANGED <<got, reply>> /\ NextItem(t)
          /\ pc'[t] \in {"item", "one"} /\ \A u \in Threads : u # t => pc'[u] = pc[u]
      BY <1>0, <2>10 DEF DeleteItem, Item, Working, At, Step, ThreadsAre
    <3>2. /\ req'[t].op = "delete" /\ \A u \in Threads : u # t => req'[u] = req[u]
      BY <1>0, <3>1, NextItemParts
    <3>3. AskedBy(t)'
      BY <2>0, <3>1, <3>2 DEF AskedBy
    <3> QED
      BY <2>0, <3>1, <3>2, <3>3, AskedOfOthers
  <2>11. CASE CountRecords(t)
    <3>1. pc[t] = "item" /\ UNCHANGED <<pc, got, reply>>
      BY <2>11 DEF CountRecords, Working, At
    <3>2. /\ req'[t].op = "enumerate" /\ req'[t].asked = req[t].asked /\ req[t].op = "names"
          /\ \A u \in Threads : u # t => req'[u] = req[u]
      BY <1>0, <2>11 DEF CountRecords, ThreadsAre
    <3>3. AskedBy(t)'
      BY <2>0, <3>1, <3>2 DEF AskedBy
    <3> QED
      BY <2>0, <3>1, <3>2, <3>3, AskedOfOthers
  <2>12. CASE RelThreadLock(t)
    BY <2>12, AskedAnswered DEF RelThreadLock
  <2>13. CASE ReleaseOne(t)
    <3>1. CASE Items(t) = <<>>
      BY <2>13, <3>1, AskedAnswered DEF ReleaseOne
    <3>2. CASE Items(t) # <<>>
      <4>1. pc'[t] = "enter" /\ pc[t] = "one" /\ UNCHANGED <<req, got, reply>>
            /\ \A u \in Threads : u # t => pc'[u] = pc[u]
        BY <1>0, <2>13, <3>2 DEF ReleaseOne, Working, At, Step, ThreadsAre
      <4>2. AskedBy(t)'
        BY <2>0, <4>1 DEF AskedBy
      <4> QED
        BY <2>0, <4>1, <4>2, AskedOfOthers
    <3> QED
      BY <3>1, <3>2
  <2> QED
    BY <1>5, <2>1, <2>2, <2>3, <2>4, <2>5, <2>6, <2>7, <2>8, <2>9, <2>10, <2>11, <2>12, <2>13
    DEF HandlerStep
<1> QED
  BY <1>2, <1>3, <1>4, <1>5 DEF Next

-----------------------------------------------------------------------------

\* A lock is kept, taken when free, or released by its owner.
LockMove(t) ==
  \/ lock' = lock \/ (lock = t /\ lock' = NoThread) \/ (lock = NoThread /\ lock' = t)

\* A step of thread t that works on the records as ThreadLock allows.
Guarded(t) ==
  /\ StepOf(t) /\ LockMove(t)
  /\ lock' = t => pc'[t] \in Inside
  /\ Holds(t)' => lock' = t
  /\ \/ repo' = repo /\ own' = own
     \/ Holds(t) /\ lock' = t /\ ~Reading(t)' /\ pc'[t] # "open"
  /\ \/ applied' = [repo |-> repo', own |-> own']
     \/ applied' = applied /\ (lock = t => pc[t] = "open" \/ Reading(t))
     \/ applied' = applied /\ lock' = t /\ ~Reading(t)' /\ pc'[t] # "open"
  /\ Holds(t)' /\ Reading(t)' =>
       \/ Holds(t) /\ Reading(t) /\ seen'[t].repo = seen[t].repo /\ seen'[t].own = seen[t].own
       \/ lock = NoThread /\ seen'[t].repo = applied.repo /\ seen'[t].own = applied.own

\* Such a step keeps ThreadLock with the thread that works on the records, and what
\* every reader has seen.
LEMMA GuardedKeeps ==
  ASSUME NEW t \in Threads, TypeInv,
         GuardInv, \A u \in Threads : SameFor(u), Guarded(t)
  PROVE  GuardInv' /\ \A u \in Threads : SameFor(u)'
<1>1. \A u \in Threads : u # t =>
        pc'[u] = pc[u] /\ req'[u] = req[u] /\ seen'[u] = seen[u]
  BY DEF Guarded, StepOf
<1>2. \A u \in Threads : u # t => (Holds(u)' <=> Holds(u)) /\ (Reading(u)' <=> Reading(u))
  BY <1>1 DEF Guarded, StepOf, Holds, Gone, Reading, process
<1>3. Intact' <=> Intact
  BY DEF Guarded, StepOf, Intact, process
<1>4. NoThread \notin Threads /\ lock \in Threads \cup {NoThread}
  BY ThreadAssumption DEF TypeInv, PlaceType
<1>5. \A u \in Threads : Holds(u)' => lock' = u
  BY <1>2, <1>4 DEF Guarded, LockMove, GuardInv
<1>6. lock' # NoThread => pc'[lock'] \in Inside
  BY <1>1, <1>4 DEF Guarded, LockMove, GuardInv
<1>7. ASSUME Intact', lock' # NoThread => pc'[lock'] = "open" \/ Reading(lock)'
      PROVE  Current'
  <2>1. lock' = t => pc'[t] = "open" \/ Reading(t)'
    BY <1>4, <1>7
  <2>2. repo' = repo /\ own' = own
    BY <2>1 DEF Guarded
  <2>3. CASE applied' = [repo |-> repo', own |-> own']
    BY <2>3 DEF Current
  <2>4. CASE applied' = applied /\ (lock = t => pc[t] = "open" \/ Reading(t))
    <3>1. lock # NoThread => pc[lock] = "open" \/ Reading(lock)
      <4>1. CASE lock = t
        BY <2>4, <4>1
      <4>2. CASE lock # t /\ lock # NoThread
        <5>1. lock' = lock /\ lock \in Threads
          BY <1>4, <4>2 DEF Guarded, LockMove
        <5>2. pc'[lock] = "open" \/ Reading(lock)'
          BY <1>7, <4>2, <5>1
        <5> QED
          BY <1>1, <1>2, <4>2, <5>1, <5>2
      <4> QED
        BY <4>1, <4>2
    <3> QED
      BY <1>3, <1>7, <2>2, <2>4, <3>1 DEF GuardInv, Current
  <2> QED
    BY <2>1, <2>3, <2>4 DEF Guarded
<1>8. ASSUME NEW u \in Threads, Holds(u)', Reading(u)'
      PROVE  seen'[u].repo = repo' /\ seen'[u].own = own'
  <2>1. CASE u = t
    <3>1. repo' = repo /\ own' = own
      BY <1>8, <2>1 DEF Guarded
    <3>2. CASE lock = NoThread
      <4>1. registry # "removed" /\ registry # "null"
        BY <1>8 DEF Holds, Gone, Inside, Guarded, StepOf, process
      <4>2. Intact
        BY <4>1 DEF Intact, TypeInv, ProcType
      <4>3. Current /\ ~Holds(t)
        BY <1>4, <3>2, <4>2 DEF GuardInv
      <4> QED
        BY <1>8, <2>1, <3>1, <4>3 DEF Guarded, Current
    <3>3. CASE lock # NoThread
      BY <1>8, <2>1, <3>1, <3>3 DEF Guarded, SameFor
    <3> QED
      BY <3>2, <3>3
  <2>2. CASE u # t
    <3>1. Holds(u) /\ Reading(u) /\ lock = u
      BY <1>2, <1>8, <2>2 DEF GuardInv
    <3>2. ~Holds(t)
      BY <2>2, <3>1 DEF GuardInv
    <3> QED
      BY <1>1, <2>2, <3>1, <3>2 DEF Guarded, SameFor
  <2> QED
    BY <2>1, <2>2
<1> QED
  BY <1>5, <1>6, <1>7, <1>8 DEF GuardInv, SameFor

\* A step in which the other threads stay leaves their answers alone.
LEMMA OthersKeepAnswers ==
  ASSUME NEW t \in Threads, StepOf(t), \A u \in Threads : HalfFor(u) /\ SnapFor(u),
         HalfFor(t)', SnapFor(t)'
  PROVE  \A u \in Threads : HalfFor(u)' /\ SnapFor(u)'
<1> SUFFICES ASSUME NEW u \in Threads, u # t PROVE HalfFor(u)' /\ SnapFor(u)'
  OBVIOUS
<1>1. /\ pc'[u] = pc[u] /\ req'[u] = req[u] /\ got'[u] = got[u] /\ reply'[u] = reply[u]
      /\ seen'[u] = seen[u] /\ HalfFor(u) /\ SnapFor(u) /\ (Gone(u)' <=> Gone(u))
  BY DEF StepOf, Gone, process
<1>2. HalfFor(u)'
  BY <1>1 DEF HalfFor
<1>3. SnapFor(u)'
  BY <1>1 DEF SnapFor
<1> QED
  BY <1>2, <1>3

-----------------------------------------------------------------------------

\* The main thread leaves the records alone, and the registry it may replace is one
\* that it has only just created.
Aside ==
  /\ UNCHANGED <<world, engagements>>
  /\ \/ registry' = registry \/ registry' = "removed"
     \/ registry \in {"fresh", "loading"} /\ registry' \in {"loading", "loaded"}

\* Such a step disturbs no read.
LEMMA AsideKeeps == ReadInv /\ Aside => ReadInv'
<1> SUFFICES ASSUME ReadInv, Aside, Steady' PROVE ReadInv'
  BY DEF ReadInv
<1>1. /\ Steady /\ UNCHANGED <<repo, own, lock, applied, pc, req, got, reply, seen>>
      /\ engagements' = engagements
  BY DEF Aside, Steady, world, threads
<1>2. \A u \in Threads : Gone(u) => Gone(u)'
  BY <1>1 DEF Aside, Gone
<1>3. Intact' => Intact
  BY <1>1 DEF Aside, Intact
<1>4. \A u \in Threads : (Holds(u)' => Holds(u)) /\ (Reading(u)' <=> Reading(u))
  BY <1>1, <1>2 DEF Holds, Reading
<1>5. GuardInv'
  <2>1. \A u \in Threads : Holds(u)' => lock' = u
    BY <1>1, <1>4 DEF ReadInv, GuardInv
  <2>2. lock' # NoThread => pc'[lock'] \in Inside
    BY <1>1 DEF ReadInv, GuardInv
  <2>3. Reading(lock)' <=> Reading(lock)
    BY <1>1 DEF Reading
  <2>4. Intact' /\ (lock' # NoThread => pc'[lock'] = "open" \/ Reading(lock)') => Current'
    BY <1>1, <1>3, <2>3 DEF ReadInv, GuardInv, Current
  <2> QED
    BY <2>1, <2>2, <2>4 DEF GuardInv
<1>6. ASSUME NEW u \in Threads PROVE SameFor(u)' /\ HalfFor(u)' /\ SnapFor(u)'
  <2>1. SameFor(u) /\ HalfFor(u) /\ SnapFor(u)
    BY <1>1 DEF ReadInv
  <2>2. SameFor(u)'
    BY <1>1, <1>4, <2>1 DEF SameFor
  <2>3. HalfFor(u)'
    BY <1>1, <1>2, <2>1 DEF HalfFor
  <2>4. SnapFor(u)'
    BY <1>1, <2>1 DEF SnapFor
  <2> QED
    BY <2>2, <2>3, <2>4
<1> QED
  BY <1>5, <1>6 DEF ReadInv

\* While no thread is busy, the records may change behind ThreadLock.
Replaced ==
  /\ pc = Asleep /\ UNCHANGED <<own, threads>> /\ lock' \in {lock, NoThread}
  /\ applied' = [applied EXCEPT !.repo = repo']

\* Nor does such a change, for there is nobody to see it.
LEMMA ReplacedKeeps ==
  ASSUME TypeInv, ReadInv, Replaced, Steady, Intact PROVE ReadInv'
<1>1. pc' = pc /\ own' = own /\ req' = req /\ got' = got /\ reply' = reply /\ seen' = seen
  BY DEF Replaced, threads
<1>2. \A u \in Threads : pc[u] = "idle"
  BY DEF Replaced, Asleep
<1>3. lock = NoThread
  BY <1>2 DEF ReadInv, GuardInv, Inside, TypeInv, PlaceType
<1>4. applied.own = own
  BY <1>3 DEF ReadInv, GuardInv, Current
<1>5. Current'
  BY <1>1, <1>4 DEF Replaced, Current, TypeInv, DataType
<1>6. GuardInv'
  BY <1>1, <1>2, <1>3, <1>5 DEF Replaced, GuardInv, Holds, Inside
<1>7. ASSUME NEW u \in Threads PROVE SameFor(u)' /\ HalfFor(u)' /\ SnapFor(u)'
  <2>1. SnapFor(u)
    BY DEF ReadInv
  <2>2. SnapFor(u)'
    BY <1>1, <2>1 DEF SnapFor
  <2> QED
    BY <1>1, <1>2, <2>2 DEF SameFor, HalfFor, Holds, Inside
<1> QED
  BY <1>6, <1>7 DEF ReadInv

\* The end of the process leaves no answer.
LEMMA ReadAtEnd == ASSUME Die PROVE ReadInv'
<1>1. /\ \A u \in Threads : pc'[u] = "idle" /\ ~reply'[u].ok
      /\ lock' = NoThread
  BY DEF Die, Asleep, NoReply
<1>2. Current'
  BY DEF Die, Current
<1> QED
  BY <1>1, <1>2 DEF ReadInv, GuardInv, SameFor, HalfFor, SnapFor, IsAnswer, Holds, Inside

\* What the main thread and the console do keeps the reads right.
LEMMA ReadProcess ==
  ASSUME TypeInv, LifeInv, ReadInv,
         MainStep \/ CommandEngage \/ CommandCancel \/ CommandQuit \/ SigUsr2
  PROVE  ReadInv'
<1>1. CASE daemonize \/ PidFile \/ PsmDbusInit \/ registerCapabilities \/ PsmRbusInit \/ Post
           \/ CommandEngage \/ CommandCancel \/ CommandQuit \/ SigUsr2
  <2>1. Aside
    BY <1>1 DEF Aside, daemonize, PidFile, PsmDbusInit, registerCapabilities, PsmRbusInit, Post,
      CommandEngage, CommandCancel, CommandQuit, SigUsr2, CancelAndRemove
  <2> QED
    BY <2>1, AsideKeeps
<1>2. CASE SetupEnv \/ LoadEnds
  <2>1. Aside
    BY <1>2 DEF Aside, SetupEnv, LoadEnds, LifeInv, ProgressInv
  <2> QED
    BY <2>1, AsideKeeps
<1>3. CASE LoadRecord
  <2> SUFFICES ASSUME Steady' PROVE ReadInv'
    BY DEF ReadInv
  <2>1. Steady /\ main = "load" /\ registry = "loading"
    BY <1>3 DEF LoadRecord, Steady, process, LifeInv, ProgressInv
  <2>2. Intact /\ pc = Asleep
    BY <2>1 DEF Intact, Steady, LifeInv, HandlerInv
  <2>3. Replaced
    BY <1>3, <2>2 DEF LoadRecord, Replaced
  <2> QED
    BY <2>1, <2>2, <2>3, ReplacedKeeps
<1>4. CASE CreateSysRegistry
  <2> SUFFICES ASSUME Steady' PROVE ReadInv'
    BY DEF ReadInv
  <2>0. Steady
    BY <1>4 DEF CreateSysRegistry, Steady, TypeInv, ProcType
  <2>1. CASE engagements = 0
    <3>1. Intact /\ pc = Asleep
      BY <2>1 DEF Intact, LifeInv, HandlerInv
    <3>2. Replaced
      BY <1>4, <3>1 DEF CreateSysRegistry, Replaced
    <3> QED
      BY <2>0, <3>1, <3>2, ReplacedKeeps
  <2>2. CASE engagements # 0
    <3>1. engagements' = engagements /\ registry' = "null"
      BY <1>4, <2>2 DEF CreateSysRegistry, Steady, TypeInv, ProcType
    <3>2. ~Intact' /\ lock' = NoThread /\ UNCHANGED <<pc, req, got, reply, seen>>
      BY <1>4, <2>2, <3>1 DEF CreateSysRegistry, Intact, threads
    <3>3. \A u \in Threads : ~Holds(u)'
      BY <3>1 DEF Holds, Gone, Inside
    <3>4. \A u \in Threads : SnapFor(u)'
      BY <2>0, <3>2 DEF ReadInv, SnapFor
    <3>5. GuardInv'
      BY <3>2, <3>3 DEF GuardInv
    <3>6. \A u \in Threads : SameFor(u)' /\ HalfFor(u)'
      BY <3>1, <3>3 DEF SameFor, HalfFor, Gone
    <3> QED
      BY <3>4, <3>5, <3>6 DEF ReadInv
  <2> QED
    BY <2>1, <2>2
<1> QED
  BY <1>1, <1>2, <1>3, <1>4 DEF MainStep

-----------------------------------------------------------------------------

\* What a read finds for a name can be part of a reply.
LEMMA LookupFacts ==
  TypeInv => \A n \in Names : <<n, Lookup(n, repo, own)>> \in Pairs
BY DEF TypeInv, DataType, Repo, Own, Lookup, Pairs

\* A read that has a name left and finds its record has come one name further.
LEMMA HalfNext ==
  ASSUME NEW names \in Seq(Names), NEW left, left \in Seq(Names), left # <<>>,
         NEW values, NEW k \in 0 .. Len(names), NEW s, Half(left, values, k, names, s),
         NEW v, v = Lookup(Head(left), s.repo, s.own), v # NoRecord,
         <<Head(left), v>> \in Pairs,
         NEW more,
         more = IF Given(Head(left), v) THEN Append(values, <<Head(left), v>>) ELSE values
  PROVE  k + 1 \in 0 .. Len(names) /\ Half(Tail(left), more, k + 1, names, s)
<1>1. /\ Len(left) \in Nat /\ Len(left) > 0 /\ Head(left) = left[1] /\ Len(names) \in Nat
      /\ Len(Tail(left)) = Len(left) - 1
      /\ \A i \in 1 .. Len(Tail(left)) : Tail(left)[i] = left[i + 1]
  OBVIOUS
<1>2. Len(left) = Len(names) - k /\ \A i \in 1 .. Len(left) : left[i] = names[k + i]
  BY DEF Half
<1>3. k \in Nat /\ k + 1 \in 0 .. Len(names)
  BY <1>1, <1>2
<1>4. Head(left) = names[k + 1]
  BY <1>1, <1>2
<1>5. Len(Tail(left)) = Len(names) - (k + 1)
  BY <1>1, <1>2, <1>3
<1>6. ASSUME NEW i \in 1 .. Len(Tail(left)) PROVE Tail(left)[i] = names[(k + 1) + i]
  <2>1. i + 1 \in 1 .. Len(left) /\ k + (i + 1) = (k + 1) + i
    BY <1>1, <1>3
  <2> QED
    BY <1>1, <1>2, <2>1
<1>7. \A i \in 1 .. k + 1 : Lookup(names[i], s.repo, s.own) # NoRecord
  <2>1. \A i \in 1 .. k + 1 : i \in 1 .. k \/ i = k + 1
    BY <1>3
  <2> QED
    BY <1>4, <2>1 DEF Half
<1>8. more \in Seq(Pairs) /\ AnswersFirst(more, k + 1, names, s)
  <2>1. values \in Seq(Pairs) /\ AnswersFirst(values, k, names, s)
    BY DEF Half
  <2>2. more \in Seq(Pairs)
    BY <2>1
  <2>3. /\ Given(Head(left), v) =>
             AnswersFirst(Append(values, <<Head(left), v>>), k + 1, names, s)
        /\ ~Given(Head(left), v) => AnswersFirst(values, k + 1, names, s)
    BY <1>3, <1>4, <2>1, OneMoreAnswered
  <2> QED
    BY <2>2, <2>3
<1> QED
  BY <1>3, <1>5, <1>6, <1>7, <1>8 DEF Half

\* A read that has not begun.
LEMMA HalfFirst == ASSUME NEW names \in Seq(Names), NEW s PROVE Half(names, <<>>, 0, names, s)
<1>1. Len(names) \in Nat
  OBVIOUS
<1> QED
  BY <1>1, NothingAnswered DEF Half

\* A read that has nothing left has answered everything.
LEMMA HalfLast ==
  ASSUME NEW names \in Seq(Names), NEW values, NEW k \in 0 .. Len(names), NEW s,
         Half(<<>>, values, k, names, s)
  PROVE  ~Missing(names, s) /\ Answers(values, names, s)
<1>1. Len(names) \in Nat /\ DOMAIN names = 1 .. Len(names) /\ Len(<<>>) = 0
  OBVIOUS
<1>2. k = Len(names)
  BY <1>1 DEF Half
<1> QED
  BY <1>1, <1>2 DEF Half, Missing, Answers

-----------------------------------------------------------------------------

(* The three ways a step of t respects ThreadLock: t is outside and stays  *)
(* there, it is inside and stays there, or it leaves.                      *)

\* t is outside and stays there: it touches nothing that the lock guards.
LEMMA GuardedOutside ==
  ASSUME NEW t \in Threads, StepOf(t), lock # t, UNCHANGED <<repo, own, lock, applied>>,
         pc'[t] \notin Inside
  PROVE  Guarded(t)
BY DEF Guarded, LockMove, Holds

\* t is inside and stays there: it reads, or it changes the records.
LEMMA GuardedInside ==
  ASSUME NEW t \in Threads, StepOf(t), Holds(t), lock = t, UNCHANGED <<lock, applied, seen>>,
         pc'[t] \in Inside,
         \/ /\ UNCHANGED <<repo, own>>
            /\ pc[t] = "open" \/ Reading(t)
            /\ Reading(t)' => Reading(t)
         \/ ~Reading(t)' /\ pc'[t] # "open"
  PROVE  Guarded(t)
BY DEF Guarded, LockMove

\* t leaves: its changes, if it made any, are now what lies between two requests.
LEMMA GuardedLeaves ==
  ASSUME NEW t \in Threads, StepOf(t), lock = t, lock' = NoThread, UNCHANGED <<repo, own>>,
         pc'[t] \notin Inside,
         \/ applied' = [repo |-> repo, own |-> own]
         \/ applied' = applied /\ (pc[t] = "open" \/ Reading(t))
  PROVE  Guarded(t)
BY ThreadAssumption DEF Guarded, LockMove, Holds

-----------------------------------------------------------------------------

\* What a step of t has to show.
Respects(t) == Guarded(t) /\ HalfFor(t)' /\ SnapFor(t)'

\* A call that arrives, or waits, has not come to the records.
LEMMA RespectsBefore ==
  ASSUME NEW t \in Threads, TypeInv, AskedInv, GuardInv,
         Receive(t) \/ NotReady(t) \/ Enter(t)
  PROVE  Respects(t)
<1>0. ThreadsAre /\ AskedBy(t)
  BY ThreadsAreFunctions DEF AskedInv
<1>1. pc[t] \in {"idle", "enter"} /\ UNCHANGED <<repo, own, lock, applied>> /\ UNCHANGED process
      /\ Alive
  BY DEF Receive, NotReady, Enter, Working, At
<1>2. lock # t
  BY <1>1, ThreadAssumption DEF GuardInv, Inside, Threads
<1>3. CASE Receive(t)
  <2>1. /\ pc'[t] = "enter" /\ StepOf(t)
    BY <1>1, <1>3, ReceiveParts DEF StepOf
  <2> QED
    BY <1>1, <1>2, <2>1, GuardedOutside DEF Respects, HalfFor, SnapFor, Inside
<1>4. CASE NotReady(t)
  <2>1. CASE Refuse(t)
    <3>1. /\ pc'[t] \in {"idle", "enter"} /\ StepOf(t) /\ req'[t].op = req[t].op
          /\ pc'[t] = "idle" /\ req[t].op = "get" /\ reply'[t].ok =>
               t \in Rbus /\ reply'[t].values = <<>>
      BY <1>1, <1>4, <2>1, RefuseParts DEF StepOf, NotReady, At
    <3>2. HalfFor(t)' /\ SnapFor(t)'
      BY <3>1 DEF HalfFor, SnapFor, IsAnswer
    <3> QED
      BY <1>1, <1>2, <3>1, <3>2, GuardedOutside DEF Respects, Inside
  <2>2. CASE ~Refuse(t)
    <3>1. Step(t, "idle") /\ UNCHANGED <<req, got, reply, seen>> /\ pc[t] = "enter"
      BY <1>4, <2>2 DEF NotReady, At
    <3>2. pc'[t] = "idle" /\ StepOf(t)
      BY <1>0, <1>1, <3>1 DEF StepOf, Step, ThreadsAre
    <3>3. ~reply'[t].ok
      BY <1>0, <3>1 DEF AskedBy, NoReply
    <3>4. HalfFor(t)' /\ SnapFor(t)'
      BY <3>2, <3>3 DEF HalfFor, SnapFor, IsAnswer
    <3> QED
      BY <1>1, <1>2, <3>2, <3>4, GuardedOutside DEF Respects, Inside
  <2> QED
    BY <2>1, <2>2
<1>5. CASE Enter(t)
  <2>1. pc'[t] = "wait" /\ StepOf(t)
    BY <1>0, <1>1, <1>5 DEF Enter, Working, At, Step, StepOf, ThreadsAre
  <2> QED
    BY <1>1, <1>2, <2>1, GuardedOutside DEF Respects, HalfFor, SnapFor, Inside
<1> QED
  BY <1>3, <1>4, <1>5

\* A call that takes the lock notes the records as they are.
LEMMA RespectsTaking ==
  ASSUME NEW t \in Threads, TypeInv, AskedInv, GuardInv, AcqThreadLock(t)
  PROVE  Respects(t)
<1>0. ThreadsAre /\ AskedBy(t) /\ SeenType
  BY ThreadsAreFunctions DEF AskedInv, TypeInv
<1>1. /\ pc[t] = "wait" /\ pc'[t] = "open" /\ lock = NoThread /\ lock' = t /\ StepOf(t)
      /\ UNCHANGED <<repo, own, applied, req>>
  <2>1. seen' = seen \/ seen' = [seen EXCEPT ![t].repo = applied.repo, ![t].own = applied.own]
    BY DEF AcqThreadLock, Observe
  <2>2. \A u \in Threads : u # t => seen'[u] = seen[u]
    BY <1>0, <2>1 DEF ThreadsAre
  <2> QED
    BY <1>0, <2>2 DEF AcqThreadLock, Working, At, Step, StepOf, ThreadsAre
<1>2. Reading(t)' => seen'[t].repo = applied.repo /\ seen'[t].own = applied.own
  <2> SUFFICES ASSUME Reading(t)'
               PROVE  seen'[t].repo = applied.repo /\ seen'[t].own = applied.own
    OBVIOUS
  <2>1. req[t].op \in {"get", "names"}
    BY <1>0, <1>1 DEF Reading, AskedBy
  <2>2. seen' = [seen EXCEPT ![t].repo = applied.repo, ![t].own = applied.own]
    BY <2>1 DEF AcqThreadLock, Observe
  <2> QED
    BY <1>0, <2>2 DEF SeenType
<1>3. Guarded(t)
  BY <1>1, <1>2, ThreadAssumption DEF Guarded, LockMove, Inside, Threads
<1> QED
  BY <1>1, <1>3 DEF Respects, HalfFor, SnapFor

\* The first step under the lock: the read begins, or is refused.
LEMMA RespectsOpening ==
  ASSUME NEW t \in Threads, TypeInv, AskedInv, GuardInv, OpenFolder(t)
  PROVE  Respects(t)
<1>0. ThreadsAre /\ AskedBy(t)
  BY ThreadsAreFunctions DEF AskedInv
<1>1. /\ pc[t] = "open" /\ Holds(t) /\ lock = t /\ UNCHANGED <<repo, own, applied>>
      /\ UNCHANGED process /\ Alive
  BY DEF OpenFolder, Working, At, Holds, Inside, GuardInv
<1>2. CASE folder
  <2>1. pc'[t] = "item" /\ UNCHANGED <<lock, req, got, reply, seen>> /\ StepOf(t)
    BY <1>0, <1>1, <1>2 DEF OpenFolder, Step, StepOf, ThreadsAre
  <2>2. Guarded(t)
    BY <1>1, <2>1, GuardedInside DEF Inside, Reading
  <2>3. HalfFor(t)'
    <3> SUFFICES ASSUME req[t].op = "get"
                 PROVE  \E k \in 0 .. Len(req[t].asked.items) :
                          Half(req[t].items, got[t], k, req[t].asked.items, seen[t])
      BY <2>1 DEF HalfFor
    <3>1. got[t] = <<>> /\ req[t].items = req[t].asked.items /\ req[t].items \in Seq(Names)
      BY <1>0, <1>1 DEF AskedBy
    <3>2. 0 \in 0 .. Len(req[t].asked.items)
      BY <3>1
    <3> QED
      BY <3>1, <3>2, HalfFirst
  <2> QED
    BY <2>1, <2>2, <2>3 DEF Respects, SnapFor
<1>3. CASE ~folder
  <2>1. Refuse(t) /\ lock' = NoThread
    BY <1>1, <1>3 DEF OpenFolder, FreeOwnLock
  <2>2. /\ pc'[t] \in {"idle", "enter"} /\ StepOf(t) /\ req'[t].op = req[t].op
        /\ pc'[t] = "idle" /\ req[t].op = "get" /\ reply'[t].ok =>
             t \in Rbus /\ reply'[t].values = <<>>
    BY <1>1, <2>1, RefuseParts DEF StepOf
  <2>3. HalfFor(t)' /\ SnapFor(t)'
    BY <2>2 DEF HalfFor, SnapFor, IsAnswer
  <2>4. Guarded(t)
    BY <1>1, <2>1, <2>2, GuardedLeaves DEF Inside
  <2> QED
    BY <2>3, <2>4 DEF Respects
<1> QED
  BY <1>2, <1>3

\* A name that is read.
LEMMA RespectsGet ==
  ASSUME NEW t \in Threads, TypeInv, AskedInv, GuardInv, SameFor(t), HalfFor(t), GetItem(t)
  PROVE  Respects(t)
<1>0. ThreadsAre /\ AskedBy(t) /\ got = [u \in Threads |-> got[u]]
  BY ThreadsAreFunctions DEF AskedInv
<1>1. /\ pc[t] = "item" /\ req[t].op = "get" /\ ~Gone(t) /\ Holds(t) /\ lock = t /\ NextItem(t)
      /\ UNCHANGED process /\ Alive /\ UNCHANGED <<repo, own, lock, applied, pc, reply, seen>>
      /\ req[t].items # <<>>
  BY DEF GetItem, Item, Items, Working, At, Holds, Inside, GuardInv
<1>2. /\ req'[t].op = "get" /\ req'[t].asked = req[t].asked /\ req'[t].items = Tail(req[t].items)
      /\ \A u \in Threads : u # t => req'[u] = req[u]
  BY <1>0, <1>1, NextItemParts
<1> DEFINE n == Head(req[t].items)
           v == Lookup(n, repo, own)
<1>3. /\ v # NoRecord
      /\ got'[t] = IF Given(n, v) THEN Append(got[t], <<n, v>>) ELSE got[t]
      /\ \A u \in Threads : u # t => got'[u] = got[u]
  BY <1>0 DEF GetItem, Items, Collect
<1>4. StepOf(t)
  BY <1>1, <1>2, <1>3 DEF StepOf
<1>5. Guarded(t)
  BY <1>1, <1>2, <1>4, GuardedInside DEF Inside, Reading
<1>6. req[t].items \in Seq(Names) /\ req[t].asked.items \in Seq(Names)
  BY <1>0, <1>1 DEF AskedBy, TypeInv, ReqType
<1>7. n \in Names /\ <<n, v>> \in Pairs
  BY <1>1, <1>6, SeqFacts, LookupFacts
<1>8. v = Lookup(n, seen[t].repo, seen[t].own)
  BY <1>1 DEF SameFor, Reading
<1>9. PICK k \in 0 .. Len(req[t].asked.items) :
        Half(req[t].items, got[t], k, req[t].asked.items, seen[t])
  BY <1>1 DEF HalfFor
<1> HIDE DEF n, v
<1>10. /\ k + 1 \in 0 .. Len(req[t].asked.items)
       /\ Half(Tail(req[t].items), got'[t], k + 1, req[t].asked.items, seen[t])
  BY <1>1, <1>3, <1>6, <1>7, <1>8, <1>9, HalfNext DEF n
<1>11. HalfFor(t)'
  BY <1>1, <1>2, <1>10 DEF HalfFor
<1> QED
  BY <1>1, <1>5, <1>11 DEF Respects, SnapFor

\* A record that is missing ends a read without an answer.
LEMMA RespectsMissing ==
  ASSUME NEW t \in Threads, TypeInv, AskedInv, GuardInv, Steady, Steady',
         GetMissing(t) \/ ReleaseAgain(t)
  PROVE  Respects(t)
<1>0. ThreadsAre /\ AskedBy(t) /\ SeenType
  BY ThreadsAreFunctions DEF AskedInv, TypeInv
<1>1. CASE GetMissing(t)
  <2>1. /\ pc[t] = "item" /\ req[t].op = "get" /\ Holds(t) /\ lock = t /\ lock' = NoThread
        /\ UNCHANGED <<repo, own, applied>> /\ pc'[t] = "failed" /\ StepOf(t)
    BY <1>0, <1>1 DEF GetMissing, Item, Working, At, Holds, Inside, GuardInv, FreeOwnLock, Step,
      StepOf, ThreadsAre
  <2>2. Guarded(t)
    BY <2>1, GuardedLeaves DEF Inside, Reading
  <2> QED
    BY <2>1, <2>2 DEF Respects, HalfFor, SnapFor
<1>2. CASE ReleaseAgain(t)
  <2>1. pc[t] = "failed" /\ req[t].op = "get" /\ UNCHANGED <<repo, own, applied, req>>
        /\ UNCHANGED process /\ Alive /\ Answer(t, FALSE)
    BY <1>0, <1>2 DEF ReleaseAgain, Working, At, AskedBy
  <2>2. lock' = lock
    BY <1>2 DEF ReleaseAgain, Steady
  <2>3. lock # t
    BY <2>1, ThreadAssumption DEF GuardInv, Inside, Threads
  <2>4. /\ pc'[t] = "idle" /\ StepOf(t)
        /\ reply'[t] = [ok     |-> FALSE \/ (t \in Rbus /\ req[t].op = "get"),
                        values |-> IF FALSE THEN got[t] ELSE <<>>]
    BY <1>0, <2>1, AnswerParts DEF StepOf
  <2>5. reply'[t].values = <<>>
    BY <2>4
  <2>6. ASSUME t \notin Rbus PROVE ~reply'[t].ok
    <3>1. (FALSE \/ (t \in Rbus /\ req[t].op = "get")) = FALSE
      BY <2>6
    <3>2. reply'[t] = [ok |-> FALSE, values |-> IF FALSE THEN got[t] ELSE <<>>]
      BY ONLY <2>4, <3>1, Zenon
    <3> QED
      BY <3>2
  <2>7. HalfFor(t)' /\ SnapFor(t)'
    BY <2>4, <2>5, <2>6 DEF HalfFor, SnapFor, IsAnswer
  <2> QED
    BY <2>1, <2>2, <2>3, <2>4, <2>7, GuardedOutside DEF Respects, Inside
<1> QED
  BY <1>1, <1>2

\* A call that changes the records does so under the lock.
LEMMA RespectsChange ==
  ASSUME NEW t \in Threads, TypeInv, AskedInv, GuardInv, SetItem(t) \/ DeleteItem(t)
  PROVE  Respects(t)
<1>0. ThreadsAre
  BY ThreadsAreFunctions
<1>1. /\ pc[t] = "item" /\ req[t].op \in {"set", "delete"} /\ Holds(t) /\ lock = t /\ NextItem(t)
      /\ UNCHANGED process /\ Alive /\ UNCHANGED <<lock, applied, got, reply, seen>>
  BY DEF SetItem, DeleteItem, Item, Working, At, Holds, Inside, GuardInv
<1>2. pc'[t] \in {"item", "one"} /\ \A u \in Threads : u # t => pc'[u] = pc[u]
  BY <1>0, <1>1 DEF SetItem, DeleteItem, Step, ThreadsAre
<1>3. req'[t].op = req[t].op /\ \A u \in Threads : u # t => req'[u] = req[u]
  BY <1>0, <1>1, NextItemParts
<1>4. StepOf(t)
  BY <1>1, <1>2, <1>3 DEF StepOf
<1>5. Guarded(t)
  BY <1>1, <1>2, <1>3, <1>4, GuardedInside DEF Inside, Reading
<1> QED
  BY <1>1, <1>2, <1>3, <1>5 DEF Respects, HalfFor, SnapFor

\* A listing reads under the lock.
LEMMA RespectsListing ==
  ASSUME NEW t \in Threads, TypeInv, AskedInv, GuardInv, CountRecords(t) \/ EnumRecord(t)
  PROVE  Respects(t)
<1>0. ThreadsAre /\ got = [u \in Threads |-> got[u]]
  BY ThreadsAreFunctions DEF AskedInv
<1>1. /\ pc[t] = "item" /\ req[t].op \in {"names", "enumerate"} /\ Holds(t) /\ lock = t
      /\ UNCHANGED process /\ Alive /\ UNCHANGED <<repo, own, lock, applied, pc, reply, seen>>
  BY DEF CountRecords, EnumRecord, Item, Working, At, Holds, Inside, GuardInv
<1>2. req'[t].op = "enumerate" /\ \A u \in Threads : u # t => req'[u] = req[u]
  <2>1. CASE CountRecords(t)
    BY <1>0, <2>1 DEF CountRecords, ThreadsAre
  <2>2. CASE EnumRecord(t)
    BY <1>0, <2>2, NextItemParts DEF EnumRecord, Item
  <2> QED
    BY <2>1, <2>2
<1>3. \A u \in Threads : u # t => got'[u] = got[u]
  <2>1. \A x : Collect(t, x) => \A u \in Threads : u # t => got'[u] = got[u]
    BY <1>0 DEF Collect
  <2> HIDE DEF Collect
  <2>2. got' = got \/ \E x : Collect(t, x)
    BY DEF CountRecords, EnumRecord
  <2> QED
    BY <2>1, <2>2
<1>4. StepOf(t)
  BY <1>1, <1>2, <1>3 DEF StepOf
<1>5. Guarded(t)
  BY <1>1, <1>2, <1>4, GuardedInside DEF Inside, Reading
<1> QED
  BY <1>1, <1>2, <1>5 DEF Respects, HalfFor, SnapFor

\* A call that has nothing left to do answers what it has collected.
LEMMA RespectsLeaving ==
  ASSUME NEW t \in Threads, TypeInv, AskedInv, GuardInv, HalfFor(t),
         RelThreadLock(t) \/ ReleaseOne(t)
  PROVE  Respects(t)
<1>0. ThreadsAre /\ AskedBy(t) /\ SeenType
  BY ThreadsAreFunctions DEF AskedInv, TypeInv
<1>1. /\ pc[t] \in {"item", "one"} /\ Holds(t) /\ lock = t /\ lock' = NoThread /\ ~Gone(t)
      /\ UNCHANGED process /\ Alive /\ UNCHANGED <<repo, own, req>>
      /\ applied' = [repo |-> repo, own |-> own]
  BY DEF RelThreadLock, ReleaseOne, Working, At, Holds, Inside, GuardInv, FreeOwnLock
<1>2. CASE Answer(t, TRUE)
  <2>1. /\ pc'[t] = "idle" /\ StepOf(t)
        /\ reply'[t] = [ok     |-> TRUE \/ (t \in Rbus /\ req[t].op = "get"),
                        values |-> IF TRUE THEN got[t] ELSE <<>>]
        /\ seen'[t].repo = seen[t].repo /\ seen'[t].own = seen[t].own
    BY <1>0, <1>1, <1>2, AnswerParts DEF StepOf
  <2>2. Guarded(t)
    BY <1>1, <2>1, GuardedLeaves DEF Inside
  <2>3. SnapFor(t)'
    <3> SUFFICES ASSUME req[t].op = "get"
                 PROVE  IsAnswer(t, reply'[t], req[t].asked.items, seen'[t])
      BY <1>1 DEF SnapFor
    <3>1. RelThreadLock(t) /\ req[t].items = <<>> /\ pc[t] = "item"
      BY <1>0, <1>1 DEF RelThreadLock, ReleaseOne, Working, At, AskedBy, Items
    <3>2. PICK k \in 0 .. Len(req[t].asked.items) :
            Half(<<>>, got[t], k, req[t].asked.items, seen[t])
      BY <1>1, <3>1 DEF HalfFor
    <3>3. req[t].asked.items \in Seq(Names)
      BY <1>0 DEF AskedBy
    <3>4. ~Missing(req[t].asked.items, seen[t]) /\ Answers(got[t], req[t].asked.items, seen[t])
      BY <3>2, <3>3, HalfLast
    <3>5. reply'[t].values = got[t]
      BY <2>1
    <3>6. /\ ~Missing(req[t].asked.items, seen'[t])
          /\ Answers(reply'[t].values, req[t].asked.items, seen'[t])
      BY <2>1, <3>4, <3>5 DEF Missing, Answers, AnswersFirst
    <3> QED
      BY <3>6 DEF IsAnswer
  <2> QED
    BY <2>1, <2>2, <2>3 DEF Respects, HalfFor
<1>3. CASE ~Answer(t, TRUE)
  <2>1. pc'[t] = "enter" /\ StepOf(t)
    BY <1>0, <1>1, <1>3 DEF RelThreadLock, ReleaseOne, Step, StepOf, ThreadsAre
  <2>2. Guarded(t)
    BY <1>1, <2>1, GuardedLeaves DEF Inside
  <2> QED
    BY <2>1, <2>2 DEF Respects, HalfFor, SnapFor
<1> QED
  BY <1>2, <1>3

\* A life that is steady after a step of a thread was so before.
LEMMA SteadyBefore ==
  ASSUME NEW t \in Threads, TypeInv, Receive(t) \/ HandlerStep(t),
         ~(UseRemoved(t) \/ NullDereference(t)), Steady'
  PROVE  Steady
<1>1. engagements' = engagements /\ (overReleased' = overReleased \/ ReleaseAgain(t))
  BY DEF Receive, HandlerStep, NotReady, Enter, AcqThreadLock, OpenFolder, GetItem, GetMissing,
    ReleaseAgain, SetItem, DeleteItem, CountRecords, EnumRecord, RelThreadLock, ReleaseOne,
    process
<1>2. CASE overReleased' = overReleased
  BY <1>1, <1>2 DEF Steady
<1>3. CASE ReleaseAgain(t)
  <2>1. overReleased' = (overReleased \/ lock' # lock) /\ ~overReleased'
    BY <1>3 DEF ReleaseAgain, Steady
  <2>2. ~overReleased
    BY <2>1, Zenon
  <2> QED
    BY <1>1, <2>2 DEF Steady
<1> QED
  BY <1>1, <1>2, <1>3

\* Every step of a thread respects ThreadLock.
LEMMA HandlerRespects ==
  ASSUME NEW t \in Threads, TypeInv, AskedInv, ReadInv, Receive(t) \/ HandlerStep(t),
         ~(UseRemoved(t) \/ NullDereference(t)), Steady'
  PROVE  Respects(t)
<1>1. Steady
  BY SteadyBefore
<1>2. GuardInv /\ \A u \in Threads : SameFor(u) /\ HalfFor(u) /\ SnapFor(u)
  BY <1>1 DEF ReadInv
<1> QED
  BY <1>1, <1>2, RespectsBefore, RespectsTaking, RespectsOpening, RespectsGet, RespectsMissing,
     RespectsChange, RespectsListing, RespectsLeaving
  DEF HandlerStep

\* A step keeps what ThreadLock guards and what a reader has collected.
LEMMA ReadStep == TypeInv /\ LifeInv /\ AskedInv /\ ReadInv /\ [Next]_vars => ReadInv'
<1> SUFFICES ASSUME TypeInv, LifeInv, AskedInv, ReadInv, [Next]_vars PROVE ReadInv'
  OBVIOUS
<1>1. CASE UNCHANGED vars
  <2>1. Aside
    BY <1>1 DEF vars, process, Aside
  <2> QED
    BY <2>1, AsideKeeps
<1>2. CASE MainStep \/ CommandEngage \/ CommandCancel \/ CommandQuit \/ SigUsr2
  BY <1>2, ReadProcess
<1>3. CASE Exit
  BY <1>3, ReadAtEnd DEF Exit
<1>4. ASSUME NEW t \in Threads, Receive(t) \/ HandlerStep(t) PROVE ReadInv'
  <2>1. CASE UseRemoved(t) \/ NullDereference(t)
    BY <2>1, ReadAtEnd DEF UseRemoved, NullDereference
  <2>2. CASE ~(UseRemoved(t) \/ NullDereference(t))
    <3> SUFFICES ASSUME Steady' PROVE ReadInv'
      BY DEF ReadInv
    <3>3. GuardInv /\ \A u \in Threads : SameFor(u) /\ HalfFor(u) /\ SnapFor(u)
      BY <1>4, <2>2, SteadyBefore DEF ReadInv
    <3>4. Respects(t)
      BY <1>4, <2>2, HandlerRespects
    <3>5. GuardInv' /\ \A u \in Threads : SameFor(u)'
      BY <3>3, <3>4, GuardedKeeps DEF Respects
    <3>6. \A u \in Threads : HalfFor(u)' /\ SnapFor(u)'
      BY <3>3, <3>4, OthersKeepAnswers DEF Respects, Guarded
    <3> QED
      BY <3>5, <3>6 DEF ReadInv
  <2> QED
    BY <2>1, <2>2
<1> QED
  BY <1>1, <1>2, <1>3, <1>4 DEF Next

\* So both invariants hold in every reachable state.
LEMMA ReadCorrect == Spec => [](AskedInv /\ ReadInv)
<1>1. ASSUME Init PROVE AskedInv /\ ReadInv
  <2>1. \A t \in Threads : pc[t] = "idle" /\ req[t].op = "none" /\ got[t] = <<>>
    BY <1>1 DEF Init, Asleep, NoRequest
  <2>2. AskedInv
    BY <1>1, <2>1 DEF Init, AskedInv, AskedBy
  <2>3. lock = NoThread /\ Current
    BY <1>1 DEF Init, Current
  <2> QED
    BY <2>1, <2>2, <2>3 DEF ReadInv, GuardInv, SameFor, HalfFor, SnapFor, Holds, Inside
<1> QED
  BY <1>1, LifeCorrect, AskedStep, ReadStep, PTL DEF Spec

\* What a successful read answers was together between two requests, also when
\* another thread changes the same records meanwhile.
THEOREM SnapshotReadsCorrect == Spec => []SnapshotReads
<1>1. ReadInv => SnapshotReads
  BY DEF ReadInv, SnapshotReads, SnapFor, IsAnswer
<1> QED
  BY <1>1, ReadCorrect, PTL

-----------------------------------------------------------------------------
(* Listings.                                                               *)

\* The records of a repository have the places 1 to Count in its order, each one.
LEMMA NthFacts ==
  ASSUME NEW r \in Repo
  PROVE  /\ Count(r) \in Nat
         /\ \A k \in 1 .. Count(r) : Nth(r, k) \in Names /\ r[Nth(r, k)] # NoRecord
         /\ \A n \in Names : r[n] # NoRecord => \E k \in 1 .. Count(r) : Nth(r, k) = n
<1> DEFINE S == Stored(r)
           Pos(i) == Cardinality(Upto(r, i))
<1>1. /\ S \subseteq 1 .. Len(Order) /\ IsFiniteSet(S) /\ Cardinality(S) \in Nat
      /\ \A i \in S : Order[i] \in Names /\ r[Order[i]] # NoRecord
      /\ \A n \in Names : r[n] # NoRecord => \E i \in S : Order[i] = n
  <2>1. Len(Order) \in Nat /\ DOMAIN Order = 1 .. Len(Order)
    BY NameAssumption
  <2>2. S \subseteq 1 .. Len(Order)
    BY <2>1 DEF Stored
  <2>3. IsFiniteSet(1 .. Len(Order))
    BY <2>1, FS_Interval
  <2>4. IsFiniteSet(S) /\ Cardinality(S) \in Nat
    BY <2>2, <2>3, FS_Subset, FS_CardinalityType
  <2>5. \A n \in Names : \E i \in DOMAIN Order : Order[i] = n
    BY DEF Names, ToSet
  <2> QED
    BY <2>2, <2>4, <2>5, OrderFacts DEF Stored
<1>2. ASSUME NEW i \in S PROVE Pos(i) \in 1 .. Cardinality(S)
  <2>1. Upto(r, i) \subseteq S /\ i \in Upto(r, i)
    BY <1>1 DEF Upto
  <2>2. IsFiniteSet(Upto(r, i)) /\ Pos(i) <= Cardinality(S) /\ Pos(i) \in Nat
    BY <1>1, <2>1, FS_Subset, FS_CardinalityType
  <2>3. Pos(i) # 0
    BY <2>1, <2>2, FS_EmptySet
  <2> QED
    BY <1>1, <2>2, <2>3
<1>3. ASSUME NEW i \in S, NEW j \in S, i < j PROVE Pos(i) < Pos(j)
  <2>1. Upto(r, i) \subseteq Upto(r, j) /\ j \in Upto(r, j) /\ j \notin Upto(r, i)
    BY <1>1, <1>3 DEF Upto
  <2>2. IsFiniteSet(Upto(r, j))
    <3>1. Upto(r, j) \subseteq S
      BY DEF Upto
    <3> QED
      BY <1>1, <3>1, FS_Subset
  <2>3. Pos(i) <= Pos(j) /\ (Pos(i) = Pos(j) => Upto(r, i) = Upto(r, j))
    BY <2>1, <2>2, FS_Subset
  <2>4. Pos(i) \in Nat /\ Pos(j) \in Nat
    BY <1>1, <1>2
  <2> QED
    BY <2>1, <2>3, <2>4
<1>4. \A i, j \in S : Pos(i) = Pos(j) => i = j
  <2> SUFFICES ASSUME NEW i \in S, NEW j \in S, Pos(i) = Pos(j), i # j PROVE FALSE
    OBVIOUS
  <2>1. i \in Int /\ j \in Int /\ Pos(i) \in Int
    BY <1>1, <1>2
  <2>2. i < j \/ j < i
    BY <2>1
  <2> HIDE DEF Pos, S
  <2> QED
    BY <1>3, <2>1, <2>2
<1> HIDE DEF Pos
<1>5. ASSUME NEW k \in 1 .. Cardinality(S) PROVE \E i \in S : Pos(i) = k
  <2> SUFFICES ASSUME \A i \in S : Pos(i) # k PROVE FALSE
    OBVIOUS
  <2> DEFINE T == (1 .. Cardinality(S)) \ {k}
             f == [i \in S |-> Pos(i)]
  <2>1. f \in [S -> T]
    BY <1>2
  <2>2. IsFiniteSet(1 .. Cardinality(S)) /\ Cardinality(1 .. Cardinality(S)) = Cardinality(S)
    BY <1>1, FS_Interval
  <2>3. IsFiniteSet(T) /\ Cardinality(T) = Cardinality(S) - 1
    BY <2>2, FS_RemoveElement
  <2>4. Cardinality(T) < Cardinality(S)
    BY <1>1, <2>3
  <2>5. \E i, j \in S : i # j /\ f[i] = f[j]
    <3>1. IsFiniteSet(S)
      BY <1>1
    <3> HIDE DEF T, f, S
    <3> QED
      BY ONLY <2>1, <2>3, <2>4, <3>1, FS_PigeonHole, Zenon
  <2> QED
    BY <1>4, <2>5
<1>6. ASSUME NEW k \in 1 .. Cardinality(S)
      PROVE  Nth(r, k) \in Names /\ r[Nth(r, k)] # NoRecord
  <2> DEFINE i == CHOOSE j \in S : Pos(j) = k
  <2>1. i \in S
    BY <1>5
  <2>2. Nth(r, k) = Order[i]
    BY DEF Nth, Pos
  <2> QED
    BY <1>1, <2>1, <2>2
<1>7. ASSUME NEW n \in Names, r[n] # NoRecord
      PROVE  \E k \in 1 .. Cardinality(S) : Nth(r, k) = n
  <2>1. PICK i \in S : Order[i] = n
    BY <1>1, <1>7
  <2>2. Pos(i) \in 1 .. Cardinality(S)
    BY <1>2
  <2>3. (CHOOSE j \in S : Pos(j) = Pos(i)) = i
    BY <1>4
  <2>4. Nth(r, Pos(i)) = Order[i]
    BY <2>3 DEF Nth, Pos
  <2> QED
    BY <2>1, <2>2, <2>4
<1> QED
  BY <1>1, <1>6, <1>7 DEF Count

-----------------------------------------------------------------------------

\* The names are sequences, and so are their beginnings.
LEMMA NameFacts ==
  ASSUME NEW n \in Names, NEW k \in 1 .. Len(n)
  PROVE  /\ Len(n) \in Nat /\ n \in Seq(ToSet(n)) /\ SubSeq(n, 1, Len(n)) = n
         /\ Len(SubSeq(n, 1, k)) = k /\ SubSeq(n, 1, k) \in Seq(ToSet(n))
         /\ \A i \in 1 .. k : SubSeq(n, 1, k)[i] = n[i]
<1>1. n \in Seq(ToSet(n)) /\ Len(n) \in Nat /\ \A i \in 1 .. Len(n) : n[i] \in ToSet(n)
  BY NameAssumption DEF ToSet
<1>2. k \in Nat /\ \A i \in 1 .. k : i \in 1 .. Len(n) /\ 1 + i - 1 = i
  BY <1>1
<1>3. SubSeq(n, 1, Len(n)) = n
  BY <1>1, SubSeqFull
<1>4. /\ SubSeq(n, 1, k) \in Seq(ToSet(n))
      /\ Len(SubSeq(n, 1, k)) = IF 1 <= k THEN k - 1 + 1 ELSE 0
      /\ \A i \in 1 .. k - 1 + 1 : SubSeq(n, 1, k)[i] = n[1 + i - 1]
  BY <1>1, <1>2, SubSeqProperties
<1>5. k - 1 + 1 = k /\ 1 <= k
  BY <1>2
<1>6. Len(SubSeq(n, 1, k)) = k
  BY <1>4, <1>5
<1>7. ASSUME NEW i \in 1 .. k PROVE SubSeq(n, 1, k)[i] = n[i]
  <2>1. i \in 1 .. k - 1 + 1 /\ 1 + i - 1 = i
    BY <1>2
  <2> QED
    BY <1>4, <2>1
<1> QED
  BY <1>1, <1>3, <1>4, <1>6, <1>7

\* Which tokens a part of a sequence has.
LEMMA PartHas ==
  ASSUME NEW S, NEW s \in Seq(S), NEW a \in Nat \ {0}, NEW b \in Int, b <= Len(s), NEW e
  PROVE  Contains(SubSeq(s, a, b), e) <=> \E i \in a .. b : s[i] = e
<1>1. Len(s) \in Nat /\ \A i \in a .. b : s[i] \in S
  OBVIOUS
<1>2. /\ Len(SubSeq(s, a, b)) = IF a <= b THEN b - a + 1 ELSE 0
      /\ \A i \in 1 .. b - a + 1 : SubSeq(s, a, b)[i] = s[a + i - 1]
  BY <1>1, SubSeqProperties
<1>3. ASSUME Contains(SubSeq(s, a, b), e) PROVE \E i \in a .. b : s[i] = e
  <2>1. PICK i \in 1 .. Len(SubSeq(s, a, b)) : SubSeq(s, a, b)[i] = e
    BY <1>3 DEF Contains
  <2>2. a <= b /\ i \in 1 .. b - a + 1
    BY <1>2, <2>1
  <2>3. a + i - 1 \in a .. b
    BY <2>2
  <2> QED
    BY <1>2, <2>1, <2>2, <2>3
<1>4. ASSUME NEW i \in a .. b, s[i] = e PROVE Contains(SubSeq(s, a, b), e)
  <2>1. a <= b /\ i - a + 1 \in 1 .. b - a + 1 /\ a + (i - a + 1) - 1 = i
    OBVIOUS
  <2>2. SubSeq(s, a, b)[i - a + 1] = e
    BY <1>2, <1>4, <2>1
  <2>3. i - a + 1 \in 1 .. Len(SubSeq(s, a, b))
    BY <1>2, <2>1
  <2> QED
    BY <2>2, <2>3 DEF Contains
<1> QED
  BY <1>3, <1>4

\* The first of a set of places.
LEMMA FirstPlace ==
  \A D \in SUBSET Nat : D # {} => \E i \in D : \A j \in D : i <= j
<1> SUFFICES ASSUME NEW D \in SUBSET Nat, D # {}
             PROVE  \E i \in D : \A j \in D : i <= j
  OBVIOUS
<1>1. PICK i \in D : \A j \in D : ~(<<j, i>> \in OpToRel(<, Nat))
  BY NatLessThanWellFounded, WFMin
<1>2. \A j \in D : ~(j < i)
  BY <1>1 DEF OpToRel
<1> QED
  BY <1>2

\* Where a name is cut: at its first dot behind the prefix, or nowhere.
NoDots(n, p, k) == \A i \in Len(p) + 1 .. k : n[i] # "."

Cut(n, p, k) ==
  k \in Len(p) + 1 .. Len(n) /\ NoDots(n, p, k - 1) /\ (n[k] = "." \/ k = Len(n))

\* NextLevel cuts it there, and there is only one such place.
LEMMA NextLevelCuts ==
  ASSUME NEW n \in Names, NEW p, Len(p) \in Nat, Len(n) > Len(p)
  PROVE  /\ \E k \in Len(p) + 1 .. Len(n) : Cut(n, p, k)
         /\ \A k : Cut(n, p, k) => NextLevel(n, p) = SubSeq(n, 1, k)
<1> DEFINE D == {i \in Len(p) + 1 .. Len(n) : n[i] = "."}
           d == CHOOSE i \in D : \A j \in D : i <= j
<1>1. /\ Len(n) \in Nat /\ Len(n) \in 1 .. Len(n) /\ Len(n) \in Len(p) + 1 .. Len(n)
      /\ D \in SUBSET Nat
  BY NameAssumption
<1>2. SubSeq(n, 1, Len(n)) = n
  BY <1>1, NameFacts
<1>3. NextLevel(n, p) = IF D = {} THEN n ELSE SubSeq(n, 1, d)
  BY DEF NextLevel
<1>4. D # {} => d \in D /\ \A j \in D : d <= j
  <2>1. D # {} => \E i \in D : \A j \in D : i <= j
    BY <1>1, FirstPlace
  <2> HIDE DEF D
  <2> QED
    BY <2>1
<1> HIDE DEF d
<1>5. CASE D = {}
  <2>1. Cut(n, p, Len(n))
    BY <1>1, <1>5 DEF Cut, NoDots
  <2>2. ASSUME NEW k, Cut(n, p, k) PROVE k = Len(n)
    BY <1>5, <2>2 DEF Cut, NoDots
  <2> QED
    BY <1>1, <1>2, <1>3, <1>5, <2>1, <2>2
<1>6. CASE D # {}
  <2>1. d \in Len(p) + 1 .. Len(n) /\ n[d] = "."
    BY <1>4, <1>6
  <2>2. \A i \in Len(p) + 1 .. Len(n) : n[i] = "." => d <= i
    BY <1>4, <1>6
  <2> HIDE DEF D
  <2>3. ASSUME NEW i \in Len(p) + 1 .. d - 1 PROVE n[i] # "."
    <3>1. i \in Len(p) + 1 .. Len(n) /\ ~(d <= i)
      BY <1>1, <2>1
    <3> QED
      BY <2>2, <3>1
  <2>4. Cut(n, p, d)
    BY <2>1, <2>3 DEF Cut, NoDots
  <2>5. ASSUME NEW k, Cut(n, p, k) PROVE k = d
    <3>1. k \in Len(p) + 1 .. Len(n) /\ (n[k] = "." \/ k = Len(n))
          /\ \A i \in Len(p) + 1 .. k - 1 : n[i] # "."
      BY <2>5 DEF Cut, NoDots
    <3>2. ~(d < k)
      <4>1. d < k => d \in Len(p) + 1 .. k - 1
        BY <1>1, <2>1, <3>1
      <4> QED
        BY <2>1, <3>1, <4>1
    <3>3. ~(k < d)
      <4>1. k < d => n[k] # "."
        BY <2>2, <2>1, <3>1
      <4>2. k < d => k # Len(n)
        BY <1>1, <2>1
      <4> QED
        BY <3>1, <4>1, <4>2
    <3> QED
      BY <1>1, <2>1, <3>1, <3>2, <3>3
  <2> QED
    BY <1>3, <1>6, <2>1, <2>4, <2>5
<1> QED
  BY <1>5, <1>6

\* A beginning of a name is a folder, or a plain name, by the dots of the name.
LEMMA DotsOfBeginning ==
  ASSUME NEW n \in Names, NEW p, Len(p) \in Nat, NEW k \in Len(p) + 1 .. Len(n),
         NEW m, m = SubSeq(n, 1, k)
  PROVE  /\ Len(m) = k /\ Len(n) > Len(p)
         /\ IsFolder(m, p) <=> n[k] = "." /\ NoDots(n, p, k - 1)
         /\ IsPlain(m, p) <=> NoDots(n, p, k)
<1>1. Len(n) \in Nat /\ k \in 1 .. Len(n) /\ Len(n) > Len(p)
  BY NameAssumption
<1>2. Len(m) = k /\ m \in Seq(ToSet(n)) /\ \A i \in 1 .. k : m[i] = n[i]
  BY <1>1, NameFacts
<1>3. Len(p) + 1 \in Nat \ {0} /\ k - 1 \in Int /\ k - 1 <= Len(m) /\ k \in Int /\ k <= Len(m)
  BY <1>1, <1>2
<1>4. Contains(SubSeq(m, Len(p) + 1, k - 1), ".") <=> \E i \in Len(p) + 1 .. k - 1 : m[i] = "."
  BY ONLY <1>2, <1>3, PartHas
<1>5. Contains(SubSeq(m, Len(p) + 1, k), ".") <=> \E i \in Len(p) + 1 .. k : m[i] = "."
  BY ONLY <1>2, <1>3, PartHas
<1>6. \A i \in Len(p) + 1 .. k : m[i] = n[i]
  <2>1. \A i \in Len(p) + 1 .. k : i \in 1 .. k
    OBVIOUS
  <2> QED
    BY <1>2, <2>1
<1>7. k \in Len(p) + 1 .. k /\ \A i \in Len(p) + 1 .. k - 1 : i \in Len(p) + 1 .. k
  BY <1>1
<1>8. IsFolder(m, p) <=> n[k] = "." /\ NoDots(n, p, k - 1)
  BY <1>2, <1>4, <1>6, <1>7 DEF IsFolder, NoDots
<1>9. IsPlain(m, p) <=> NoDots(n, p, k)
  BY <1>2, <1>5, <1>6 DEF IsPlain, NoDots
<1> QED
  BY <1>1, <1>2, <1>8, <1>9

\* The levels are the records below the prefix, each cut behind its next dot.
LEMMA LevelsAreCuts ==
  ASSUME NEW r \in Repo, NEW p, Len(p) \in Nat
  PROVE  Levels(r, p) =
           {NextLevel(n, p) : n \in {n \in Under(r, p) : Len(n) > Len(p)}}
<1>1. ASSUME NEW n \in Under(r, p), Len(n) > Len(p) PROVE NextLevel(n, p) \in Levels(r, p)
  <2>1. n \in Names
    BY DEF Under
  <2>2. PICK k \in Len(p) + 1 .. Len(n) : Cut(n, p, k) /\ NextLevel(n, p) = SubSeq(n, 1, k)
    BY <1>1, <2>1, NextLevelCuts
  <2> DEFINE m == SubSeq(n, 1, k)
  <2>3. m = SubSeq(n, 1, k) /\ m \in Beginnings(r, p)
    BY DEF Beginnings
  <2> HIDE DEF m
  <2>4. IsFolder(m, p) <=> n[k] = "." /\ NoDots(n, p, k - 1)
    BY <2>1, <2>3, DotsOfBeginning
  <2>5. IsPlain(m, p) <=> NoDots(n, p, k)
    BY <2>1, <2>3, DotsOfBeginning
  <2>6. CASE n[k] = "."
    <3>1. IsFolder(m, p)
      BY <2>2, <2>4, <2>6 DEF Cut
    <3> QED
      BY <2>2, <2>3, <3>1 DEF Levels
  <2>7. CASE n[k] # "."
    <3>1. k = Len(n) /\ NoDots(n, p, k - 1)
      BY <2>2, <2>7 DEF Cut
    <3>2. m = n
      <4>1. k \in 1 .. Len(n)
        BY <2>1, NameAssumption
      <4> QED
        BY <2>1, <2>3, <3>1, <4>1, NameFacts
    <3>3. NoDots(n, p, k)
      <4>1. \A i \in Len(p) + 1 .. k : i \in Len(p) + 1 .. k - 1 \/ i = k
        OBVIOUS
      <4> QED
        BY <2>7, <3>1, <4>1 DEF NoDots
    <3> QED
      BY <2>2, <2>3, <2>5, <3>2, <3>3 DEF Levels
  <2> QED
    BY <2>6, <2>7
<1>2. ASSUME NEW m \in Levels(r, p)
      PROVE  \E n \in Under(r, p) : Len(n) > Len(p) /\ m = NextLevel(n, p)
  <2>1. m \in Beginnings(r, p) /\ (IsFolder(m, p) \/ (m \in Under(r, p) /\ IsPlain(m, p)))
    BY DEF Levels
  <2>2. PICK n \in Under(r, p) : \E k \in Len(p) + 1 .. Len(n) : m = SubSeq(n, 1, k)
    BY <2>1 DEF Beginnings
  <2>3. PICK k \in Len(p) + 1 .. Len(n) : m = SubSeq(n, 1, k)
    BY <2>2
  <2>4. n \in Names
    BY DEF Under
  <2>5. Len(m) = k /\ Len(n) > Len(p)
    BY <2>3, <2>4, DotsOfBeginning
  <2>6. CASE IsFolder(m, p)
    <3>1. n[k] = "." /\ NoDots(n, p, k - 1)
      BY <2>3, <2>4, <2>6, DotsOfBeginning
    <3>2. Cut(n, p, k)
      BY <3>1 DEF Cut
    <3> QED
      BY <2>3, <2>4, <2>5, <3>2, NextLevelCuts
  <2>7. CASE m \in Under(r, p) /\ IsPlain(m, p)
    <3>1. m \in Names /\ k \in Len(p) + 1 .. Len(m) /\ Len(m) > Len(p) /\ k \in 1 .. Len(m)
      BY <2>5, <2>7 DEF Under
    <3>2. SubSeq(m, 1, k) = m
      BY <2>5, <3>1, NameFacts
    <3>3. NoDots(m, p, k)
      BY <2>7, <3>1, <3>2, DotsOfBeginning
    <3>4. Cut(m, p, k)
      BY <2>5, <3>1, <3>3 DEF Cut, NoDots
    <3>5. NextLevel(m, p) = SubSeq(m, 1, k)
      BY <3>1, <3>4, NextLevelCuts
    <3> QED
      BY <2>7, <3>1, <3>2, <3>5
  <2> QED
    BY <2>1, <2>6, <2>7
<1> QED
  BY <1>1, <1>2

-----------------------------------------------------------------------------

\* What the first k records are called.
Called(r, k, a) == {NameOf(Nth(r, j), a) : j \in {j \in 1 .. k : Below(Nth(r, j), a)}}

\* How far a listing has come: the first k records are called, each name once, and
\* the places of the rest are left.
Listed(left, values, k, a, r) ==
  /\ left \in Seq(Nat) /\ Len(left) = Count(r) - k
  /\ \A i \in 1 .. Len(left) : left[i] = k + i
  /\ values \in Seq({NameOf(n, a) : n \in Names}) /\ IsInjective(values)
  /\ ToSet(values) = Called(r, k, a)

ListingFor(t) ==
  pc[t] = "item" /\ req[t].op = "enumerate" /\ ~Gone(t) =>
    \E k \in 0 .. Count(seen[t].repo) :
      Listed(req[t].items, got[t], k, req[t].asked, seen[t].repo)

\* What NamesAnswer says of a reply.
AllCalled(r, a) == {NameOf(n, a) : n \in {n \in Names : r[n] # NoRecord /\ Below(n, a)}}

ListedFor(t) ==
  pc[t] = "idle" /\ req[t].op = "enumerate" /\ reply[t].ok =>
    /\ ToSet(reply[t].values) = AllCalled(seen[t].repo, req[t].asked)
    /\ IsInjective(reply[t].values)

ListInv == Steady => \A t \in Threads : ListingFor(t) /\ ListedFor(t)

\* One more record is called, unless its name is in the list.
LEMMA CalledNext ==
  ASSUME NEW r, NEW k \in Nat, NEW a
  PROVE  /\ Below(Nth(r, k + 1), a) =>
              Called(r, k + 1, a) = Called(r, k, a) \cup {NameOf(Nth(r, k + 1), a)}
         /\ ~Below(Nth(r, k + 1), a) => Called(r, k + 1, a) = Called(r, k, a)
<1>1. \A j : j \in 1 .. k + 1 <=> j \in 1 .. k \/ j = k + 1
  OBVIOUS
<1> QED
  BY <1>1 DEF Called

\* A value more at the end of a list.
LEMMA OneMoreInList ==
  ASSUME NEW S, NEW values \in Seq(S), NEW x \in S
  PROVE  /\ Append(values, x) \in Seq(S)
         /\ ToSet(Append(values, x)) = ToSet(values) \cup {x}
         /\ Contains(values, x) <=> x \in ToSet(values)
         /\ IsInjective(values) /\ x \notin ToSet(values) => IsInjective(Append(values, x))
<1> DEFINE w == Append(values, x)
<1>1. /\ Len(values) \in Nat /\ DOMAIN values = 1 .. Len(values)
      /\ w \in Seq(S) /\ Len(w) = Len(values) + 1 /\ DOMAIN w = 1 .. Len(values) + 1
      /\ w[Len(values) + 1] = x /\ \A i \in 1 .. Len(values) : w[i] = values[i]
  OBVIOUS
<1> HIDE DEF w
<1>2. \A i : i \in 1 .. Len(values) + 1 <=> i \in 1 .. Len(values) \/ i = Len(values) + 1
  BY <1>1
<1>3. ToSet(w) = ToSet(values) \cup {x}
  BY <1>1, <1>2 DEF ToSet
<1>4. Contains(values, x) <=> x \in ToSet(values)
  BY <1>1 DEF Contains, ToSet
<1>5. ASSUME IsInjective(values), x \notin ToSet(values),
             NEW i \in DOMAIN w, NEW j \in DOMAIN w, w[i] = w[j]
      PROVE  i = j
  <2>1. \A l \in 1 .. Len(values) : values[l] # x
    BY <1>1, <1>5 DEF ToSet
  <2>2. CASE i \in 1 .. Len(values) /\ j \in 1 .. Len(values)
    BY <1>1, <1>5, <2>2 DEF IsInjective
  <2>3. CASE ~(i \in 1 .. Len(values) /\ j \in 1 .. Len(values))
    BY <1>1, <1>2, <1>5, <2>1, <2>3
  <2> QED
    BY <2>2, <2>3
<1>6. IsInjective(values) /\ x \notin ToSet(values) => IsInjective(w)
  BY <1>5 DEF IsInjective
<1> QED
  BY <1>1, <1>3, <1>4, <1>6 DEF w

\* A listing that has a record left has come one record further.
LEMMA ListNext ==
  ASSUME NEW r \in Repo, NEW a, NEW left, NEW values, NEW k \in 0 .. Count(r),
         Listed(left, values, k, a, r), left # <<>>,
         NEW x, x = NameOf(Nth(r, Head(left)), a),
         NEW more,
         more = IF Head(left) <= Count(r) /\ Below(Nth(r, Head(left)), a) /\ ~Contains(values, x)
                THEN Append(values, x) ELSE values
  PROVE  k + 1 \in 0 .. Count(r) /\ Listed(Tail(left), more, k + 1, a, r)
<1>1. /\ left \in Seq(Nat) /\ Len(left) = Count(r) - k
      /\ \A i \in 1 .. Len(left) : left[i] = k + i
      /\ values \in Seq({NameOf(n, a) : n \in Names}) /\ IsInjective(values)
      /\ ToSet(values) = Called(r, k, a)
  BY DEF Listed
<1>2. /\ Len(left) \in Nat /\ Len(left) > 0 /\ Head(left) = left[1]
      /\ Tail(left) \in Seq(Nat) /\ Len(Tail(left)) = Len(left) - 1
      /\ \A i \in 1 .. Len(Tail(left)) : Tail(left)[i] = left[i + 1]
  BY <1>1
<1>3. k \in Nat /\ Count(r) \in Nat /\ k + 1 \in 1 .. Count(r) /\ k + 1 \in 0 .. Count(r)
  BY <1>1, <1>2, NthFacts
<1>4. Head(left) = k + 1 /\ Head(left) <= Count(r)
  BY <1>1, <1>2, <1>3
<1>5. Len(Tail(left)) = Count(r) - (k + 1)
  BY <1>1, <1>2, <1>3
<1>6. ASSUME NEW i \in 1 .. Len(Tail(left)) PROVE Tail(left)[i] = (k + 1) + i
  <2>1. i + 1 \in 1 .. Len(left) /\ k + (i + 1) = (k + 1) + i
    BY <1>2, <1>3
  <2> QED
    BY <1>1, <1>2, <2>1
<1>7. x \in {NameOf(n, a) : n \in Names}
  BY <1>3, <1>4, NthFacts
<1> DEFINE S == {NameOf(n, a) : n \in Names}
<1> HIDE DEF S
<1>8. /\ Append(values, x) \in Seq(S) /\ ToSet(Append(values, x)) = ToSet(values) \cup {x}
      /\ Contains(values, x) <=> x \in ToSet(values)
      /\ x \notin ToSet(values) => IsInjective(Append(values, x))
  <2>1. values \in Seq(S) /\ x \in S
    BY <1>1, <1>7 DEF S
  <2> QED
    BY <1>1, <2>1, OneMoreInList
<1>9. /\ Below(Nth(r, k + 1), a) => Called(r, k + 1, a) = Called(r, k, a) \cup {x}
      /\ ~Below(Nth(r, k + 1), a) => Called(r, k + 1, a) = Called(r, k, a)
  BY <1>3, <1>4, CalledNext
<1>10. more \in Seq(S) /\ IsInjective(more) /\ ToSet(more) = Called(r, k + 1, a)
  <2>1. values \in Seq(S)
    BY <1>1 DEF S
  <2>2. CASE Below(Nth(r, k + 1), a) /\ x \notin ToSet(values)
    <3>1. more = Append(values, x)
      BY <1>4, <1>8, <2>2
    <3> QED
      BY <1>1, <1>8, <1>9, <2>2, <3>1
  <2>3. CASE ~(Below(Nth(r, k + 1), a) /\ x \notin ToSet(values))
    <3>1. more = values
      BY <1>4, <1>8, <2>3
    <3>2. ToSet(values) = Called(r, k + 1, a)
      BY <1>1, <1>9, <2>3
    <3> QED
      BY <1>1, <2>1, <3>1, <3>2
  <2> QED
    BY <2>2, <2>3
<1> QED
  BY <1>2, <1>3, <1>5, <1>6, <1>10 DEF Listed, S

\* A listing that has not begun.
LEMMA ListFirst ==
  ASSUME NEW r \in Repo, NEW a
  PROVE  0 \in 0 .. Count(r) /\ Listed([k \in 1 .. Count(r) |-> k], <<>>, 0, a, r)
<1> DEFINE left == [k \in 1 .. Count(r) |-> k]
<1>1. Count(r) \in Nat
  BY NthFacts
<1>2. left \in Seq(Nat) /\ Len(left) = Count(r) /\ \A i \in 1 .. Count(r) : left[i] = i
  BY <1>1
<1>3. ToSet(<<>>) = {} /\ Called(r, 0, a) = {} /\ IsInjective(<<>>)
  BY DEF ToSet, Called, IsInjective
<1>4. 0 \in 0 .. Count(r) /\ Count(r) - 0 = Count(r) /\ \A i \in 1 .. Count(r) : 0 + i = i
  BY <1>1
<1> HIDE DEF left
<1>5. Listed(left, <<>>, 0, a, r)
  <2>1. <<>> \in Seq({NameOf(n, a) : n \in Names})
    OBVIOUS
  <2>2. Len(left) = Count(r) - 0 /\ \A i \in 1 .. Len(left) : left[i] = 0 + i
    BY <1>2, <1>4
  <2> QED
    BY <1>2, <1>3, <2>1, <2>2 DEF Listed
<1> QED
  BY <1>4, <1>5 DEF left

\* A listing that has nothing left has called all records below the prefix.
LEMMA ListLast ==
  ASSUME NEW r \in Repo, NEW a, NEW values, NEW k \in 0 .. Count(r),
         Listed(<<>>, values, k, a, r)
  PROVE  ToSet(values) = AllCalled(r, a) /\ IsInjective(values)
<1>1. Count(r) \in Nat /\ Len(<<>>) = 0
  BY NthFacts
<1>2. k = Count(r) /\ ToSet(values) = Called(r, k, a) /\ IsInjective(values)
  BY <1>1 DEF Listed
<1>3. /\ \A j \in 1 .. k : Nth(r, j) \in Names /\ r[Nth(r, j)] # NoRecord
      /\ \A n \in Names : r[n] # NoRecord => \E j \in 1 .. k : Nth(r, j) = n
  BY <1>2, NthFacts
<1>4. ASSUME NEW x \in Called(r, k, a) PROVE x \in AllCalled(r, a)
  <2>1. PICK j \in 1 .. k : Below(Nth(r, j), a) /\ x = NameOf(Nth(r, j), a)
    BY <1>4 DEF Called
  <2>2. Nth(r, j) \in {n \in Names : r[n] # NoRecord /\ Below(n, a)}
    BY <1>3, <2>1
  <2> QED
    BY <2>1, <2>2 DEF AllCalled
<1>5. ASSUME NEW x \in AllCalled(r, a) PROVE x \in Called(r, k, a)
  <2>1. PICK n \in Names : r[n] # NoRecord /\ Below(n, a) /\ x = NameOf(n, a)
    BY <1>5 DEF AllCalled
  <2>2. PICK j \in 1 .. k : Nth(r, j) = n
    BY <1>3, <2>1
  <2> QED
    BY <2>1, <2>2 DEF Called
<1> QED
  BY <1>2, <1>4, <1>5

\* That is what getParameterNames should answer.
LEMMA AllCalledIs ==
  ASSUME NEW r \in Repo, NEW a \in Requests, a.op = "names"
  PROVE  AllCalled(r, a) = IF a.nextLevel THEN Levels(r, a.prefix) ELSE Under(r, a.prefix)
<1>1. Len(a.prefix) \in Nat /\ a.nextLevel \in BOOLEAN
  BY RequestAssumption
<1>2. CASE a.nextLevel
  <2>1. \A n : Below(n, a) <=> IsPrefix(a.prefix, n) /\ Len(n) > Len(a.prefix)
    BY <1>2 DEF Below
  <2>2. \A n : NameOf(n, a) = NextLevel(n, a.prefix)
    BY <1>2 DEF NameOf
  <2>3. AllCalled(r, a) =
          {NextLevel(n, a.prefix) : n \in {n \in Under(r, a.prefix) : Len(n) > Len(a.prefix)}}
    BY <2>1, <2>2 DEF AllCalled, Under
  <2> QED
    BY <1>1, <1>2, <2>3, LevelsAreCuts
<1>3. CASE ~a.nextLevel
  <2>1. \A n : Below(n, a) <=> IsPrefix(a.prefix, n)
    BY <1>3 DEF Below
  <2>2. \A n : NameOf(n, a) = n
    BY <1>3 DEF NameOf
  <2> QED
    BY <1>3, <2>1, <2>2 DEF AllCalled, Under
<1> QED
  BY <1>2, <1>3

-----------------------------------------------------------------------------

\* A listing that counts the records has none of them yet.
LEMMA ListingCounts ==
  ASSUME NEW t \in Threads, TypeInv, AskedInv, GuardInv, SameFor(t), CountRecords(t)
  PROVE  ListingFor(t)'
<1>0. ThreadsAre /\ AskedBy(t)
  BY ThreadsAreFunctions DEF AskedInv
<1>1. /\ pc[t] = "item" /\ req[t].op = "names" /\ Holds(t) /\ got[t] = <<>>
      /\ UNCHANGED <<got, seen>>
  BY <1>0 DEF CountRecords, Working, At, Holds, Inside, AskedBy
<1>2. seen[t].repo = repo /\ repo \in Repo
  BY <1>1 DEF SameFor, Reading, TypeInv, DataType
<1>3. /\ req'[t].items = [k \in 1 .. Count(repo) |-> k]
  BY <1>0 DEF CountRecords, ThreadsAre
<1>4. 0 \in 0 .. Count(repo) /\ Listed(req'[t].items, <<>>, 0, req'[t].asked, repo)
  BY <1>2, <1>3, ListFirst
<1> QED
  BY <1>1, <1>2, <1>4 DEF ListingFor

\* A listing that takes a record comes one further.
LEMMA ListingEnumerates ==
  ASSUME NEW t \in Threads, TypeInv, AskedInv, GuardInv, SameFor(t), ListingFor(t),
         EnumRecord(t)
  PROVE  ListingFor(t)'
<1>0. ThreadsAre
  BY ThreadsAreFunctions
<1>1. /\ pc[t] = "item" /\ req[t].op = "enumerate" /\ ~Gone(t) /\ Holds(t) /\ NextItem(t)
      /\ seen' = seen /\ req[t].items # <<>>
  BY DEF EnumRecord, Item, Items, Working, At, Holds, Inside
<1>2. seen[t].repo = repo /\ repo \in Repo
  BY <1>1 DEF SameFor, Reading, TypeInv, DataType
<1>3. req'[t].asked = req[t].asked /\ req'[t].items = Tail(req[t].items)
  BY <1>0, <1>1, NextItemParts
<1> DEFINE a == req[t].asked
           k == Head(req[t].items)
           x == NameOf(Nth(repo, k), a)
<1>4. got'[t] = IF k <= Count(repo) /\ Below(Nth(repo, k), a) /\ ~Contains(got[t], x)
                THEN Append(got[t], x) ELSE got[t]
  BY <1>0 DEF EnumRecord, Items, Collect, ThreadsAre
<1>5. PICK j \in 0 .. Count(repo) : Listed(req[t].items, got[t], j, a, repo)
  BY <1>1, <1>2 DEF ListingFor
<1>6. j + 1 \in 0 .. Count(repo) /\ Listed(Tail(req[t].items), got'[t], j + 1, a, repo)
  BY <1>1, <1>2, <1>4, <1>5, ListNext
<1> QED
  BY <1>1, <1>2, <1>3, <1>6 DEF ListingFor

\* A listing ends with everything called.
LEMMA ListingEnds ==
  ASSUME NEW t \in Threads, TypeInv, AskedInv, ListingFor(t), RelThreadLock(t)
  PROVE  ListedFor(t)'
<1>0. ThreadsAre /\ SeenType
  BY ThreadsAreFunctions DEF TypeInv
<1>1. pc[t] = "item" /\ ~Gone(t) /\ req[t].items = <<>> /\ req' = req /\ Answer(t, TRUE)
  BY DEF RelThreadLock, Working, At, Items
<1>2. /\ reply'[t] = [ok     |-> TRUE \/ (t \in Rbus /\ req[t].op = "get"),
                      values |-> IF TRUE THEN got[t] ELSE <<>>]
      /\ seen'[t].repo = seen[t].repo
  BY <1>0, <1>1, AnswerParts
<1>3. reply'[t].values = got[t]
  BY <1>2
<1> SUFFICES ASSUME req[t].op = "enumerate"
             PROVE  /\ ToSet(got[t]) = AllCalled(seen[t].repo, req[t].asked)
                    /\ IsInjective(got[t])
  BY <1>1, <1>2, <1>3 DEF ListedFor
<1>4. PICK k \in 0 .. Count(seen[t].repo) :
        Listed(<<>>, got[t], k, req[t].asked, seen[t].repo)
  BY <1>1 DEF ListingFor
<1>5. seen[t].repo \in Repo
  BY <1>0 DEF SeenType
<1> QED
  BY <1>4, <1>5, ListLast

\* Whatever else t does leaves its listing alone.
LEMMA ListingStays ==
  ASSUME NEW t \in Threads, TypeInv, AskedInv, ListedFor(t), Receive(t) \/ HandlerStep(t),
         ~(UseRemoved(t) \/ NullDereference(t) \/ CountRecords(t) \/ EnumRecord(t))
  PROVE  ListingFor(t)' /\ (ListedFor(t)' \/ RelThreadLock(t))
<1>0. ThreadsAre /\ AskedBy(t) /\ SeenType
  BY ThreadsAreFunctions DEF AskedInv, TypeInv
<1>1. CASE Receive(t)
  <2>1. pc'[t] = "enter"
    BY <1>1, ReceiveParts
  <2> QED
    BY <2>1 DEF ListingFor, ListedFor
<1>2. CASE NotReady(t) \/ OpenFolder(t)
  <2>1. pc[t] \in {"enter", "open"} /\ req[t].op # "enumerate"
    BY <1>0, <1>2 DEF NotReady, OpenFolder, Working, At, AskedBy
  <2>2. req'[t].op = req[t].op
    <3>1. CASE Refuse(t)
      BY <2>1, <3>1, RefuseParts
    <3>2. CASE ~Refuse(t)
      BY <1>2, <3>2 DEF NotReady, OpenFolder
    <3> QED
      BY <3>1, <3>2
  <2> QED
    BY <2>1, <2>2 DEF ListingFor, ListedFor
<1>3. CASE Enter(t) \/ AcqThreadLock(t)
  <2>1. pc'[t] \in {"wait", "open"}
    BY <1>0, <1>3 DEF Enter, AcqThreadLock, Step, ThreadsAre
  <2> QED
    BY <2>1 DEF ListingFor, ListedFor
<1>4. CASE GetItem(t) \/ SetItem(t) \/ DeleteItem(t)
  <2>1. NextItem(t) /\ req[t].op \in {"get", "set", "delete"}
    BY <1>4 DEF GetItem, SetItem, DeleteItem, Item
  <2>2. req'[t].op = req[t].op
    BY <1>0, <2>1, NextItemParts
  <2> QED
    BY <2>1, <2>2 DEF ListingFor, ListedFor
<1>5. CASE GetMissing(t) \/ ReleaseAgain(t) \/ ReleaseOne(t)
  <2>1. req' = req /\ req[t].op \in {"get", "delete"}
    BY <1>0, <1>5 DEF GetMissing, ReleaseAgain, ReleaseOne, Item, Working, At, AskedBy
  <2> QED
    BY <2>1 DEF ListingFor, ListedFor
<1>6. CASE RelThreadLock(t)
  <2>1. pc'[t] = "idle"
    BY <1>0, <1>6, AnswerParts DEF RelThreadLock
  <2> QED
    BY <1>6, <2>1 DEF ListingFor
<1> QED
  BY <1>1, <1>2, <1>3, <1>4, <1>5, <1>6 DEF HandlerStep

\* A step of the main thread leaves the listings alone.
LEMMA ListProcess ==
  ASSUME TypeInv, LifeInv, ListInv,
         MainStep \/ CommandEngage \/ CommandCancel \/ CommandQuit \/ SigUsr2
           \/ UNCHANGED vars
  PROVE  ListInv'
<1> SUFFICES ASSUME Steady' PROVE ListInv'
  BY DEF ListInv
<1>1. /\ UNCHANGED threads /\ overReleased' = overReleased
      /\ engagements' = engagements \/ (engagements' = engagements + 1 /\ CreateSysRegistry)
  BY DEF MainStep, daemonize, PidFile, CreateSysRegistry, SetupEnv, LoadRecord, LoadEnds,
    PsmDbusInit, registerCapabilities, PsmRbusInit, Post, CommandEngage, CommandCancel,
    CommandQuit, SigUsr2, CancelAndRemove, vars, process, world
<1>2. Steady /\ engagements \in Nat
  BY <1>1 DEF Steady, TypeInv, ProcType
<1>3. ASSUME NEW t \in Threads, pc[t] = "item", Gone(t) PROVE Gone(t)'
  <2>1. engagements # 0
    BY <1>3 DEF LifeInv, HandlerInv, Asleep
  <2>2. engagements' = engagements
    BY <1>1, <1>2, <2>1 DEF Steady
  <2>3. pc'[t] = pc[t] /\ seen'[t] = seen[t]
    BY <1>1 DEF threads
  <2>4. CASE CreateSysRegistry
    <3>1. registry' = "null"
      BY <1>2, <2>2, <2>4 DEF CreateSysRegistry
    <3> QED
      BY <1>3, <2>3, <3>1 DEF Gone
  <2>5. CASE SetupEnv \/ LoadEnds
    <3>1. registry \in {"fresh", "loading"}
      BY <2>5 DEF SetupEnv, LoadEnds, LifeInv, ProgressInv
    <3> QED
      BY <1>3, <2>2, <2>3, <3>1 DEF Gone
  <2>6. CASE ~(CreateSysRegistry \/ SetupEnv \/ LoadEnds)
    <3>1. registry' = registry \/ registry' = "removed"
      BY <2>6 DEF MainStep, daemonize, PidFile, LoadRecord, PsmDbusInit, registerCapabilities,
        PsmRbusInit, Post, CommandEngage, CommandCancel, CommandQuit, SigUsr2,
        CancelAndRemove, vars, process
    <3> QED
      BY <1>3, <2>2, <2>3, <3>1 DEF Gone
  <2> QED
    BY <2>4, <2>5, <2>6
<1>4. ASSUME NEW t \in Threads PROVE ListingFor(t)' /\ ListedFor(t)'
  <2>1. ListingFor(t) /\ ListedFor(t)
    BY <1>2 DEF ListInv
  <2>2. ListingFor(t)'
    BY <1>1, <1>3, <2>1 DEF ListingFor, threads
  <2>3. ListedFor(t)'
    BY <1>1, <2>1 DEF ListedFor, threads
  <2> QED
    BY <2>2, <2>3
<1> QED
  BY <1>4 DEF ListInv

\* A step keeps what a listing has come to.
LEMMA ListStep ==
  TypeInv /\ LifeInv /\ AskedInv /\ ReadInv /\ ListInv /\ [Next]_vars => ListInv'
<1> SUFFICES ASSUME TypeInv, LifeInv, AskedInv, ReadInv, ListInv, [Next]_vars PROVE ListInv'
  OBVIOUS
<1>1. CASE MainStep \/ CommandEngage \/ CommandCancel \/ CommandQuit \/ SigUsr2
             \/ UNCHANGED vars
  BY <1>1, ListProcess
<1>2. ASSUME Die PROVE ListInv'
  BY <1>2 DEF Die, Asleep, NoReply, ListInv, ListingFor, ListedFor
<1>3. ASSUME NEW t \in Threads, Receive(t) \/ HandlerStep(t) PROVE ListInv'
  <2>1. CASE UseRemoved(t) \/ NullDereference(t)
    BY <1>2, <2>1 DEF UseRemoved, NullDereference
  <2>2. CASE ~(UseRemoved(t) \/ NullDereference(t))
    <3> SUFFICES ASSUME Steady' PROVE ListInv'
      BY DEF ListInv
    <3>1. Steady /\ Respects(t)
      BY <1>3, <2>2, SteadyBefore, HandlerRespects
    <3>2. GuardInv /\ \A u \in Threads : SameFor(u) /\ ListingFor(u) /\ ListedFor(u)
      BY <3>1 DEF ReadInv, ListInv
    <3>3. ListingFor(t)' /\ ListedFor(t)'
      <4>1. CASE CountRecords(t) \/ EnumRecord(t)
        <5>1. ListingFor(t)'
          BY <3>2, <4>1, ListingCounts, ListingEnumerates
        <5>2. pc'[t] = "item"
          BY <4>1 DEF CountRecords, EnumRecord, Item, Working, At
        <5> QED
          BY <5>1, <5>2 DEF ListedFor
      <4>2. CASE ~(CountRecords(t) \/ EnumRecord(t))
        BY <1>3, <2>2, <3>2, <4>2, ListingStays, ListingEnds
      <4> QED
        BY <4>1, <4>2
    <3>4. ASSUME NEW u \in Threads, u # t PROVE ListingFor(u)' /\ ListedFor(u)'
      <4>1. /\ pc'[u] = pc[u] /\ req'[u] = req[u] /\ got'[u] = got[u] /\ reply'[u] = reply[u]
            /\ seen'[u] = seen[u] /\ UNCHANGED process
        BY <3>1, <3>4 DEF Respects, Guarded, StepOf
      <4>2. Gone(u)' <=> Gone(u)
        BY <4>1 DEF Gone, process
      <4>3. ListingFor(u) /\ ListedFor(u)
        BY <3>2
      <4>4. ListingFor(u)'
        BY <4>1, <4>2, <4>3 DEF ListingFor
      <4>5. ListedFor(u)'
        BY <4>1, <4>3 DEF ListedFor
      <4> QED
        BY <4>4, <4>5
    <3> QED
      BY <3>3, <3>4 DEF ListInv
  <2> QED
    BY <2>1, <2>2
<1> QED
  BY <1>1, <1>2, <1>3 DEF Next, Exit

\* A listing answers exactly the records, or the names of the next level, that are
\* there between two requests, each of them once.
THEOREM NamesAnswerCorrect == Spec => []NamesAnswer
<1>1. ASSUME Init PROVE ListInv
  BY <1>1 DEF Init, Asleep, NoRequest, ListInv, ListingFor, ListedFor
<1>2. TypeInv /\ AskedInv /\ ListInv => NamesAnswer
  <2> SUFFICES ASSUME TypeInv, AskedInv, ListInv, NEW t \in Threads,
                      Steady, pc[t] = "idle", req[t].op = "enumerate", reply[t].ok
               PROVE  /\ ToSet(reply[t].values) =
                           IF req[t].asked.nextLevel
                           THEN Levels(seen[t].repo, req[t].asked.prefix)
                           ELSE Under(seen[t].repo, req[t].asked.prefix)
                      /\ IsInjective(reply[t].values)
    BY DEF NamesAnswer
  <2>1. /\ ToSet(reply[t].values) = AllCalled(seen[t].repo, req[t].asked)
        /\ IsInjective(reply[t].values)
    BY DEF ListInv, ListedFor
  <2>2. /\ req[t].asked \in Requests /\ req[t].asked.op = "names"
        /\ seen[t].repo \in Repo
    BY DEF AskedInv, AskedBy, TypeInv, SeenType
  <2> QED
    BY <2>1, <2>2, AllCalledIs
<1> QED
  BY <1>1, <1>2, ReadCorrect, LifeCorrect, ListStep, PTL DEF Spec

=============================================================================
