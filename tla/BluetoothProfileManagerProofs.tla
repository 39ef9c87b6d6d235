-------------------- MODULE BluetoothProfileManagerProofs --------------------
(***************************************************************************)
(* Proofs about the profile manager: for every set of objects and client   *)
(* threads, and every number of starts, registrations and image loads, the *)
(* flag that spares the question to the system ability manager never hides *)
(* a running service, dead remotes stay in the cache only if a lookup was  *)
(* overtaken, and no registration is missed.  The host's loading of the    *)
(* service is built on these facts: a load whose wait times out does not   *)
(* give up on a service that has been reported.                            *)
(***************************************************************************)
EXTENDS BluetoothHostLoad, TLAPS

-----------------------------------------------------------------------------
(***************************************************************************)
(* The inductive invariant                                                 *)
(***************************************************************************)
\* the steps of a lookup that run under getProfileRemoteMutex_
Inside == {"host", "checked", "profile", "insert"}
\* the steps of a lookup, and the return to its caller
Lookup == Inside \cup {"find", "got"}
AddSteps == {"add", "addNeedCheck", "addNotify"}
RemoveSteps == {"remove", "removeServiceOff", "removeNeedCheck", "turnOff", "removeSwitch"}
PCs == Lookup \cup AddSteps \cup RemoveSteps
         \cup {"idle", "registered", "run", "next", "load"}
\* the operations that iterate over the registered functions
Runs == {"add", "update", "turnOn"}
Ops == Runs \cup {"none", "get", "register", "remove", "load"}

ThreadRecords == [op : Ops, pc : PCs, name : ObjectNames, id : Nat, remote : Nat,
                  todo : SUBSET FuncId]

TypeOK ==
  /\ service \in Nat
  /\ starts \in Nat
  /\ saEvents \in Seq({"add", "remove"})
  /\ profileRemoteMap \in [ObjectNames -> Nat]
  /\ registerValidId \in Nat
  /\ profileIdFuncMap \in [DOMAIN profileIdFuncMap -> ObjectNames]
  /\ DOMAIN profileIdFuncMap \subseteq FuncId
  /\ isBluetoothServiceOn \in BOOLEAN
  /\ isNeedCheckBluetoothServiceOn \in BOOLEAN
  /\ getProfileRemoteMutex \in Threads \cup {NoThread}
  /\ needCheckMutex \in Threads \cup {NoThread}
  /\ funcMapMutex \in Threads \cup {NoThread}
  /\ thread \in [Threads -> ThreadRecords]
  /\ updates \in Nat
  /\ called \in [FuncId -> SUBSET Nat]
  /\ refused \in [FuncId -> SUBSET Nat]
  /\ overtaken \in BOOLEAN

\* which operation is at which step
OpOK(t) ==
  /\ thread[t].pc \in AddSteps => thread[t].op \in {"add", "update"}
  /\ thread[t].pc \in {"run", "next"} => thread[t].op \in Runs
  /\ thread[t].pc \in RemoveSteps => thread[t].op \in {"remove", "update"}
  /\ thread[t].pc = "registered" => thread[t].op = "register"
  /\ thread[t].pc = "load" => thread[t].op = "load"
  /\ thread[t].pc \in Lookup => thread[t].op \in Runs \cup {"get", "register", "load"}
  /\ thread[t].pc = "idle" => thread[t].op = "none"
  /\ thread[t].op \in {"add", "remove"} => t = SaThread
  /\ t = SaThread => thread[t].op \in {"none", "add", "remove"}
  /\ thread[t].op = "register" => thread[t].id \in FuncId
  /\ thread[t].pc \in Lookup /\ thread[t].op \in Runs => thread[t].id \in FuncId

OpInv == \A t \in Threads : OpOK(t)

\* a thread holds a lock exactly at the steps that the code guards with it
HoldsRemoteMutex(t) == thread[t].pc \in Inside
HoldsFuncMap(t) == thread[t].op \in Runs /\ thread[t].pc \in Lookup \cup {"next"}

LockInv ==
  \A t \in Threads :
    /\ HoldsRemoteMutex(t) <=> getProfileRemoteMutex = t
    /\ thread[t].pc = "checked" <=> needCheckMutex = t
    /\ HoldsFuncMap(t) <=> funcMapMutex = t

\* the functions still to be run are registered
TodoInv ==
  \A t \in Threads : HoldsFuncMap(t) => thread[t].todo \subseteq DOMAIN profileIdFuncMap

Reported(event) == \E i \in 1 .. Len(saEvents) : saEvents[i] = event

\* the reports end with the state that the service is in
EventInv ==
  service # 0 =>
    /\ Len(saEvents) > 0 => saEvents[Len(saEvents)] = "add"
    /\ thread[SaThread].op = "remove" => Len(saEvents) > 0

\* a start that the manager has yet to hear of
AddPending == Reported("add") \/ thread[SaThread].pc \in {"add", "addNeedCheck"}

(***************************************************************************)
(* While the flag is down no host is cached and no lookup has passed it; a *)
(* lookup about to take it down saw no service; and if one runs although   *)
(* the flag is down, or is about to be, its start is still to be reported. *)
(***************************************************************************)
FlagInv ==
  /\ ~isNeedCheckBluetoothServiceOn =>
       /\ profileRemoteMap[BLUETOOTH_HOST] = 0
       /\ \A t \in Threads : thread[t].pc \notin {"checked", "profile", "insert"}
       /\ service = 0 \/ AddPending
  /\ \A t \in Threads : thread[t].pc = "checked" =>
       /\ profileRemoteMap[BLUETOOTH_HOST] = 0
       /\ thread[t].remote = 0 => service = 0 \/ AddPending

\* a death that has yet to reach the cache
RemovePending == Reported("remove") \/ thread[SaThread].pc = "remove"

\* what is cached, or about to be, is alive or its death will be reported
CacheInv ==
  ~overtaken /\ ~RemovePending =>
    /\ \A o \in ObjectNames : profileRemoteMap[o] \in {0, service}
    /\ \A t \in Threads : thread[t].pc \in {"checked", "profile", "insert"} =>
         thread[t].remote \in {0, service}

-----------------------------------------------------------------------------
(***************************************************************************)
(* No registration is missed: while the service runs, each function was    *)
(* called with its remote or the host refused to give it, or a call is     *)
(* still to come, or a dead remote is cached.                              *)
(***************************************************************************)
StaleCache == \E o \in ObjectNames : profileRemoteMap[o] \notin {0, service}

\* a thread that will go through all the functions
RunsAll(t) ==
  \/ thread[t].op = "update" /\ thread[t].pc \in RemoveSteps
  \/ thread[t].op \in {"add", "update"} /\ thread[t].pc \in AddSteps \cup {"run"}

\* a thread that will call this function with the remote of the running service
WillCall(t, id) ==
  \/ /\ HoldsFuncMap(t)
     /\ thread[t].op # "turnOn"
     /\ id \in thread[t].todo
  \/ /\ thread[t].op \in {"register", "add", "update"}
     /\ thread[t].id = id
     /\ \/ thread[t].pc \in {"registered", "find", "host"}
        \/ /\ thread[t].pc \in {"checked", "profile", "insert", "got"}
           /\ thread[t].remote = service

\* the running service was asked on behalf of this function
Met(id) == service \in called[id] \cup refused[id]

Answered(id) ==
  \/ Met(id)
  \/ StaleCache
  \/ Reported("add")
  \/ \E t \in Threads : RunsAll(t) \/ WillCall(t, id)

CallInv == service # 0 => \A id \in DOMAIN profileIdFuncMap : Answered(id)

\* a thread that will say that the service is on, and then go through the functions
RaisesServiceOn(t) ==
  \/ thread[t].pc = "add"
  \/ thread[t].op = "update" /\ thread[t].pc \in RemoveSteps

\* a registration that sees the service off will be found by such a thread
ServiceOnInv ==
  service # 0 /\ ~isBluetoothServiceOn =>
    Reported("add") \/ \E t \in Threads : RaisesServiceOn(t)

\* every remote belongs to a start so far
RemoteInv ==
  /\ service <= starts
  /\ \A o \in ObjectNames : profileRemoteMap[o] <= starts
  /\ \A t \in Threads : thread[t].remote <= starts

IInv == /\ TypeOK /\ OpInv /\ LockInv /\ TodoInv /\ EventInv
        /\ FlagInv /\ CacheInv /\ RemoteInv /\ ServiceOnInv /\ CallInv

-----------------------------------------------------------------------------
(***************************************************************************)
(* What a step does to the table of threads                                *)
(***************************************************************************)
\* thread t alone moves, to the step pc of the operation op
MovesTo(t, op, pc, name, id, remote, todo) ==
  /\ thread' \in [Threads -> ThreadRecords]
  /\ \A u \in Threads \ {t} : thread'[u] = thread[u]
  /\ thread'[t].op = op
  /\ thread'[t].pc = pc
  /\ thread'[t].name = name
  /\ thread'[t].id = id
  /\ thread'[t].remote = remote
  /\ thread'[t].todo = todo

\* thread t alone moves, to the step pc of its operation, with a remote
StepsTo(t, pc, remote) ==
  MovesTo(t, thread[t].op, pc, thread[t].name, thread[t].id, remote, thread[t].todo)

\* a record written as a whole
LEMMA RecordMoves ==
  ASSUME thread \in [Threads -> ThreadRecords], NEW t \in Threads,
         NEW op \in Ops, NEW pc \in PCs, NEW name \in ObjectNames,
         NEW id \in Nat, NEW remote \in Nat, NEW todo \in SUBSET FuncId,
         thread' = [thread EXCEPT ![t] =
                      [op |-> op, pc |-> pc, name |-> name, id |-> id,
                       remote |-> remote, todo |-> todo]]
  PROVE  MovesTo(t, op, pc, name, id, remote, todo)
<1>. DEFINE rec == [op |-> op, pc |-> pc, name |-> name, id |-> id,
                    remote |-> remote, todo |-> todo]
<1>1. rec \in ThreadRecords
  BY DEF ThreadRecords
<1>2. /\ rec.op = op /\ rec.pc = pc /\ rec.name = name /\ rec.id = id
      /\ rec.remote = remote /\ rec.todo = todo
  OBVIOUS
<1>3. thread' = [thread EXCEPT ![t] = rec]
  OBVIOUS
<1>. HIDE DEF rec
<1>4. /\ thread' \in [Threads -> ThreadRecords]
      /\ \A u \in Threads \ {t} : thread'[u] = thread[u]
      /\ thread'[t] = rec
  BY <1>1, <1>3
<1>. QED BY <1>2, <1>4 DEF MovesTo

\* a step of the operation, which may hand over a remote
LEMMA StepMoves ==
  ASSUME thread \in [Threads -> ThreadRecords], NEW t \in Threads,
         NEW pc \in PCs, NEW remote \in Nat,
         \/ Goto(t, pc) /\ remote = thread[t].remote
         \/ thread' = [thread EXCEPT ![t].pc = pc, ![t].remote = remote]
         \/ thread' = [thread EXCEPT ![t].remote = remote, ![t].pc = pc]
  PROVE  StepsTo(t, pc, remote)
<1>1. thread[t] \in ThreadRecords
  OBVIOUS
<1>2. thread[t] = [op |-> thread[t].op, pc |-> thread[t].pc, name |-> thread[t].name,
                   id |-> thread[t].id, remote |-> thread[t].remote,
                   todo |-> thread[t].todo]
  BY <1>1 DEF ThreadRecords
<1>3. thread' = [thread EXCEPT ![t] =
                      [op |-> thread[t].op, pc |-> pc, name |-> thread[t].name,
                       id |-> thread[t].id, remote |-> remote, todo |-> thread[t].todo]]
  BY <1>2 DEF Goto
<1>4. /\ thread[t].op \in Ops /\ thread[t].name \in ObjectNames
      /\ thread[t].id \in Nat /\ thread[t].todo \in SUBSET FuncId
  BY <1>1 DEF ThreadRecords
<1>. HIDE DEF Ops, PCs
<1>. QED BY <1>3, <1>4, RecordMoves DEF StepsTo

\* back to the caller
LEMMA IdleMoves ==
  ASSUME thread \in [Threads -> ThreadRecords], NEW t \in Threads,
         thread' = [thread EXCEPT ![t] = Idle]
  PROVE  MovesTo(t, "none", "idle", BLUETOOTH_HOST, 0, 0, {})
BY RecordMoves, ProfileManagerAssumption DEF Idle, Ops, PCs, Runs


\* a record and its fields
Fields(t) ==
  /\ thread \in [Threads -> ThreadRecords]
  /\ thread[t] = [op |-> thread[t].op, pc |-> thread[t].pc, name |-> thread[t].name,
                  id |-> thread[t].id, remote |-> thread[t].remote,
                  todo |-> thread[t].todo]
  /\ thread[t].op \in Ops /\ thread[t].pc \in PCs /\ thread[t].name \in ObjectNames
  /\ thread[t].id \in Nat /\ thread[t].remote \in Nat
  /\ thread[t].todo \in SUBSET FuncId

LEMMA RecordFields ==
  ASSUME TypeOK, NEW t \in Threads
  PROVE  Fields(t)
<1>1. thread \in [Threads -> ThreadRecords] /\ thread[t] \in ThreadRecords
  BY DEF TypeOK
<1>. QED BY <1>1 DEF ThreadRecords, Fields

\* the two ends of a step of a lookup
LEMMA ReturnMoves ==
  ASSUME TypeOK, NEW t \in Threads, NEW remote \in Nat, Return(t, remote)
  PROVE  StepsTo(t, "got", remote)
<1>1. "got" \in PCs
  BY DEF PCs, Lookup
<1>. QED BY <1>1, StepMoves DEF TypeOK, Return

LEMMA WithHostMoves ==
  ASSUME TypeOK, NEW t \in Threads, NEW host \in Nat, WithHost(t, host)
  PROVE  \/ StepsTo(t, "insert", host) /\ thread[t].name = BLUETOOTH_HOST
         \/ StepsTo(t, "profile", host)
<1>1. "insert" \in PCs /\ "profile" \in PCs
  BY DEF PCs, Lookup, Inside
<1>. QED BY <1>1, StepMoves DEF TypeOK, WithHost

\* the call of a function is recorded, and nothing recorded is lost
LEMMA CallFuncEffect ==
  ASSUME TypeOK, NEW t \in Threads, CallFunc(t) \/ UNCHANGED called
  PROVE  /\ called' \in [FuncId -> SUBSET Nat]
         /\ \A id \in FuncId : called[id] \subseteq called'[id]
         /\ CallFunc(t) /\ thread[t].id \in FuncId /\ thread[t].remote # 0
              => thread[t].remote \in called'[thread[t].id]
<1>1. called \in [FuncId -> SUBSET Nat] /\ thread[t].remote \in Nat
  BY RecordFields DEF TypeOK, Fields
<1>2. CASE UNCHANGED called /\ ~CallFunc(t)
  BY <1>1, <1>2
<1>3. CASE CallFunc(t)
  <2>1. called' = [called EXCEPT ![thread[t].id] =
                     IF thread[t].remote = 0 THEN called[thread[t].id]
                     ELSE called[thread[t].id] \cup {thread[t].remote}]
    BY <1>3 DEF CallFunc
  <2>. QED BY <1>1, <2>1
<1>. QED BY <1>2, <1>3

\* the last report says what the service does now
LEMMA DeathIsFollowedByStart ==
  ASSUME TypeOK, EventInv, service # 0, thread[SaThread].op = "remove"
  PROVE  Reported("add")
<1>1. Len(saEvents) \in Nat /\ Len(saEvents) > 0 /\ saEvents[Len(saEvents)] = "add"
  BY DEF EventInv, TypeOK
<1>. QED BY <1>1 DEF Reported

LEMMA SaThreadIsThread == SaThread \in Threads
BY DEF Threads

LEMMA NoThreadIsNone == NoThread \notin Threads
BY ProfileManagerAssumption DEF Threads

\* the rest of the table keeps its promises to call a function
LEMMA CallFrame ==
  ASSUME CallInv, TypeOK', NEW t \in Threads,
         \A u \in Threads \ {t} : thread'[u] = thread[u],
         service' = service,
         saEvents' = saEvents,
         \A id \in DOMAIN profileIdFuncMap' :
           id \in DOMAIN profileIdFuncMap \/ WillCall(t, id)',
         \A id \in FuncId : called[id] \subseteq called'[id] /\ refused[id] \subseteq refused'[id],
         service # 0 /\ StaleCache => StaleCache' \/ Reported("add") \/ RunsAll(t)',
         service # 0 => \A id \in DOMAIN profileIdFuncMap' :
           RunsAll(t) \/ WillCall(t, id) =>
             \/ RunsAll(t)' \/ WillCall(t, id)' \/ Met(id)'
             \/ StaleCache' \/ Reported("add") \/ \E u \in Threads \ {t} : RunsAll(u)
  PROVE  CallInv'
<1>. SUFFICES ASSUME service # 0, NEW id \in DOMAIN profileIdFuncMap',
                     ~ WillCall(t, id)'
              PROVE  Answered(id)'
  BY DEF CallInv, Answered
<1>1. Answered(id) /\ id \in FuncId
  BY DEF CallInv, TypeOK
<1>2. Reported("add")' <=> Reported("add")
  BY DEF Reported
<1>3. ASSUME NEW u \in Threads \ {t}, RunsAll(u) \/ WillCall(u, id)
      PROVE  RunsAll(u)' \/ WillCall(u, id)'
  BY <1>3 DEF RunsAll, WillCall, HoldsFuncMap
<1>4. ASSUME NEW u \in Threads \ {t}, RunsAll(u)
      PROVE  RunsAll(u)'
  BY <1>4 DEF RunsAll
<1>5. Met(id) => Met(id)'
  BY <1>1 DEF Met
<1>. QED BY <1>1, <1>2, <1>3, <1>4, <1>5 DEF Answered


-----------------------------------------------------------------------------
(***************************************************************************)
(* GetProfileRemote                                                        *)
(***************************************************************************)
LEMMA FindCachedStep ==
  ASSUME IInv, NEW t \in Threads, FindCached(t)
  PROVE  IInv'
<1>. USE SaThreadIsThread, NoThreadIsNone DEF IInv
<1>1. \/ StepsTo(t, "got", profileRemoteMap[thread[t].name])
           /\ UNCHANGED getProfileRemoteMutex
      \/ StepsTo(t, "host", thread[t].remote) /\ getProfileRemoteMutex' = t
           /\ profileRemoteMap[thread[t].name] = 0
  BY StepMoves DEF PCs, Lookup, Inside, AddSteps, RemoveSteps, Return, TypeOK,
       ThreadRecords, FindCached
<1>. starts \in Nat /\ thread[t].name \in ObjectNames /\ BLUETOOTH_HOST \in ObjectNames
  BY RecordFields, ProfileManagerAssumption DEF TypeOK, Fields
<1>. USE <1>1 DEF StepsTo, MovesTo
<1>2. TypeOK'
  BY DEF TypeOK, FindCached, serviceVars, stateVars, lockVars, historyVars
<1>3. OpInv'
  BY DEF OpInv, OpOK, FindCached, Inside, Lookup, AddSteps, RemoveSteps, Runs
<1>4. LockInv'
  BY DEF LockInv, FindCached, lockVars, HoldsRemoteMutex, HoldsFuncMap, Inside, Lookup,
       Runs, OpInv, OpOK, AddSteps, RemoveSteps
<1>5. TodoInv'
  BY DEF TodoInv, FindCached, stateVars, HoldsFuncMap, Inside, Lookup, Runs, OpInv, OpOK,
       AddSteps, RemoveSteps
<1>6. EventInv'
  BY DEF EventInv, FindCached, serviceVars
<1>7. FlagInv'
  BY DEF FlagInv, AddPending, Reported, FindCached, serviceVars, stateVars
<1>8. CacheInv'
  BY DEF CacheInv, RemovePending, Reported, FindCached, serviceVars, stateVars, historyVars
<1>9. RemoteInv'
  BY DEF RemoteInv, FindCached, serviceVars, stateVars
<1>10. ServiceOnInv'
  BY DEF ServiceOnInv, Reported, RaisesServiceOn, FindCached, serviceVars, stateVars,
       RemoveSteps, AddSteps
<1>11. CallInv'
  <2>1. ASSUME service # 0, NEW i \in DOMAIN profileIdFuncMap', RunsAll(t) \/ WillCall(t, i)
        PROVE  RunsAll(t)' \/ WillCall(t, i)' \/ StaleCache' \/ Met(i)'
    BY <2>1 DEF FindCached, RunsAll, WillCall, HoldsFuncMap, serviceVars, stateVars,
         historyVars, RemoveSteps, AddSteps, Inside, Lookup, OpInv, OpOK, Runs, StaleCache
  <2>. QED BY <1>2, <2>1, CallFrame DEF FindCached, serviceVars, stateVars, historyVars,
       StaleCache
<1>. QED BY <1>2, <1>3, <1>4, <1>5, <1>6, <1>7, <1>8, <1>9, <1>10, <1>11

LEMMA GetHostRemoteStep ==
  ASSUME IInv, NEW t \in Threads, GetHostRemote(t)
  PROVE  IInv'
<1>. USE SaThreadIsThread, NoThreadIsNone DEF IInv
<1>1. \/ StepsTo(t, "insert", profileRemoteMap[BLUETOOTH_HOST])
           /\ profileRemoteMap[BLUETOOTH_HOST] # 0
           /\ UNCHANGED <<getProfileRemoteMutex, needCheckMutex>>
      \/ StepsTo(t, "profile", profileRemoteMap[BLUETOOTH_HOST])
           /\ profileRemoteMap[BLUETOOTH_HOST] # 0
           /\ UNCHANGED <<getProfileRemoteMutex, needCheckMutex>>
      \/ StepsTo(t, "got", 0) /\ ~isNeedCheckBluetoothServiceOn
           /\ getProfileRemoteMutex' = NoThread /\ UNCHANGED needCheckMutex
      \/ StepsTo(t, "checked", service) /\ isNeedCheckBluetoothServiceOn
           /\ needCheckMutex = NoThread /\ needCheckMutex' = t
           /\ UNCHANGED getProfileRemoteMutex /\ profileRemoteMap[BLUETOOTH_HOST] = 0
  <2>0. profileRemoteMap[BLUETOOTH_HOST] \in Nat /\ service \in Nat /\ "checked" \in PCs
    BY ProfileManagerAssumption DEF TypeOK, PCs, Lookup, Inside
  <2>1. CASE /\ profileRemoteMap[BLUETOOTH_HOST] # 0
             /\ WithHost(t, profileRemoteMap[BLUETOOTH_HOST])
             /\ UNCHANGED <<getProfileRemoteMutex, needCheckMutex>>
    BY <2>0, <2>1, WithHostMoves
  <2>2. CASE /\ ~isNeedCheckBluetoothServiceOn
             /\ Return(t, 0)
             /\ getProfileRemoteMutex' = NoThread
             /\ UNCHANGED needCheckMutex
    BY <2>2, ReturnMoves
  <2>3. CASE /\ profileRemoteMap[BLUETOOTH_HOST] = 0
             /\ needCheckMutex = NoThread
             /\ isNeedCheckBluetoothServiceOn
             /\ needCheckMutex' = t
             /\ thread' = [thread EXCEPT ![t].pc = "checked", ![t].remote = service]
             /\ UNCHANGED getProfileRemoteMutex
    BY <2>0, <2>3, StepMoves DEF TypeOK
  <2>. QED BY <2>1, <2>2, <2>3 DEF GetHostRemote
<1>. starts \in Nat /\ thread[t].name \in ObjectNames /\ BLUETOOTH_HOST \in ObjectNames
  BY RecordFields, ProfileManagerAssumption DEF TypeOK, Fields
<1>. USE <1>1 DEF StepsTo, MovesTo
<1>2. TypeOK'
  BY DEF TypeOK, GetHostRemote, serviceVars, stateVars, lockVars, historyVars
<1>3. OpInv'
  BY DEF OpInv, OpOK, GetHostRemote, Inside, Lookup, AddSteps, RemoveSteps, Runs
<1>4. LockInv'
  BY DEF LockInv, GetHostRemote, lockVars, HoldsRemoteMutex, HoldsFuncMap, Inside, Lookup,
       Runs, OpInv, OpOK, AddSteps, RemoveSteps
<1>5. TodoInv'
  BY DEF TodoInv, GetHostRemote, stateVars, HoldsFuncMap, Inside, Lookup, Runs, OpInv,
       OpOK, AddSteps, RemoveSteps
<1>6. EventInv'
  BY DEF EventInv, GetHostRemote, serviceVars
<1>7. FlagInv'
  BY DEF FlagInv, AddPending, Reported, GetHostRemote, serviceVars, stateVars
<1>8. CacheInv'
  BY DEF CacheInv, RemovePending, Reported, GetHostRemote, serviceVars, stateVars,
       historyVars
<1>9. RemoteInv'
  BY DEF RemoteInv, GetHostRemote, serviceVars, stateVars
<1>10. ServiceOnInv'
  BY DEF ServiceOnInv, Reported, RaisesServiceOn, GetHostRemote, serviceVars, stateVars,
       RemoveSteps, AddSteps
<1>11. CallInv'
  <2>1. ASSUME service # 0, NEW i \in DOMAIN profileIdFuncMap', RunsAll(t) \/ WillCall(t, i)
        PROVE  \/ WillCall(t, i)' \/ StaleCache'
               \/ Reported("add") \/ \E u \in Threads \ {t} : RunsAll(u)
    <3>1. WillCall(t, i) /\ thread[t].pc = "host"
      BY <2>1 DEF GetHostRemote, RunsAll, RemoveSteps, AddSteps
    <3>2. CASE HoldsFuncMap(t) /\ thread[t].op # "turnOn" /\ i \in thread[t].todo
      BY <3>1, <3>2 DEF WillCall, HoldsFuncMap, Lookup, Inside
    <3>3. CASE thread[t].op \in {"register", "add", "update"} /\ thread[t].id = i
      <4>1. CASE thread'[t].pc \in {"insert", "profile"}
        BY <3>3, <4>1 DEF WillCall, StaleCache, GetHostRemote, serviceVars, stateVars
      <4>2. CASE thread'[t].pc = "got"
        BY <2>1, <3>1, <4>2 DEF FlagInv, AddPending, RunsAll, OpInv, OpOK, AddSteps
      <4>3. CASE thread'[t].pc = "checked"
        BY <3>3, <4>3 DEF WillCall, GetHostRemote, serviceVars
      <4>. QED BY <4>1, <4>2, <4>3
    <3>. QED BY <3>1, <3>2, <3>3 DEF WillCall
  <2>. QED BY <1>2, <2>1, CallFrame DEF GetHostRemote, serviceVars, stateVars,
       historyVars, StaleCache
<1>. QED BY <1>2, <1>3, <1>4, <1>5, <1>6, <1>7, <1>8, <1>9, <1>10, <1>11

LEMMA HostCheckedStep ==
  ASSUME IInv, NEW t \in Threads, HostChecked(t)
  PROVE  IInv'
<1>. USE SaThreadIsThread, NoThreadIsNone DEF IInv
<1>1. \/ StepsTo(t, "got", 0) /\ thread[t].remote = 0 /\ getProfileRemoteMutex' = NoThread
           /\ isNeedCheckBluetoothServiceOn' = FALSE
      \/ StepsTo(t, "insert", thread[t].remote) /\ thread[t].remote # 0
           /\ UNCHANGED <<getProfileRemoteMutex, isNeedCheckBluetoothServiceOn>>
      \/ StepsTo(t, "profile", thread[t].remote) /\ thread[t].remote # 0
           /\ UNCHANGED <<getProfileRemoteMutex, isNeedCheckBluetoothServiceOn>>
  BY StepMoves DEF PCs, Lookup, Inside, AddSteps, RemoveSteps, Return, WithHost, TypeOK,
       ThreadRecords, HostChecked
<1>. starts \in Nat /\ thread[t].name \in ObjectNames /\ BLUETOOTH_HOST \in ObjectNames
  BY RecordFields, ProfileManagerAssumption DEF TypeOK, Fields
<1>. USE <1>1 DEF StepsTo, MovesTo
<1>2. TypeOK'
  BY DEF TypeOK, HostChecked, serviceVars, stateVars, lockVars, historyVars
<1>3. OpInv'
  BY DEF OpInv, OpOK, HostChecked, Inside, Lookup, AddSteps, RemoveSteps, Runs
<1>4. LockInv'
  BY DEF LockInv, HostChecked, lockVars, HoldsRemoteMutex, HoldsFuncMap, Inside, Lookup,
       Runs, OpInv, OpOK, AddSteps, RemoveSteps
<1>5. TodoInv'
  BY DEF TodoInv, HostChecked, stateVars, HoldsFuncMap, Inside, Lookup, Runs, OpInv, OpOK,
       AddSteps, RemoveSteps
<1>6. EventInv'
  BY DEF EventInv, HostChecked, serviceVars
<1>7. FlagInv'
  BY DEF FlagInv, AddPending, Reported, LockInv, HoldsRemoteMutex, Inside, HostChecked,
       serviceVars, stateVars
<1>8. CacheInv'
  BY DEF CacheInv, RemovePending, Reported, HostChecked, serviceVars, stateVars, historyVars
<1>9. RemoteInv'
  BY DEF RemoteInv, HostChecked, serviceVars, stateVars
<1>10. ServiceOnInv'
  BY DEF ServiceOnInv, Reported, RaisesServiceOn, HostChecked, serviceVars, stateVars,
       RemoveSteps, AddSteps
<1>11. CallInv'
  <2>1. ASSUME service # 0, NEW i \in DOMAIN profileIdFuncMap', RunsAll(t) \/ WillCall(t, i)
        PROVE  RunsAll(t)' \/ WillCall(t, i)' \/ StaleCache' \/ Met(i)'
    BY <2>1 DEF HostChecked, RunsAll, WillCall, HoldsFuncMap, serviceVars, stateVars,
         historyVars, RemoveSteps, AddSteps, Inside, Lookup, OpInv, OpOK, Runs
  <2>. QED BY <1>2, <2>1, CallFrame DEF HostChecked, serviceVars, stateVars, historyVars,
       StaleCache
<1>. QED BY <1>2, <1>3, <1>4, <1>5, <1>6, <1>7, <1>8, <1>9, <1>10, <1>11

LEMMA AskHostStep ==
  ASSUME IInv, NEW t \in Threads, AskHost(t)
  PROVE  IInv'
<1>. USE SaThreadIsThread, NoThreadIsNone DEF IInv
<1>1. \/ StepsTo(t, "insert", thread[t].remote) /\ UNCHANGED getProfileRemoteMutex
      \/ StepsTo(t, "got", 0) /\ getProfileRemoteMutex' = NoThread
  BY StepMoves DEF PCs, Lookup, Inside, AddSteps, RemoveSteps, Return, TypeOK,
       ThreadRecords, AskHost
<1>. starts \in Nat /\ thread[t].name \in ObjectNames /\ BLUETOOTH_HOST \in ObjectNames
  BY RecordFields, ProfileManagerAssumption DEF TypeOK, Fields
<1>. USE <1>1 DEF StepsTo, MovesTo
<1>12. /\ refused' \in [FuncId -> SUBSET Nat]
       /\ \A i \in FuncId : refused[i] \subseteq refused'[i]
       /\ UNCHANGED refused \/ NoteRefusal(t)
       /\ thread'[t].pc = "got" => NoteRefusal(t)
  <2>1. CASE UNCHANGED refused /\ Goto(t, "insert")
    BY <2>1 DEF TypeOK, Goto
  <2>2. CASE NoteRefusal(t)
    BY <2>2 DEF NoteRefusal, TypeOK
  <2>. QED BY <2>1, <2>2 DEF AskHost
<1>2. TypeOK'
  BY <1>12 DEF TypeOK, AskHost, serviceVars, stateVars, lockVars
<1>3. OpInv'
  BY DEF OpInv, OpOK, AskHost, Inside, Lookup, AddSteps, RemoveSteps, Runs
<1>4. LockInv'
  BY DEF LockInv, AskHost, lockVars, HoldsRemoteMutex, HoldsFuncMap, Inside, Lookup, Runs,
       OpInv, OpOK, AddSteps, RemoveSteps
<1>5. TodoInv'
  BY DEF TodoInv, AskHost, stateVars, HoldsFuncMap, Inside, Lookup, Runs, OpInv, OpOK,
       AddSteps, RemoveSteps
<1>6. EventInv'
  BY DEF EventInv, AskHost, serviceVars
<1>7. FlagInv'
  BY DEF FlagInv, AddPending, Reported, AskHost, serviceVars, stateVars
<1>8. CacheInv'
  BY DEF CacheInv, RemovePending, Reported, AskHost, serviceVars, stateVars, historyVars
<1>9. RemoteInv'
  BY DEF RemoteInv, AskHost, serviceVars, stateVars
<1>10. ServiceOnInv'
  BY DEF ServiceOnInv, Reported, RaisesServiceOn, AskHost, serviceVars, stateVars,
       RemoveSteps, AddSteps
<1>11. CallInv'
  <2>1. ASSUME service # 0, NEW i \in DOMAIN profileIdFuncMap', RunsAll(t) \/ WillCall(t, i)
        PROVE  RunsAll(t)' \/ WillCall(t, i)' \/ Met(i)'
    <3>1. /\ thread[t].pc = "profile" /\ service' = service /\ i \in FuncId
          /\ UNCHANGED profileIdFuncMap
      BY DEF AskHost, serviceVars, stateVars, TypeOK
    <3>2. CASE WillCall(t, i)' \/ RunsAll(t)'
      BY <3>2
    <3>3. CASE /\ thread[t].op \in {"register", "add", "update"}
               /\ thread[t].id = i /\ thread[t].remote = service
      <4>1. CASE thread'[t].pc = "got"
        BY <1>12, <3>1, <3>3, <4>1 DEF NoteRefusal, Met, TypeOK
      <4>2. CASE thread'[t].pc = "insert"
        BY <3>1, <3>3, <4>2 DEF WillCall
      <4>. QED BY <4>1, <4>2
    <3>. QED BY <2>1, <3>1, <3>2, <3>3 DEF RunsAll, WillCall, HoldsFuncMap, RemoveSteps,
           AddSteps, Inside, Lookup, Runs
  <2>2. \A i \in FuncId : called[i] \subseteq called'[i] /\ refused[i] \subseteq refused'[i]
    BY <1>12 DEF AskHost
  <2>. QED BY <1>2, <2>1, <2>2, CallFrame DEF AskHost, serviceVars, stateVars, StaleCache
<1>. QED BY <1>2, <1>3, <1>4, <1>5, <1>6, <1>7, <1>8, <1>9, <1>10, <1>11

LEMMA InsertRemoteStep ==
  ASSUME IInv, NEW t \in Threads, InsertRemote(t)
  PROVE  IInv'
<1>. USE SaThreadIsThread, NoThreadIsNone DEF IInv
<1>1. StepsTo(t, "got", thread[t].remote)
  BY StepMoves DEF PCs, Lookup, Inside, AddSteps, RemoveSteps, Return, TypeOK,
       ThreadRecords, InsertRemote
<1>. starts \in Nat /\ thread[t].name \in ObjectNames /\ BLUETOOTH_HOST \in ObjectNames
  BY RecordFields, ProfileManagerAssumption DEF TypeOK, Fields
<1>. USE <1>1 DEF StepsTo, MovesTo
<1>2. TypeOK'
  <2>1. profileRemoteMap' \in [ObjectNames -> Nat]
    BY RecordFields DEF InsertRemote, TypeOK, Fields
  <2>. QED BY <2>1 DEF TypeOK, InsertRemote, serviceVars, historyVars
<1>3. OpInv'
  BY DEF OpInv, OpOK, InsertRemote, Inside, Lookup, AddSteps, RemoveSteps, Runs
<1>4. LockInv'
  BY DEF LockInv, InsertRemote, lockVars, HoldsRemoteMutex, HoldsFuncMap, Inside, Lookup,
       Runs, OpInv, OpOK, AddSteps, RemoveSteps
<1>5. TodoInv'
  BY DEF TodoInv, InsertRemote, stateVars, HoldsFuncMap, Inside, Lookup, Runs, OpInv,
       OpOK, AddSteps, RemoveSteps
<1>6. EventInv'
  BY DEF EventInv, InsertRemote, serviceVars
<1>7. FlagInv'
  BY DEF FlagInv, AddPending, Reported, LockInv, HoldsRemoteMutex, Inside, InsertRemote,
       serviceVars, stateVars
<1>8. CacheInv'
  BY DEF CacheInv, RemovePending, Reported, InsertRemote, serviceVars, stateVars,
       historyVars
<1>9. RemoteInv'
  BY DEF RemoteInv, InsertRemote, serviceVars, stateVars
<1>10. ServiceOnInv'
  BY DEF ServiceOnInv, Reported, RaisesServiceOn, InsertRemote, serviceVars, stateVars,
       RemoveSteps, AddSteps
<1>11. CallInv'
  <2>1. ASSUME service # 0, NEW i \in DOMAIN profileIdFuncMap', RunsAll(t) \/ WillCall(t, i)
        PROVE  RunsAll(t)' \/ WillCall(t, i)' \/ StaleCache' \/ Met(i)'
    BY <2>1 DEF InsertRemote, RunsAll, WillCall, HoldsFuncMap, serviceVars, stateVars,
         historyVars, RemoveSteps, AddSteps, Inside, Lookup, OpInv, OpOK, Runs
  <2>. QED BY <1>2, <2>1, CallFrame DEF InsertRemote, serviceVars, stateVars, historyVars,
       StaleCache
<1>. QED BY <1>2, <1>3, <1>4, <1>5, <1>6, <1>7, <1>8, <1>9, <1>10, <1>11

-----------------------------------------------------------------------------
(***************************************************************************)
(* The operations of the clients                                           *)
(***************************************************************************)
LEMMA GetRemoteProxyStep ==
  ASSUME IInv, NEW t \in Clients, NEW name \in ObjectNames, GetRemoteProxy(t, name)
  PROVE  IInv'
<1>. USE SaThreadIsThread, NoThreadIsNone DEF IInv
<1>0. t \in Threads /\ t # SaThread
  BY ProfileManagerAssumption DEF Threads
<1>1. MovesTo(t, "get", "find", name, thread[t].id, thread[t].remote, thread[t].todo)
  <2>0. Fields(t)
    BY <1>0, RecordFields
  <2>1. thread' = [thread EXCEPT ![t] =
             [op |-> "get", pc |-> "find", name |-> name, id |-> thread[t].id,
              remote |-> thread[t].remote, todo |-> thread[t].todo]]
    BY <1>0, <2>0 DEF Fields, GetRemoteProxy
  <2>2. "find" \in PCs /\ "get" \in Ops
    BY DEF PCs, Lookup, Ops, Runs
  <2>. QED BY <1>0, <2>0, <2>1, <2>2, RecordMoves DEF Fields
<1>. starts \in Nat /\ thread[t].name \in ObjectNames /\ BLUETOOTH_HOST \in ObjectNames
  BY <1>0, RecordFields, ProfileManagerAssumption DEF TypeOK, Fields
<1>. USE <1>0, <1>1 DEF StepsTo, MovesTo
<1>2. TypeOK'
  BY DEF TypeOK, GetRemoteProxy, serviceVars, stateVars, lockVars, historyVars
<1>3. OpInv'
  BY DEF OpInv, OpOK, GetRemoteProxy, Inside, Lookup, AddSteps, RemoveSteps, Runs
<1>4. LockInv'
  BY DEF LockInv, GetRemoteProxy, lockVars, HoldsRemoteMutex, HoldsFuncMap, Inside,
       Lookup, Runs, OpInv, OpOK, AddSteps, RemoveSteps
<1>5. TodoInv'
  BY DEF TodoInv, GetRemoteProxy, stateVars, HoldsFuncMap, Inside, Lookup, Runs, OpInv,
       OpOK, AddSteps, RemoveSteps
<1>6. EventInv'
  BY DEF EventInv, GetRemoteProxy, serviceVars
<1>7. FlagInv'
  BY DEF FlagInv, AddPending, Reported, GetRemoteProxy, serviceVars, stateVars
<1>8. CacheInv'
  BY DEF CacheInv, RemovePending, Reported, GetRemoteProxy, serviceVars, stateVars,
       historyVars
<1>9. RemoteInv'
  BY DEF RemoteInv, GetRemoteProxy, serviceVars, stateVars
<1>10. ServiceOnInv'
  BY DEF ServiceOnInv, Reported, RaisesServiceOn, GetRemoteProxy, serviceVars, stateVars,
       RemoveSteps, AddSteps
<1>11. CallInv'
  <2>1. ASSUME service # 0, NEW i \in DOMAIN profileIdFuncMap', RunsAll(t) \/ WillCall(t, i)
        PROVE  RunsAll(t)' \/ WillCall(t, i)' \/ StaleCache' \/ Met(i)'
    BY <2>1 DEF GetRemoteProxy, RunsAll, WillCall, HoldsFuncMap, serviceVars, stateVars,
         historyVars, RemoveSteps, AddSteps, Inside, Lookup, OpInv, OpOK, Runs
  <2>. QED BY <1>2, <2>1, CallFrame DEF GetRemoteProxy, serviceVars, stateVars,
       historyVars, StaleCache
<1>. QED BY <1>2, <1>3, <1>4, <1>5, <1>6, <1>7, <1>8, <1>9, <1>10, <1>11

LEMMA RegisterFuncStep ==
  ASSUME IInv, NEW t \in Clients, NEW name \in ObjectNames, RegisterFunc(t, name)
  PROVE  IInv'
<1>. USE SaThreadIsThread, NoThreadIsNone DEF IInv
<1>0. t \in Threads /\ t # SaThread
  BY ProfileManagerAssumption DEF Threads
<1>1. MovesTo(t, "register", "registered", name, registerValidId + 1,
               thread[t].remote, thread[t].todo)
  <2>0. Fields(t)
    BY <1>0, RecordFields
  <2>1. thread' = [thread EXCEPT ![t] =
             [op |-> "register", pc |-> "registered", name |-> name,
              id |-> registerValidId + 1,
              remote |-> thread[t].remote, todo |-> thread[t].todo]]
    BY <1>0, <2>0 DEF Fields, RegisterFunc
  <2>2. "registered" \in PCs /\ "register" \in Ops /\ registerValidId + 1 \in Nat
    BY DEF PCs, Ops, Runs, TypeOK
  <2>. QED BY <1>0, <2>0, <2>1, <2>2, RecordMoves DEF Fields
<1>. starts \in Nat /\ thread[t].name \in ObjectNames /\ BLUETOOTH_HOST \in ObjectNames
  BY <1>0, RecordFields, ProfileManagerAssumption DEF TypeOK, Fields
<1>. USE <1>0, <1>1 DEF StepsTo, MovesTo
<1>12. registerValidId + 1 \in FuncId /\ registerValidId \in Nat
  BY ProfileManagerAssumption DEF RegisterFunc, FuncId, TypeOK
<1>13. /\ DOMAIN profileIdFuncMap' = DOMAIN profileIdFuncMap \cup {registerValidId + 1}
      /\ profileIdFuncMap' \in [DOMAIN profileIdFuncMap' -> ObjectNames]
  BY DEF RegisterFunc, TypeOK
<1>. USE <1>12, <1>13
<1>2. TypeOK'
  <2>1. /\ registerValidId' \in Nat /\ thread' \in [Threads -> ThreadRecords]
        /\ DOMAIN profileIdFuncMap' \subseteq FuncId
    BY DEF RegisterFunc, TypeOK
  <2>2. UNCHANGED <<service, starts, saEvents, profileRemoteMap, isBluetoothServiceOn,
                    isNeedCheckBluetoothServiceOn, getProfileRemoteMutex, needCheckMutex,
                    funcMapMutex, updates, called, refused, overtaken>>
    BY DEF RegisterFunc, serviceVars, lockVars, historyVars
  <2>. QED BY <2>1, <2>2 DEF TypeOK
<1>3. OpInv'
  BY DEF OpInv, OpOK, RegisterFunc, Inside, Lookup, AddSteps, RemoveSteps, Runs
<1>4. LockInv'
  BY DEF LockInv, RegisterFunc, lockVars, HoldsRemoteMutex, HoldsFuncMap, Inside, Lookup,
       Runs, OpInv, OpOK, AddSteps, RemoveSteps
<1>5. TodoInv'
  BY DEF TodoInv, RegisterFunc, stateVars, HoldsFuncMap, Inside, Lookup, Runs, OpInv,
       OpOK, AddSteps, RemoveSteps
<1>6. EventInv'
  BY DEF EventInv, RegisterFunc, serviceVars
<1>7. FlagInv'
  BY DEF FlagInv, AddPending, Reported, RegisterFunc, serviceVars, stateVars
<1>8. CacheInv'
  BY DEF CacheInv, RemovePending, Reported, RegisterFunc, serviceVars, stateVars,
       historyVars
<1>9. RemoteInv'
  BY DEF RemoteInv, RegisterFunc, serviceVars, stateVars
<1>10. ServiceOnInv'
  BY DEF ServiceOnInv, Reported, RaisesServiceOn, RegisterFunc, serviceVars, stateVars,
       RemoveSteps, AddSteps
<1>11. CallInv'
  <2>1. ASSUME service # 0, NEW i \in DOMAIN profileIdFuncMap', RunsAll(t) \/ WillCall(t, i)
        PROVE  RunsAll(t)' \/ WillCall(t, i)' \/ StaleCache' \/ Met(i)'
    BY <2>1 DEF RegisterFunc, RunsAll, WillCall, HoldsFuncMap, serviceVars, stateVars,
         historyVars, RemoveSteps, AddSteps, Inside, Lookup, OpInv, OpOK, Runs
  <2>2. \A i \in DOMAIN profileIdFuncMap' :
          i \in DOMAIN profileIdFuncMap \/ WillCall(t, i)'
    BY DEF WillCall
  <2>. QED BY <1>2, <2>1, <2>2, CallFrame DEF RegisterFunc, serviceVars, stateVars,
       historyVars, StaleCache
<1>. QED BY <1>2, <1>3, <1>4, <1>5, <1>6, <1>7, <1>8, <1>9, <1>10, <1>11

LEMMA RegisterLooksUpStep ==
  ASSUME IInv, NEW t \in Threads, RegisterLooksUp(t)
  PROVE  IInv'
<1>. USE SaThreadIsThread, NoThreadIsNone DEF IInv
<1>1. \/ StepsTo(t, "find", thread[t].remote)
      \/ MovesTo(t, "none", "idle", BLUETOOTH_HOST, 0, 0, {}) /\ ~isBluetoothServiceOn
  BY StepMoves, IdleMoves DEF PCs, Lookup, TypeOK, ThreadRecords, RegisterLooksUp
<1>. starts \in Nat /\ thread[t].name \in ObjectNames /\ BLUETOOTH_HOST \in ObjectNames
  BY RecordFields, ProfileManagerAssumption DEF TypeOK, Fields
<1>. USE <1>1 DEF StepsTo, MovesTo
<1>2. TypeOK'
  BY DEF TypeOK, RegisterLooksUp, serviceVars, stateVars, lockVars, historyVars
<1>3. OpInv'
  BY DEF OpInv, OpOK, RegisterLooksUp, Inside, Lookup, AddSteps, RemoveSteps, Runs
<1>4. LockInv'
  BY DEF LockInv, RegisterLooksUp, lockVars, HoldsRemoteMutex, HoldsFuncMap, Inside,
       Lookup, Runs, OpInv, OpOK, AddSteps, RemoveSteps
<1>5. TodoInv'
  BY DEF TodoInv, RegisterLooksUp, stateVars, HoldsFuncMap, Inside, Lookup, Runs, OpInv,
       OpOK, AddSteps, RemoveSteps
<1>6. EventInv'
  BY DEF EventInv, RegisterLooksUp, serviceVars
<1>7. FlagInv'
  BY DEF FlagInv, AddPending, Reported, RegisterLooksUp, serviceVars, stateVars
<1>8. CacheInv'
  BY DEF CacheInv, RemovePending, Reported, RegisterLooksUp, serviceVars, stateVars,
       historyVars
<1>9. RemoteInv'
  BY DEF RemoteInv, RegisterLooksUp, serviceVars, stateVars
<1>10. ServiceOnInv'
  BY DEF ServiceOnInv, Reported, RaisesServiceOn, RegisterLooksUp, serviceVars, stateVars,
       RemoveSteps, AddSteps
<1>11. CallInv'
  <2>1. ASSUME service # 0, NEW i \in DOMAIN profileIdFuncMap', RunsAll(t) \/ WillCall(t, i)
        PROVE  WillCall(t, i)' \/ Reported("add") \/ \E u \in Threads \ {t} : RunsAll(u)
    <3>1. CASE thread'[t].pc = "find"
      BY <2>1, <3>1 DEF RegisterLooksUp, RunsAll, WillCall, HoldsFuncMap, RemoveSteps,
           AddSteps, Inside, Lookup
    <3>2. CASE ~isBluetoothServiceOn
      BY <2>1, <3>2 DEF RegisterLooksUp, ServiceOnInv, RaisesServiceOn, RunsAll, OpInv,
           OpOK, RemoveSteps, AddSteps
    <3>. QED BY <3>1, <3>2
  <2>. QED BY <1>2, <2>1, CallFrame DEF RegisterLooksUp, serviceVars, stateVars,
       historyVars, StaleCache
<1>. QED BY <1>2, <1>3, <1>4, <1>5, <1>6, <1>7, <1>8, <1>9, <1>10, <1>11

LEMMA DeregisterFuncStep ==
  ASSUME IInv, NEW t \in Clients, NEW id \in FuncId, DeregisterFunc(t, id)
  PROVE  IInv'
<1>. USE SaThreadIsThread, NoThreadIsNone DEF IInv
<1>0. t \in Threads /\ t # SaThread
  BY ProfileManagerAssumption DEF Threads
<1>1. UNCHANGED thread
  BY DEF DeregisterFunc
<1>. starts \in Nat /\ thread[t].name \in ObjectNames /\ BLUETOOTH_HOST \in ObjectNames
  BY <1>0, RecordFields, ProfileManagerAssumption DEF TypeOK, Fields
<1>. USE <1>0, <1>1 DEF StepsTo, MovesTo
<1>2. TypeOK'
  BY DEF TypeOK, DeregisterFunc, serviceVars, stateVars, lockVars, historyVars
<1>3. OpInv'
  BY DEF OpInv, OpOK, DeregisterFunc, Inside, Lookup, AddSteps, RemoveSteps, Runs
<1>4. LockInv'
  BY DEF LockInv, DeregisterFunc, lockVars, HoldsRemoteMutex, HoldsFuncMap, Inside,
       Lookup, Runs, OpInv, OpOK, AddSteps, RemoveSteps
<1>5. TodoInv'
  BY DEF TodoInv, LockInv, HoldsFuncMap, DeregisterFunc
<1>6. EventInv'
  BY DEF EventInv, DeregisterFunc, serviceVars
<1>7. FlagInv'
  BY DEF FlagInv, AddPending, Reported, DeregisterFunc, serviceVars, stateVars
<1>8. CacheInv'
  BY DEF CacheInv, RemovePending, Reported, DeregisterFunc, serviceVars, stateVars,
       historyVars
<1>9. RemoteInv'
  BY DEF RemoteInv, DeregisterFunc, serviceVars, stateVars
<1>10. ServiceOnInv'
  BY DEF ServiceOnInv, Reported, RaisesServiceOn, DeregisterFunc, serviceVars, stateVars,
       RemoveSteps, AddSteps
<1>11. CallInv'
  <2>1. ASSUME service # 0, NEW i \in DOMAIN profileIdFuncMap', RunsAll(t) \/ WillCall(t, i)
        PROVE  RunsAll(t)' \/ WillCall(t, i)' \/ StaleCache' \/ Met(i)'
    BY <2>1 DEF DeregisterFunc, RunsAll, WillCall, HoldsFuncMap, serviceVars, stateVars,
         historyVars, RemoveSteps, AddSteps, Inside, Lookup, OpInv, OpOK, Runs
  <2>. QED BY <1>2, <2>1, CallFrame DEF DeregisterFunc, serviceVars, stateVars,
       historyVars, StaleCache
<1>. QED BY <1>2, <1>3, <1>4, <1>5, <1>6, <1>7, <1>8, <1>9, <1>10, <1>11

LEMMA ClientGotRemoteStep ==
  ASSUME IInv, NEW t \in Threads, ClientGotRemote(t)
  PROVE  IInv'
<1>. USE SaThreadIsThread, NoThreadIsNone DEF IInv
<1>1. MovesTo(t, "none", "idle", BLUETOOTH_HOST, 0, 0, {})
  BY IdleMoves DEF TypeOK, ThreadRecords, ClientGotRemote
<1>. starts \in Nat /\ thread[t].name \in ObjectNames /\ BLUETOOTH_HOST \in ObjectNames
  BY RecordFields, ProfileManagerAssumption DEF TypeOK, Fields
<1>. USE <1>1 DEF StepsTo, MovesTo
<1>2. TypeOK'
  <2>1. called' \in [FuncId -> SUBSET Nat]
    BY CallFuncEffect DEF ClientGotRemote
  <2>. QED BY <2>1 DEF TypeOK, ClientGotRemote, serviceVars, stateVars, lockVars
<1>3. OpInv'
  BY DEF OpInv, OpOK, ClientGotRemote, Inside, Lookup, AddSteps, RemoveSteps, Runs
<1>4. LockInv'
  BY DEF LockInv, ClientGotRemote, lockVars, HoldsRemoteMutex, HoldsFuncMap, Inside,
       Lookup, Runs, OpInv, OpOK, AddSteps, RemoveSteps
<1>5. TodoInv'
  BY DEF TodoInv, ClientGotRemote, stateVars, HoldsFuncMap, Inside, Lookup, Runs, OpInv,
       OpOK, AddSteps, RemoveSteps
<1>6. EventInv'
  BY DEF EventInv, ClientGotRemote, serviceVars
<1>7. FlagInv'
  BY DEF FlagInv, AddPending, Reported, ClientGotRemote, serviceVars, stateVars
<1>8. CacheInv'
  BY DEF CacheInv, RemovePending, Reported, ClientGotRemote, serviceVars, stateVars,
       historyVars
<1>9. RemoteInv'
  BY DEF RemoteInv, ClientGotRemote, serviceVars, stateVars
<1>10. ServiceOnInv'
  BY DEF ServiceOnInv, Reported, RaisesServiceOn, ClientGotRemote, serviceVars, stateVars,
       RemoveSteps, AddSteps
<1>11. CallInv'
  <2>1. \A i \in FuncId : called[i] \subseteq called'[i]
    BY CallFuncEffect DEF ClientGotRemote
  <2>2. ASSUME service # 0, NEW i \in DOMAIN profileIdFuncMap', RunsAll(t) \/ WillCall(t, i)
        PROVE  WillCall(t, i)' \/ Met(i)'
    <3>1. thread[t].op = "register" /\ thread[t].remote = service /\ thread[t].id = i
      BY <2>2 DEF ClientGotRemote, RunsAll, WillCall, HoldsFuncMap, Runs, RemoveSteps,
           AddSteps
    <3>2. CallFunc(t) /\ i \in FuncId /\ service' = service
      BY <3>1 DEF ClientGotRemote, TypeOK, serviceVars, stateVars
    <3>. QED BY <2>2, <3>1, <3>2, CallFuncEffect DEF Met
  <2>. QED BY <1>2, <2>1, <2>2, CallFrame DEF ClientGotRemote, serviceVars, stateVars,
       StaleCache
<1>. QED BY <1>2, <1>3, <1>4, <1>5, <1>6, <1>7, <1>8, <1>9, <1>10, <1>11

-----------------------------------------------------------------------------
(***************************************************************************)
(* OnAddSystemAbility, and the run of the registered functions             *)
(***************************************************************************)
LEMMA AddServiceOnStep ==
  ASSUME IInv, NEW t \in Threads, AddServiceOn(t)
  PROVE  IInv'
<1>. USE SaThreadIsThread, NoThreadIsNone DEF IInv
<1>1. StepsTo(t, "addNeedCheck", thread[t].remote)
  BY StepMoves DEF PCs, Lookup, Inside, AddSteps, RemoveSteps, TypeOK, ThreadRecords,
       AddServiceOn
<1>. starts \in Nat /\ thread[t].name \in ObjectNames /\ BLUETOOTH_HOST \in ObjectNames
  BY RecordFields, ProfileManagerAssumption DEF TypeOK, Fields
<1>. USE <1>1 DEF StepsTo, MovesTo
<1>2. TypeOK'
  BY DEF TypeOK, AddServiceOn, serviceVars, stateVars, lockVars, historyVars
<1>3. OpInv'
  BY DEF OpInv, OpOK, AddServiceOn, Inside, Lookup, AddSteps, RemoveSteps, Runs
<1>4. LockInv'
  BY DEF LockInv, AddServiceOn, lockVars, HoldsRemoteMutex, HoldsFuncMap, Inside, Lookup,
       Runs, OpInv, OpOK, AddSteps, RemoveSteps
<1>5. TodoInv'
  BY DEF TodoInv, AddServiceOn, stateVars, HoldsFuncMap, Inside, Lookup, Runs, OpInv,
       OpOK, AddSteps, RemoveSteps
<1>6. EventInv'
  BY DEF EventInv, AddServiceOn, serviceVars
<1>7. FlagInv'
  BY DEF FlagInv, AddPending, Reported, AddServiceOn, serviceVars, stateVars
<1>8. CacheInv'
  BY DEF CacheInv, RemovePending, Reported, AddServiceOn, serviceVars, stateVars,
       historyVars
<1>9. RemoteInv'
  BY DEF RemoteInv, AddServiceOn, serviceVars, stateVars
<1>10. ServiceOnInv'
  BY DEF ServiceOnInv, Reported, RaisesServiceOn, AddServiceOn, serviceVars, stateVars,
       RemoveSteps, AddSteps
<1>11. CallInv'
  <2>1. ASSUME service # 0, NEW i \in DOMAIN profileIdFuncMap', RunsAll(t) \/ WillCall(t, i)
        PROVE  RunsAll(t)' \/ WillCall(t, i)' \/ StaleCache' \/ Met(i)'
    BY <2>1 DEF AddServiceOn, RunsAll, WillCall, HoldsFuncMap, serviceVars, stateVars,
         historyVars, RemoveSteps, AddSteps, Inside, Lookup, OpInv, OpOK, Runs
  <2>. QED BY <1>2, <2>1, CallFrame DEF AddServiceOn, serviceVars, stateVars, historyVars,
       StaleCache
<1>. QED BY <1>2, <1>3, <1>4, <1>5, <1>6, <1>7, <1>8, <1>9, <1>10, <1>11

LEMMA AddNeedCheckStep ==
  ASSUME IInv, NEW t \in Threads, AddNeedCheck(t)
  PROVE  IInv'
<1>. USE SaThreadIsThread, NoThreadIsNone DEF IInv
<1>1. StepsTo(t, "addNotify", thread[t].remote)
  BY StepMoves DEF PCs, Lookup, Inside, AddSteps, RemoveSteps, TypeOK, ThreadRecords,
       AddNeedCheck
<1>. starts \in Nat /\ thread[t].name \in ObjectNames /\ BLUETOOTH_HOST \in ObjectNames
  BY RecordFields, ProfileManagerAssumption DEF TypeOK, Fields
<1>. USE <1>1 DEF StepsTo, MovesTo
<1>2. TypeOK'
  BY DEF TypeOK, AddNeedCheck, serviceVars, stateVars, lockVars, historyVars
<1>3. OpInv'
  BY DEF OpInv, OpOK, AddNeedCheck, Inside, Lookup, AddSteps, RemoveSteps, Runs
<1>4. LockInv'
  BY DEF LockInv, AddNeedCheck, lockVars, HoldsRemoteMutex, HoldsFuncMap, Inside, Lookup,
       Runs, OpInv, OpOK, AddSteps, RemoveSteps
<1>5. TodoInv'
  BY DEF TodoInv, AddNeedCheck, stateVars, HoldsFuncMap, Inside, Lookup, Runs, OpInv,
       OpOK, AddSteps, RemoveSteps
<1>6. EventInv'
  BY DEF EventInv, AddNeedCheck, serviceVars
<1>7. FlagInv'
  BY DEF FlagInv, LockInv, AddNeedCheck
<1>8. CacheInv'
  BY DEF CacheInv, RemovePending, Reported, AddNeedCheck, serviceVars, stateVars,
       historyVars
<1>9. RemoteInv'
  BY DEF RemoteInv, AddNeedCheck, serviceVars, stateVars
<1>10. ServiceOnInv'
  BY DEF ServiceOnInv, Reported, RaisesServiceOn, AddNeedCheck, serviceVars, stateVars,
       RemoveSteps, AddSteps
<1>11. CallInv'
  <2>1. ASSUME service # 0, NEW i \in DOMAIN profileIdFuncMap', RunsAll(t) \/ WillCall(t, i)
        PROVE  RunsAll(t)' \/ WillCall(t, i)' \/ StaleCache' \/ Met(i)'
    BY <2>1 DEF AddNeedCheck, RunsAll, WillCall, HoldsFuncMap, serviceVars, stateVars,
         historyVars, RemoveSteps, AddSteps, Inside, Lookup, OpInv, OpOK, Runs
  <2>. QED BY <1>2, <2>1, CallFrame DEF AddNeedCheck, serviceVars, stateVars, historyVars,
       StaleCache
<1>. QED BY <1>2, <1>3, <1>4, <1>5, <1>6, <1>7, <1>8, <1>9, <1>10, <1>11

LEMMA AddNotifiesHostStep ==
  ASSUME IInv, NEW t \in Threads, AddNotifiesHost(t)
  PROVE  IInv'
<1>. USE SaThreadIsThread, NoThreadIsNone DEF IInv
<1>1. StepsTo(t, "run", thread[t].remote)
  BY StepMoves DEF PCs, Lookup, Inside, AddSteps, RemoveSteps, TypeOK, ThreadRecords,
       AddNotifiesHost
<1>. starts \in Nat /\ thread[t].name \in ObjectNames /\ BLUETOOTH_HOST \in ObjectNames
  BY RecordFields, ProfileManagerAssumption DEF TypeOK, Fields
<1>. USE <1>1 DEF StepsTo, MovesTo
<1>2. TypeOK'
  BY DEF TypeOK, AddNotifiesHost, serviceVars, stateVars, lockVars, historyVars
<1>3. OpInv'
  BY DEF OpInv, OpOK, AddNotifiesHost, Inside, Lookup, AddSteps, RemoveSteps, Runs
<1>4. LockInv'
  BY DEF LockInv, AddNotifiesHost, lockVars, HoldsRemoteMutex, HoldsFuncMap, Inside,
       Lookup, Runs, OpInv, OpOK, AddSteps, RemoveSteps
<1>5. TodoInv'
  BY DEF TodoInv, AddNotifiesHost, stateVars, HoldsFuncMap, Inside, Lookup, Runs, OpInv,
       OpOK, AddSteps, RemoveSteps
<1>6. EventInv'
  BY DEF EventInv, AddNotifiesHost, serviceVars
<1>7. FlagInv'
  BY DEF FlagInv, AddPending, Reported, AddNotifiesHost, serviceVars, stateVars
<1>8. CacheInv'
  BY DEF CacheInv, RemovePending, Reported, AddNotifiesHost, serviceVars, stateVars,
       historyVars
<1>9. RemoteInv'
  BY DEF RemoteInv, AddNotifiesHost, serviceVars, stateVars
<1>10. ServiceOnInv'
  BY DEF ServiceOnInv, Reported, RaisesServiceOn, AddNotifiesHost, serviceVars, stateVars,
       RemoveSteps, AddSteps
<1>11. CallInv'
  <2>1. ASSUME service # 0, NEW i \in DOMAIN profileIdFuncMap', RunsAll(t) \/ WillCall(t, i)
        PROVE  RunsAll(t)' \/ WillCall(t, i)' \/ StaleCache' \/ Met(i)'
    BY <2>1 DEF AddNotifiesHost, RunsAll, WillCall, HoldsFuncMap, serviceVars, stateVars,
         historyVars, RemoveSteps, AddSteps, Inside, Lookup, OpInv, OpOK, Runs
  <2>. QED BY <1>2, <2>1, CallFrame DEF AddNotifiesHost, serviceVars, stateVars,
       historyVars, StaleCache
<1>. QED BY <1>2, <1>3, <1>4, <1>5, <1>6, <1>7, <1>8, <1>9, <1>10, <1>11

LEMMA RunFuncsStep ==
  ASSUME IInv, NEW t \in Threads, RunFuncs(t)
  PROVE  IInv'
<1>. USE SaThreadIsThread, NoThreadIsNone DEF IInv
<1>1. MovesTo(t, thread[t].op, "next", thread[t].name, thread[t].id,
               thread[t].remote, DOMAIN profileIdFuncMap)
  <2>0. Fields(t) /\ DOMAIN profileIdFuncMap \in SUBSET FuncId
    BY RecordFields DEF TypeOK
  <2>1. PICK D \in SUBSET FuncId :
          /\ D = DOMAIN profileIdFuncMap
          /\ thread' = [thread EXCEPT ![t].pc = "next", ![t].todo = D]
    BY <2>0 DEF RunFuncs
  <2>2. "next" \in PCs
    BY DEF PCs
  <2>3. thread' \in [Threads -> ThreadRecords]
    BY <2>0, <2>1, <2>2 DEF Fields, ThreadRecords
  <2>4. \A u \in Threads \ {t} : thread'[u] = thread[u]
    BY <2>0, <2>1 DEF Fields
  <2>5. /\ thread'[t].op = thread[t].op /\ thread'[t].pc = "next"
        /\ thread'[t].name = thread[t].name /\ thread'[t].id = thread[t].id
        /\ thread'[t].remote = thread[t].remote /\ thread'[t].todo = D
    BY <2>0, <2>1 DEF Fields, ThreadRecords
  <2>. QED BY <2>1, <2>3, <2>4, <2>5 DEF MovesTo
<1>. starts \in Nat /\ thread[t].name \in ObjectNames /\ BLUETOOTH_HOST \in ObjectNames
  BY RecordFields, ProfileManagerAssumption DEF TypeOK, Fields
<1>. USE <1>1 DEF StepsTo, MovesTo
<1>2. TypeOK'
  BY DEF TypeOK, RunFuncs, serviceVars, stateVars, lockVars, historyVars
<1>3. OpInv'
  BY DEF OpInv, OpOK, RunFuncs, Inside, Lookup, AddSteps, RemoveSteps, Runs
<1>4. LockInv'
  BY DEF LockInv, RunFuncs, lockVars, HoldsRemoteMutex, HoldsFuncMap, Inside, Lookup,
       Runs, OpInv, OpOK, AddSteps, RemoveSteps
<1>5. TodoInv'
  BY DEF TodoInv, RunFuncs, stateVars, HoldsFuncMap, Inside, Lookup, Runs, OpInv, OpOK,
       AddSteps, RemoveSteps
<1>6. EventInv'
  BY DEF EventInv, RunFuncs, serviceVars
<1>7. FlagInv'
  BY DEF FlagInv, AddPending, Reported, RunFuncs, serviceVars, stateVars
<1>8. CacheInv'
  BY DEF CacheInv, RemovePending, Reported, RunFuncs, serviceVars, stateVars, historyVars
<1>9. RemoteInv'
  BY DEF RemoteInv, RunFuncs, serviceVars, stateVars
<1>10. ServiceOnInv'
  BY DEF ServiceOnInv, Reported, RaisesServiceOn, RunFuncs, serviceVars, stateVars,
       RemoveSteps, AddSteps
<1>11. CallInv'
  <2>1. ASSUME service # 0, NEW i \in DOMAIN profileIdFuncMap', RunsAll(t) \/ WillCall(t, i)
        PROVE  RunsAll(t)' \/ WillCall(t, i)' \/ StaleCache' \/ Met(i)'
    BY <2>1 DEF RunFuncs, RunsAll, WillCall, HoldsFuncMap, serviceVars, stateVars,
         historyVars, RemoveSteps, AddSteps, Inside, Lookup, OpInv, OpOK, Runs
  <2>. QED BY <1>2, <2>1, CallFrame DEF RunFuncs, serviceVars, stateVars, historyVars,
       StaleCache
<1>. QED BY <1>2, <1>3, <1>4, <1>5, <1>6, <1>7, <1>8, <1>9, <1>10, <1>11

LEMMA RunNextFuncStep ==
  ASSUME IInv, NEW t \in Threads, RunNextFunc(t)
  PROVE  IInv'
<1>. USE SaThreadIsThread, NoThreadIsNone DEF IInv
<1>1. \E id \in thread[t].todo :
     /\ id \in FuncId
     /\ MovesTo(t, thread[t].op, "find", profileIdFuncMap[id], id,
                thread[t].remote, thread[t].todo \ {id})
  <2>0. Fields(t)
    BY RecordFields
  <2>1. PICK id \in thread[t].todo :
          thread' = [thread EXCEPT ![t].pc = "find", ![t].id = id,
                       ![t].name = profileIdFuncMap[id], ![t].todo = @ \ {id}]
    BY DEF RunNextFunc
  <2>2. id \in FuncId /\ id \in Nat /\ thread[t].todo \ {id} \in SUBSET FuncId
    BY <2>0 DEF FuncId, Fields
  <2>3. profileIdFuncMap[id] \in ObjectNames
    BY DEF TodoInv, HoldsFuncMap, OpInv, OpOK, RunNextFunc, TypeOK
  <2>4. thread' = [thread EXCEPT ![t] =
             [op |-> thread[t].op, pc |-> "find", name |-> profileIdFuncMap[id],
              id |-> id, remote |-> thread[t].remote, todo |-> thread[t].todo \ {id}]]
    BY <2>0, <2>1 DEF Fields
  <2>5. "find" \in PCs
    BY DEF PCs, Lookup
  <2>6. MovesTo(t, thread[t].op, "find", profileIdFuncMap[id], id,
                thread[t].remote, thread[t].todo \ {id})
    BY <2>0, <2>2, <2>3, <2>4, <2>5, RecordMoves DEF Fields
  <2>. QED BY <2>2, <2>6
<1>. starts \in Nat /\ thread[t].name \in ObjectNames /\ BLUETOOTH_HOST \in ObjectNames
  BY RecordFields, ProfileManagerAssumption DEF TypeOK, Fields
<1>. USE <1>1 DEF StepsTo, MovesTo
<1>2. TypeOK'
  BY DEF TypeOK, RunNextFunc, serviceVars, stateVars, lockVars, historyVars
<1>3. OpInv'
  BY DEF OpInv, OpOK, RunNextFunc, Inside, Lookup, AddSteps, RemoveSteps, Runs
<1>4. LockInv'
  BY DEF LockInv, RunNextFunc, lockVars, HoldsRemoteMutex, HoldsFuncMap, Inside, Lookup,
       Runs, OpInv, OpOK, AddSteps, RemoveSteps
<1>5. TodoInv'
  BY DEF TodoInv, RunNextFunc, stateVars, HoldsFuncMap, Inside, Lookup, Runs, OpInv, OpOK,
       AddSteps, RemoveSteps
<1>6. EventInv'
  BY DEF EventInv, RunNextFunc, serviceVars
<1>7. FlagInv'
  BY DEF FlagInv, AddPending, Reported, RunNextFunc, serviceVars, stateVars
<1>8. CacheInv'
  BY DEF CacheInv, RemovePending, Reported, RunNextFunc, serviceVars, stateVars, historyVars
<1>9. RemoteInv'
  BY DEF RemoteInv, RunNextFunc, serviceVars, stateVars
<1>10. ServiceOnInv'
  BY DEF ServiceOnInv, Reported, RaisesServiceOn, RunNextFunc, serviceVars, stateVars,
       RemoveSteps, AddSteps
<1>11. CallInv'
  <2>1. ASSUME service # 0, NEW i \in DOMAIN profileIdFuncMap', RunsAll(t) \/ WillCall(t, i)
        PROVE  RunsAll(t)' \/ WillCall(t, i)' \/ StaleCache' \/ Met(i)'
    BY <2>1 DEF RunNextFunc, RunsAll, WillCall, HoldsFuncMap, serviceVars, stateVars,
         historyVars, RemoveSteps, AddSteps, Inside, Lookup, OpInv, OpOK, Runs
  <2>. QED BY <1>2, <2>1, CallFrame DEF RunNextFunc, serviceVars, stateVars, historyVars,
       StaleCache
<1>. QED BY <1>2, <1>3, <1>4, <1>5, <1>6, <1>7, <1>8, <1>9, <1>10, <1>11

LEMMA FuncGotRemoteStep ==
  ASSUME IInv, NEW t \in Threads, FuncGotRemote(t)
  PROVE  IInv'
<1>. USE SaThreadIsThread, NoThreadIsNone DEF IInv
<1>1. StepsTo(t, "next", thread[t].remote)
  BY StepMoves DEF PCs, Lookup, Inside, AddSteps, RemoveSteps, TypeOK, ThreadRecords,
       FuncGotRemote
<1>. starts \in Nat /\ thread[t].name \in ObjectNames /\ BLUETOOTH_HOST \in ObjectNames
  BY RecordFields, ProfileManagerAssumption DEF TypeOK, Fields
<1>. USE <1>1 DEF StepsTo, MovesTo
<1>2. TypeOK'
  <2>1. called' \in [FuncId -> SUBSET Nat]
    BY CallFuncEffect DEF FuncGotRemote
  <2>. QED BY <2>1 DEF TypeOK, FuncGotRemote, serviceVars, stateVars, lockVars
<1>3. OpInv'
  BY DEF OpInv, OpOK, FuncGotRemote, Inside, Lookup, AddSteps, RemoveSteps, Runs
<1>4. LockInv'
  BY DEF LockInv, FuncGotRemote, lockVars, HoldsRemoteMutex, HoldsFuncMap, Inside, Lookup,
       Runs, OpInv, OpOK, AddSteps, RemoveSteps
<1>5. TodoInv'
  BY DEF TodoInv, FuncGotRemote, stateVars, HoldsFuncMap, Inside, Lookup, Runs, OpInv,
       OpOK, AddSteps, RemoveSteps
<1>6. EventInv'
  BY DEF EventInv, FuncGotRemote, serviceVars
<1>7. FlagInv'
  BY DEF FlagInv, AddPending, Reported, FuncGotRemote, serviceVars, stateVars
<1>8. CacheInv'
  BY DEF CacheInv, RemovePending, Reported, FuncGotRemote, serviceVars, stateVars,
       historyVars
<1>9. RemoteInv'
  BY DEF RemoteInv, FuncGotRemote, serviceVars, stateVars
<1>10. ServiceOnInv'
  BY DEF ServiceOnInv, Reported, RaisesServiceOn, FuncGotRemote, serviceVars, stateVars,
       RemoveSteps, AddSteps
<1>11. CallInv'
  <2>1. \A i \in FuncId : called[i] \subseteq called'[i]
    BY CallFuncEffect DEF FuncGotRemote
  <2>2. ASSUME service # 0, NEW i \in DOMAIN profileIdFuncMap', RunsAll(t) \/ WillCall(t, i)
        PROVE  WillCall(t, i)' \/ Met(i)'
    <3>1. \/ thread[t].op # "turnOn" /\ thread[t].remote = service /\ thread[t].id = i
          \/ HoldsFuncMap(t) /\ thread[t].op # "turnOn" /\ i \in thread[t].todo
      BY <2>2 DEF FuncGotRemote, RunsAll, WillCall, RemoveSteps, AddSteps
    <3>2. CASE thread[t].op # "turnOn" /\ thread[t].remote = service /\ thread[t].id = i
      <4>1. CallFunc(t) /\ i \in FuncId /\ service' = service
        BY <3>2 DEF FuncGotRemote, TypeOK, serviceVars, stateVars
      <4>. QED BY <2>2, <3>2, <4>1, CallFuncEffect DEF Met
    <3>3. CASE HoldsFuncMap(t) /\ thread[t].op # "turnOn" /\ i \in thread[t].todo
      BY <3>3 DEF WillCall, HoldsFuncMap
    <3>. QED BY <3>1, <3>2, <3>3
  <2>. QED BY <1>2, <2>1, <2>2, CallFrame DEF FuncGotRemote, serviceVars, stateVars,
       StaleCache
<1>. QED BY <1>2, <1>3, <1>4, <1>5, <1>6, <1>7, <1>8, <1>9, <1>10, <1>11

LEMMA FuncsDoneStep ==
  ASSUME IInv, NEW t \in Threads, FuncsDone(t)
  PROVE  IInv'
<1>. USE SaThreadIsThread, NoThreadIsNone DEF IInv
<1>1. MovesTo(t, "none", "idle", BLUETOOTH_HOST, 0, 0, {})
  BY IdleMoves DEF TypeOK, ThreadRecords, FuncsDone
<1>. starts \in Nat /\ thread[t].name \in ObjectNames /\ BLUETOOTH_HOST \in ObjectNames
  BY RecordFields, ProfileManagerAssumption DEF TypeOK, Fields
<1>. USE <1>1 DEF StepsTo, MovesTo
<1>2. TypeOK'
  BY DEF TypeOK, FuncsDone, serviceVars, stateVars, lockVars, historyVars
<1>3. OpInv'
  BY DEF OpInv, OpOK, FuncsDone, Inside, Lookup, AddSteps, RemoveSteps, Runs
<1>4. LockInv'
  BY DEF LockInv, FuncsDone, lockVars, HoldsRemoteMutex, HoldsFuncMap, Inside, Lookup,
       Runs, OpInv, OpOK, AddSteps, RemoveSteps
<1>5. TodoInv'
  BY DEF TodoInv, FuncsDone, stateVars, HoldsFuncMap, Inside, Lookup, Runs, OpInv, OpOK,
       AddSteps, RemoveSteps
<1>6. EventInv'
  BY DEF EventInv, FuncsDone, serviceVars
<1>7. FlagInv'
  BY DEF FlagInv, AddPending, Reported, FuncsDone, serviceVars, stateVars
<1>8. CacheInv'
  BY DEF CacheInv, RemovePending, Reported, FuncsDone, serviceVars, stateVars, historyVars
<1>9. RemoteInv'
  BY DEF RemoteInv, FuncsDone, serviceVars, stateVars
<1>10. ServiceOnInv'
  BY DEF ServiceOnInv, Reported, RaisesServiceOn, FuncsDone, serviceVars, stateVars,
       RemoveSteps, AddSteps
<1>11. CallInv'
  <2>1. ASSUME service # 0, NEW i \in DOMAIN profileIdFuncMap', RunsAll(t) \/ WillCall(t, i)
        PROVE  RunsAll(t)' \/ WillCall(t, i)' \/ StaleCache' \/ Met(i)'
    BY <2>1 DEF FuncsDone, RunsAll, WillCall, HoldsFuncMap, serviceVars, stateVars,
         historyVars, RemoveSteps, AddSteps, Inside, Lookup, OpInv, OpOK, Runs
  <2>. QED BY <1>2, <2>1, CallFrame DEF FuncsDone, serviceVars, stateVars, historyVars,
       StaleCache
<1>. QED BY <1>2, <1>3, <1>4, <1>5, <1>6, <1>7, <1>8, <1>9, <1>10, <1>11

-----------------------------------------------------------------------------
(***************************************************************************)
(* OnRemoveSystemAbility                                                   *)
(***************************************************************************)
LEMMA RemoveClearStep ==
  ASSUME IInv, NEW t \in Threads, RemoveClear(t)
  PROVE  IInv'
<1>. USE SaThreadIsThread, NoThreadIsNone DEF IInv
<1>1. StepsTo(t, "removeServiceOff", thread[t].remote)
  BY StepMoves DEF PCs, Lookup, Inside, AddSteps, RemoveSteps, TypeOK, ThreadRecords,
       RemoveClear
<1>. starts \in Nat /\ thread[t].name \in ObjectNames /\ BLUETOOTH_HOST \in ObjectNames
  BY RecordFields, ProfileManagerAssumption DEF TypeOK, Fields
<1>. USE <1>1 DEF StepsTo, MovesTo
<1>2. TypeOK'
  BY DEF TypeOK, RemoveClear, serviceVars, stateVars, lockVars, historyVars
<1>3. OpInv'
  BY DEF OpInv, OpOK, RemoveClear, Inside, Lookup, AddSteps, RemoveSteps, Runs
<1>4. LockInv'
  BY DEF LockInv, RemoveClear, lockVars, HoldsRemoteMutex, HoldsFuncMap, Inside, Lookup,
       Runs, OpInv, OpOK, AddSteps, RemoveSteps
<1>5. TodoInv'
  BY DEF TodoInv, RemoveClear, stateVars, HoldsFuncMap, Inside, Lookup, Runs, OpInv, OpOK,
       AddSteps, RemoveSteps
<1>6. EventInv'
  BY DEF EventInv, RemoveClear, serviceVars
<1>7. FlagInv'
  BY DEF FlagInv, AddPending, Reported, RemoveClear, serviceVars, stateVars
<1>8. CacheInv'
  BY DEF CacheInv, RemovePending, Reported, RemoveClear, LookupUnderWay, serviceVars
<1>9. RemoteInv'
  BY DEF RemoteInv, RemoveClear, serviceVars, stateVars
<1>10. ServiceOnInv'
  BY DEF ServiceOnInv, Reported, RaisesServiceOn, RemoveClear, serviceVars, stateVars,
       RemoveSteps, AddSteps
<1>11. CallInv'
  <2>1. service # 0 => RunsAll(t)' \/ Reported("add")
    BY DeathIsFollowedByStart DEF RemoveClear, OpInv, OpOK, RunsAll, RemoveSteps
  <2>. QED BY <1>2, <2>1, CallFrame DEF RemoveClear, serviceVars
<1>. QED BY <1>2, <1>3, <1>4, <1>5, <1>6, <1>7, <1>8, <1>9, <1>10, <1>11

LEMMA RemoveServiceOffStep ==
  ASSUME IInv, NEW t \in Threads, RemoveServiceOff(t)
  PROVE  IInv'
<1>. USE SaThreadIsThread, NoThreadIsNone DEF IInv
<1>1. StepsTo(t, "removeNeedCheck", thread[t].remote)
  BY StepMoves DEF PCs, Lookup, Inside, AddSteps, RemoveSteps, TypeOK, ThreadRecords,
       RemoveServiceOff
<1>. starts \in Nat /\ thread[t].name \in ObjectNames /\ BLUETOOTH_HOST \in ObjectNames
  BY RecordFields, ProfileManagerAssumption DEF TypeOK, Fields
<1>. USE <1>1 DEF StepsTo, MovesTo
<1>2. TypeOK'
  BY DEF TypeOK, RemoveServiceOff, serviceVars, stateVars, lockVars, historyVars
<1>3. OpInv'
  BY DEF OpInv, OpOK, RemoveServiceOff, Inside, Lookup, AddSteps, RemoveSteps, Runs
<1>4. LockInv'
  BY DEF LockInv, RemoveServiceOff, lockVars, HoldsRemoteMutex, HoldsFuncMap, Inside,
       Lookup, Runs, OpInv, OpOK, AddSteps, RemoveSteps
<1>5. TodoInv'
  BY DEF TodoInv, RemoveServiceOff, stateVars, HoldsFuncMap, Inside, Lookup, Runs, OpInv,
       OpOK, AddSteps, RemoveSteps
<1>6. EventInv'
  BY DEF EventInv, RemoveServiceOff, serviceVars
<1>7. FlagInv'
  BY DEF FlagInv, AddPending, Reported, RemoveServiceOff, serviceVars, stateVars
<1>8. CacheInv'
  BY DEF CacheInv, RemovePending, Reported, RemoveServiceOff, serviceVars, stateVars,
       historyVars
<1>9. RemoteInv'
  BY DEF RemoteInv, RemoveServiceOff, serviceVars, stateVars
<1>10. ServiceOnInv'
  <2>1. service # 0 => RaisesServiceOn(t)' \/ Reported("add")
    BY DeathIsFollowedByStart DEF RemoveServiceOff, OpInv, OpOK, RaisesServiceOn,
         RemoveSteps
  <2>. QED BY <2>1 DEF ServiceOnInv, Reported, RemoveServiceOff, serviceVars
<1>11. CallInv'
  <2>1. ASSUME service # 0, NEW i \in DOMAIN profileIdFuncMap', RunsAll(t) \/ WillCall(t, i)
        PROVE  RunsAll(t)' \/ WillCall(t, i)' \/ StaleCache' \/ Met(i)'
    BY <2>1 DEF RemoveServiceOff, RunsAll, WillCall, HoldsFuncMap, serviceVars, stateVars,
         historyVars, RemoveSteps, AddSteps, Inside, Lookup, OpInv, OpOK, Runs
  <2>. QED BY <1>2, <2>1, CallFrame DEF RemoveServiceOff, serviceVars, stateVars,
       historyVars, StaleCache
<1>. QED BY <1>2, <1>3, <1>4, <1>5, <1>6, <1>7, <1>8, <1>9, <1>10, <1>11

LEMMA RemoveNeedCheckStep ==
  ASSUME IInv, NEW t \in Threads, RemoveNeedCheck(t)
  PROVE  IInv'
<1>. USE SaThreadIsThread, NoThreadIsNone DEF IInv
<1>1. StepsTo(t, "turnOff", thread[t].remote)
  BY StepMoves DEF PCs, Lookup, Inside, AddSteps, RemoveSteps, TypeOK, ThreadRecords,
       RemoveNeedCheck
<1>. starts \in Nat /\ thread[t].name \in ObjectNames /\ BLUETOOTH_HOST \in ObjectNames
  BY RecordFields, ProfileManagerAssumption DEF TypeOK, Fields
<1>. USE <1>1 DEF StepsTo, MovesTo
<1>2. TypeOK'
  BY DEF TypeOK, RemoveNeedCheck, serviceVars, stateVars, lockVars, historyVars
<1>3. OpInv'
  BY DEF OpInv, OpOK, RemoveNeedCheck, Inside, Lookup, AddSteps, RemoveSteps, Runs
<1>4. LockInv'
  BY DEF LockInv, RemoveNeedCheck, lockVars, HoldsRemoteMutex, HoldsFuncMap, Inside,
       Lookup, Runs, OpInv, OpOK, AddSteps, RemoveSteps
<1>5. TodoInv'
  BY DEF TodoInv, RemoveNeedCheck, stateVars, HoldsFuncMap, Inside, Lookup, Runs, OpInv,
       OpOK, AddSteps, RemoveSteps
<1>6. EventInv'
  BY DEF EventInv, RemoveNeedCheck, serviceVars
<1>7. FlagInv'
  BY DEF FlagInv, AddPending, Reported, RemoveNeedCheck, serviceVars, stateVars
<1>8. CacheInv'
  BY DEF CacheInv, RemovePending, Reported, RemoveNeedCheck, serviceVars, stateVars,
       historyVars
<1>9. RemoteInv'
  BY DEF RemoteInv, RemoveNeedCheck, serviceVars, stateVars
<1>10. ServiceOnInv'
  BY DEF ServiceOnInv, Reported, RaisesServiceOn, RemoveNeedCheck, serviceVars, stateVars,
       RemoveSteps, AddSteps
<1>11. CallInv'
  <2>1. ASSUME service # 0, NEW i \in DOMAIN profileIdFuncMap', RunsAll(t) \/ WillCall(t, i)
        PROVE  RunsAll(t)' \/ WillCall(t, i)' \/ StaleCache' \/ Met(i)'
    BY <2>1 DEF RemoveNeedCheck, RunsAll, WillCall, HoldsFuncMap, serviceVars, stateVars,
         historyVars, RemoveSteps, AddSteps, Inside, Lookup, OpInv, OpOK, Runs
  <2>. QED BY <1>2, <2>1, CallFrame DEF RemoveNeedCheck, serviceVars, stateVars,
       historyVars, StaleCache
<1>. QED BY <1>2, <1>3, <1>4, <1>5, <1>6, <1>7, <1>8, <1>9, <1>10, <1>11

LEMMA RemoveTurnOffStep ==
  ASSUME IInv, NEW t \in Threads, RemoveTurnOff(t)
  PROVE  IInv'
<1>. USE SaThreadIsThread, NoThreadIsNone DEF IInv
<1>1. StepsTo(t, "removeSwitch", thread[t].remote)
  BY StepMoves DEF PCs, Lookup, Inside, AddSteps, RemoveSteps, TypeOK, ThreadRecords,
       RemoveTurnOff
<1>. starts \in Nat /\ thread[t].name \in ObjectNames /\ BLUETOOTH_HOST \in ObjectNames
  BY RecordFields, ProfileManagerAssumption DEF TypeOK, Fields
<1>. USE <1>1 DEF StepsTo, MovesTo
<1>2. TypeOK'
  BY DEF TypeOK, RemoveTurnOff, serviceVars, stateVars, lockVars, historyVars
<1>3. OpInv'
  BY DEF OpInv, OpOK, RemoveTurnOff, Inside, Lookup, AddSteps, RemoveSteps, Runs
<1>4. LockInv'
  BY DEF LockInv, RemoveTurnOff, lockVars, HoldsRemoteMutex, HoldsFuncMap, Inside, Lookup,
       Runs, OpInv, OpOK, AddSteps, RemoveSteps
<1>5. TodoInv'
  BY DEF TodoInv, RemoveTurnOff, stateVars, HoldsFuncMap, Inside, Lookup, Runs, OpInv,
       OpOK, AddSteps, RemoveSteps
<1>6. EventInv'
  BY DEF EventInv, RemoveTurnOff, serviceVars
<1>7. FlagInv'
  BY DEF FlagInv, AddPending, Reported, RemoveTurnOff, serviceVars, stateVars
<1>8. CacheInv'
  BY DEF CacheInv, RemovePending, Reported, RemoveTurnOff, serviceVars, stateVars,
       historyVars
<1>9. RemoteInv'
  BY DEF RemoteInv, RemoveTurnOff, serviceVars, stateVars
<1>10. ServiceOnInv'
  BY DEF ServiceOnInv, Reported, RaisesServiceOn, RemoveTurnOff, serviceVars, stateVars,
       RemoveSteps, AddSteps
<1>11. CallInv'
  <2>1. ASSUME service # 0, NEW i \in DOMAIN profileIdFuncMap', RunsAll(t) \/ WillCall(t, i)
        PROVE  RunsAll(t)' \/ WillCall(t, i)' \/ StaleCache' \/ Met(i)'
    BY <2>1 DEF RemoveTurnOff, RunsAll, WillCall, HoldsFuncMap, serviceVars, stateVars,
         historyVars, RemoveSteps, AddSteps, Inside, Lookup, OpInv, OpOK, Runs
  <2>. QED BY <1>2, <2>1, CallFrame DEF RemoveTurnOff, serviceVars, stateVars,
       historyVars, StaleCache
<1>. QED BY <1>2, <1>3, <1>4, <1>5, <1>6, <1>7, <1>8, <1>9, <1>10, <1>11

LEMMA RemoveTellsSwitchStep ==
  ASSUME IInv, NEW t \in Threads, RemoveTellsSwitch(t)
  PROVE  IInv'
<1>. USE SaThreadIsThread, NoThreadIsNone DEF IInv
<1>1. \/ StepsTo(t, "add", thread[t].remote) /\ thread[t].op = "update"
      \/ MovesTo(t, "none", "idle", BLUETOOTH_HOST, 0, 0, {}) /\ thread[t].op # "update"
  BY StepMoves, IdleMoves DEF PCs, AddSteps, TypeOK, ThreadRecords, RemoveTellsSwitch
<1>. starts \in Nat /\ thread[t].name \in ObjectNames /\ BLUETOOTH_HOST \in ObjectNames
  BY RecordFields, ProfileManagerAssumption DEF TypeOK, Fields
<1>. USE <1>1 DEF StepsTo, MovesTo
<1>2. TypeOK'
  BY DEF TypeOK, RemoveTellsSwitch, serviceVars, stateVars, lockVars, historyVars
<1>3. OpInv'
  BY DEF OpInv, OpOK, RemoveTellsSwitch, Inside, Lookup, AddSteps, RemoveSteps, Runs
<1>4. LockInv'
  BY DEF LockInv, RemoveTellsSwitch, lockVars, HoldsRemoteMutex, HoldsFuncMap, Inside,
       Lookup, Runs, OpInv, OpOK, AddSteps, RemoveSteps
<1>5. TodoInv'
  BY DEF TodoInv, RemoveTellsSwitch, stateVars, HoldsFuncMap, Inside, Lookup, Runs, OpInv,
       OpOK, AddSteps, RemoveSteps
<1>6. EventInv'
  BY DEF EventInv, RemoveTellsSwitch, serviceVars
<1>7. FlagInv'
  BY DEF FlagInv, AddPending, Reported, RemoveTellsSwitch, serviceVars, stateVars
<1>8. CacheInv'
  BY DEF CacheInv, RemovePending, Reported, RemoveTellsSwitch, serviceVars, stateVars,
       historyVars
<1>9. RemoteInv'
  BY DEF RemoteInv, RemoveTellsSwitch, serviceVars, stateVars
<1>10. ServiceOnInv'
  BY DEF ServiceOnInv, Reported, RaisesServiceOn, RemoveTellsSwitch, serviceVars,
       stateVars, RemoveSteps, AddSteps
<1>11. CallInv'
  <2>1. ASSUME service # 0, NEW i \in DOMAIN profileIdFuncMap', RunsAll(t) \/ WillCall(t, i)
        PROVE  RunsAll(t)' \/ WillCall(t, i)' \/ StaleCache' \/ Met(i)'
    BY <2>1 DEF RemoveTellsSwitch, RunsAll, WillCall, HoldsFuncMap, serviceVars,
         stateVars, historyVars, RemoveSteps, AddSteps, Inside, Lookup, OpInv, OpOK, Runs
  <2>. QED BY <1>2, <2>1, CallFrame DEF RemoveTellsSwitch, serviceVars, stateVars,
       historyVars, StaleCache
<1>. QED BY <1>2, <1>3, <1>4, <1>5, <1>6, <1>7, <1>8, <1>9, <1>10, <1>11

-----------------------------------------------------------------------------
(***************************************************************************)
(* A load of the application from an image, and the report that BLE is on  *)
(***************************************************************************)
LEMMA BluetoothProfileManagerUpdateStep ==
  ASSUME IInv, NEW t \in Clients, BluetoothProfileManagerUpdate(t)
  PROVE  IInv'
<1>. USE SaThreadIsThread, NoThreadIsNone DEF IInv
<1>0. t \in Threads /\ t # SaThread
  BY ProfileManagerAssumption DEF Threads
<1>1. MovesTo(t, "update", "remove", thread[t].name, thread[t].id,
               thread[t].remote, thread[t].todo)
  <2>0. Fields(t)
    BY <1>0, RecordFields
  <2>1. thread' = [thread EXCEPT ![t] =
             [op |-> "update", pc |-> "remove", name |-> thread[t].name, id |-> thread[t].id,
              remote |-> thread[t].remote, todo |-> thread[t].todo]]
    BY <1>0, <2>0 DEF Fields, BluetoothProfileManagerUpdate
  <2>2. "remove" \in PCs /\ "update" \in Ops
    BY DEF PCs, RemoveSteps, Ops, Runs
  <2>. QED BY <1>0, <2>0, <2>1, <2>2, RecordMoves DEF Fields
<1>. starts \in Nat /\ thread[t].name \in ObjectNames /\ BLUETOOTH_HOST \in ObjectNames
  BY <1>0, RecordFields, ProfileManagerAssumption DEF TypeOK, Fields
<1>. USE <1>0, <1>1 DEF StepsTo, MovesTo
<1>2. TypeOK'
  BY DEF TypeOK, BluetoothProfileManagerUpdate, serviceVars, stateVars, lockVars,
       historyVars
<1>3. OpInv'
  BY DEF OpInv, OpOK, BluetoothProfileManagerUpdate, Inside, Lookup, AddSteps,
       RemoveSteps, Runs
<1>4. LockInv'
  BY DEF LockInv, BluetoothProfileManagerUpdate, lockVars, HoldsRemoteMutex, HoldsFuncMap,
       Inside, Lookup, Runs, OpInv, OpOK, AddSteps, RemoveSteps
<1>5. TodoInv'
  BY DEF TodoInv, BluetoothProfileManagerUpdate, stateVars, HoldsFuncMap, Inside, Lookup,
       Runs, OpInv, OpOK, AddSteps, RemoveSteps
<1>6. EventInv'
  BY DEF EventInv, BluetoothProfileManagerUpdate, serviceVars
<1>7. FlagInv'
  BY DEF FlagInv, AddPending, Reported, BluetoothProfileManagerUpdate, serviceVars,
       stateVars
<1>8. CacheInv'
  BY DEF CacheInv, RemovePending, Reported, BluetoothProfileManagerUpdate, serviceVars,
       stateVars, historyVars
<1>9. RemoteInv'
  BY DEF RemoteInv, BluetoothProfileManagerUpdate, serviceVars, stateVars
<1>10. ServiceOnInv'
  BY DEF ServiceOnInv, Reported, RaisesServiceOn, BluetoothProfileManagerUpdate,
       serviceVars, stateVars, RemoveSteps, AddSteps
<1>11. CallInv'
  <2>1. ASSUME service # 0, NEW i \in DOMAIN profileIdFuncMap', RunsAll(t) \/ WillCall(t, i)
        PROVE  RunsAll(t)' \/ WillCall(t, i)' \/ StaleCache' \/ Met(i)'
    BY <2>1 DEF BluetoothProfileManagerUpdate, RunsAll, WillCall, HoldsFuncMap,
         serviceVars, stateVars, historyVars, RemoveSteps, AddSteps, Inside, Lookup,
         OpInv, OpOK, Runs
  <2>. QED BY <1>2, <2>1, CallFrame DEF BluetoothProfileManagerUpdate, serviceVars,
       stateVars, historyVars, StaleCache
<1>. QED BY <1>2, <1>3, <1>4, <1>5, <1>6, <1>7, <1>8, <1>9, <1>10, <1>11

LEMMA NotifyBluetoothStateChangeStep ==
  ASSUME IInv, NEW t \in Clients, NotifyBluetoothStateChange(t)
  PROVE  IInv'
<1>. USE SaThreadIsThread, NoThreadIsNone DEF IInv
<1>0. t \in Threads /\ t # SaThread
  BY ProfileManagerAssumption DEF Threads
<1>1. MovesTo(t, "turnOn", "run", thread[t].name, thread[t].id,
               thread[t].remote, thread[t].todo)
  <2>0. Fields(t)
    BY <1>0, RecordFields
  <2>1. thread' = [thread EXCEPT ![t] =
             [op |-> "turnOn", pc |-> "run", name |-> thread[t].name, id |-> thread[t].id,
              remote |-> thread[t].remote, todo |-> thread[t].todo]]
    BY <1>0, <2>0 DEF Fields, NotifyBluetoothStateChange
  <2>2. "run" \in PCs /\ "turnOn" \in Ops
    BY DEF PCs, Ops, Runs
  <2>. QED BY <1>0, <2>0, <2>1, <2>2, RecordMoves DEF Fields
<1>. starts \in Nat /\ thread[t].name \in ObjectNames /\ BLUETOOTH_HOST \in ObjectNames
  BY <1>0, RecordFields, ProfileManagerAssumption DEF TypeOK, Fields
<1>. USE <1>0, <1>1 DEF StepsTo, MovesTo
<1>2. TypeOK'
  BY DEF TypeOK, NotifyBluetoothStateChange, serviceVars, stateVars, lockVars, historyVars
<1>3. OpInv'
  BY DEF OpInv, OpOK, NotifyBluetoothStateChange, Inside, Lookup, AddSteps, RemoveSteps,
       Runs
<1>4. LockInv'
  BY DEF LockInv, NotifyBluetoothStateChange, lockVars, HoldsRemoteMutex, HoldsFuncMap,
       Inside, Lookup, Runs, OpInv, OpOK, AddSteps, RemoveSteps
<1>5. TodoInv'
  BY DEF TodoInv, NotifyBluetoothStateChange, stateVars, HoldsFuncMap, Inside, Lookup,
       Runs, OpInv, OpOK, AddSteps, RemoveSteps
<1>6. EventInv'
  BY DEF EventInv, NotifyBluetoothStateChange, serviceVars
<1>7. FlagInv'
  BY DEF FlagInv, AddPending, Reported, NotifyBluetoothStateChange, serviceVars, stateVars
<1>8. CacheInv'
  BY DEF CacheInv, RemovePending, Reported, NotifyBluetoothStateChange, serviceVars,
       stateVars, historyVars
<1>9. RemoteInv'
  BY DEF RemoteInv, NotifyBluetoothStateChange, serviceVars, stateVars
<1>10. ServiceOnInv'
  BY DEF ServiceOnInv, Reported, RaisesServiceOn, NotifyBluetoothStateChange, serviceVars,
       stateVars, RemoveSteps, AddSteps
<1>11. CallInv'
  <2>1. ASSUME service # 0, NEW i \in DOMAIN profileIdFuncMap', RunsAll(t) \/ WillCall(t, i)
        PROVE  RunsAll(t)' \/ WillCall(t, i)' \/ StaleCache' \/ Met(i)'
    BY <2>1 DEF NotifyBluetoothStateChange, RunsAll, WillCall, HoldsFuncMap, serviceVars,
         stateVars, historyVars, RemoveSteps, AddSteps, Inside, Lookup, OpInv, OpOK, Runs
  <2>. QED BY <1>2, <2>1, CallFrame DEF NotifyBluetoothStateChange, serviceVars,
       stateVars, historyVars, StaleCache
<1>. QED BY <1>2, <1>3, <1>4, <1>5, <1>6, <1>7, <1>8, <1>9, <1>10, <1>11

-----------------------------------------------------------------------------
(***************************************************************************)
(* Steps of the service and of the system ability manager                  *)
(***************************************************************************)
LEMMA InitIInv == Init => IInv
<1>. SUFFICES ASSUME Init
              PROVE  IInv
  OBVIOUS
<1>. USE SaThreadIsThread, NoThreadIsNone
<1>0. Idle \in ThreadRecords /\ Idle.op = "none" /\ Idle.pc = "idle" /\ Idle.remote = 0
  BY ProfileManagerAssumption DEF Idle, ThreadRecords, Ops, Runs, PCs
<1>. HIDE DEF Idle
<1>1. \A t \in Threads : thread[t].op = "none" /\ thread[t].pc = "idle" /\ thread[t].remote = 0
  BY <1>0 DEF Init
<1>2. DOMAIN profileIdFuncMap = {} /\ profileIdFuncMap \in [{} -> ObjectNames]
  BY DEF Init
<1>3. TypeOK
  <2>1. thread \in [Threads -> ThreadRecords] /\ profileRemoteMap \in [ObjectNames -> Nat]
    BY <1>0 DEF Init
  <2>2. saEvents \in Seq({"add", "remove"}) /\ called \in [FuncId -> SUBSET Nat]
    BY DEF Init
  <2>3. DOMAIN profileIdFuncMap \subseteq FuncId
    BY <1>2
  <2>. QED BY <1>2, <2>1, <2>2, <2>3 DEF Init, TypeOK
<1>4. OpInv /\ LockInv /\ TodoInv
  BY <1>1 DEF Init, OpInv, OpOK, LockInv, TodoInv, HoldsRemoteMutex, HoldsFuncMap, Runs,
       Inside, Lookup, AddSteps, RemoveSteps
<1>5. EventInv /\ FlagInv /\ RemoteInv /\ ServiceOnInv /\ CallInv
  BY <1>1 DEF Init, EventInv, FlagInv, RemoteInv, ServiceOnInv, CallInv
<1>6. CacheInv
  BY <1>1 DEF Init, CacheInv
<1>. QED BY <1>3, <1>4, <1>5, <1>6 DEF IInv

LEMMA ServiceStartsStep ==
  ASSUME IInv, ServiceStarts
  PROVE  IInv'
<1>. USE SaThreadIsThread DEF IInv
<1>1. /\ service = 0 /\ service' = starts + 1 /\ starts' = starts + 1 /\ starts \in Nat
      /\ saEvents' = Append(saEvents, "add") /\ saEvents \in Seq({"add", "remove"})
      /\ UNCHANGED <<stateVars, lockVars, thread, historyVars>>
  BY DEF ServiceStarts, TypeOK
<1>2. /\ saEvents' \in Seq({"add", "remove"})
      /\ Len(saEvents') = Len(saEvents) + 1 /\ saEvents'[Len(saEvents')] = "add"
      /\ Len(saEvents) \in Nat
      /\ \A i \in 1 .. Len(saEvents) : saEvents'[i] = saEvents[i]
  BY <1>1
<1>3. Reported("add")'
  BY <1>2 DEF Reported
<1>4. Reported("remove") => Reported("remove")'
  BY <1>2 DEF Reported
<1>5. TypeOK'
  BY <1>1, <1>2 DEF TypeOK, stateVars, lockVars, historyVars
<1>6. OpInv' /\ LockInv' /\ TodoInv'
  BY <1>1 DEF OpInv, OpOK, LockInv, TodoInv, HoldsRemoteMutex, HoldsFuncMap, stateVars,
       lockVars
<1>7. EventInv'
  BY <1>1, <1>2 DEF EventInv
<1>8. FlagInv' /\ ServiceOnInv'
  BY <1>1, <1>3 DEF FlagInv, AddPending, ServiceOnInv, stateVars
<1>9. CacheInv'
  BY <1>1, <1>4 DEF CacheInv, RemovePending, stateVars, historyVars
<1>10. RemoteInv'
  <2>1. /\ \A o \in ObjectNames : profileRemoteMap[o] \in Nat
        /\ \A t \in Threads : thread[t].remote \in Nat
    BY DEF TypeOK, ThreadRecords
  <2>. QED BY <1>1, <2>1 DEF RemoteInv, stateVars
<1>11. CallInv'
  BY <1>3 DEF CallInv, Answered
<1>. QED BY <1>5, <1>6, <1>7, <1>8, <1>9, <1>10, <1>11

LEMMA ServiceDiesStep ==
  ASSUME IInv, ServiceDies
  PROVE  IInv'
<1>. USE SaThreadIsThread DEF IInv
<1>1. /\ service' = 0 /\ saEvents' = Append(saEvents, "remove")
      /\ saEvents \in Seq({"add", "remove"}) /\ starts \in Nat
      /\ UNCHANGED <<starts, stateVars, lockVars, thread, historyVars>>
  BY DEF ServiceDies, TypeOK
<1>2. /\ saEvents' \in Seq({"add", "remove"})
      /\ Len(saEvents') = Len(saEvents) + 1 /\ saEvents'[Len(saEvents')] = "remove"
      /\ Len(saEvents) \in Nat
      /\ \A i \in 1 .. Len(saEvents) : saEvents'[i] = saEvents[i]
  BY <1>1
<1>3. Reported("remove")'
  BY <1>2 DEF Reported
<1>4. TypeOK'
  BY <1>1, <1>2 DEF TypeOK, stateVars, lockVars, historyVars
<1>5. OpInv' /\ LockInv' /\ TodoInv'
  BY <1>1 DEF OpInv, OpOK, LockInv, TodoInv, HoldsRemoteMutex, HoldsFuncMap, stateVars,
       lockVars
<1>6. EventInv' /\ FlagInv' /\ ServiceOnInv' /\ CallInv'
  BY <1>1 DEF EventInv, FlagInv, ServiceOnInv, CallInv, stateVars
<1>7. CacheInv'
  BY <1>3 DEF CacheInv, RemovePending
<1>8. RemoteInv'
  BY <1>1 DEF RemoteInv, stateVars
<1>. QED BY <1>4, <1>5, <1>6, <1>7, <1>8

LEMMA DeliverSaEventStep ==
  ASSUME IInv, DeliverSaEvent
  PROVE  IInv'
<1>. DEFINE event == Head(saEvents)
            t == SaThread
<1>. USE SaThreadIsThread, NoThreadIsNone DEF IInv
<1>1. /\ saEvents \in Seq({"add", "remove"}) /\ saEvents # <<>> /\ thread[t].pc = "idle"
      /\ saEvents' = Tail(saEvents) /\ starts \in Nat
      /\ UNCHANGED <<service, starts, stateVars, lockVars, historyVars>>
  BY DEF DeliverSaEvent, TypeOK
<1>2. /\ event \in {"add", "remove"} /\ saEvents' \in Seq({"add", "remove"})
      /\ Len(saEvents) \in Nat \ {0} /\ Len(saEvents') = Len(saEvents) - 1
      /\ event = saEvents[1]
      /\ \A i \in 1 .. Len(saEvents') : saEvents'[i] = saEvents[i + 1]
  BY <1>1
<1>3. \A e : Reported(e) => Reported(e)' \/ event = e
  <2>. SUFFICES ASSUME NEW e, NEW i \in 1 .. Len(saEvents), saEvents[i] = e, event # e
                PROVE  Reported(e)'
    BY DEF Reported
  <2>1. i - 1 \in 1 .. Len(saEvents') /\ saEvents'[i - 1] = e
    BY <1>2
  <2>. QED BY <2>1 DEF Reported
<1>4. MovesTo(t, event, event, thread[t].name, thread[t].id, thread[t].remote, thread[t].todo)
  <2>1. Fields(t)
    BY RecordFields
  <2>2. event \in Ops /\ event \in PCs
    BY <1>2 DEF Ops, Runs, PCs, AddSteps, RemoveSteps
  <2>3. thread' = [thread EXCEPT ![t].op = event, ![t].pc = event]
    BY DEF DeliverSaEvent
  <2>. HIDE DEF event
  <2>4. thread' \in [Threads -> ThreadRecords]
    BY <2>1, <2>2, <2>3 DEF Fields, ThreadRecords
  <2>5. \A u \in Threads \ {t} : thread'[u] = thread[u]
    BY <2>1, <2>3 DEF Fields
  <2>6. /\ thread'[t].op = event /\ thread'[t].pc = event
        /\ thread'[t].name = thread[t].name /\ thread'[t].id = thread[t].id
        /\ thread'[t].remote = thread[t].remote /\ thread'[t].todo = thread[t].todo
    BY <2>1, <2>3 DEF Fields, ThreadRecords
  <2>. QED BY <2>4, <2>5, <2>6 DEF MovesTo
<1>. HIDE DEF event
<1>. USE DEF MovesTo
<1>5. TypeOK'
  BY <1>1, <1>2, <1>4 DEF TypeOK, stateVars, lockVars, historyVars
<1>6. OpInv'
  BY <1>1, <1>2, <1>4 DEF OpInv, OpOK, Inside, Lookup, AddSteps, RemoveSteps
<1>7. LockInv' /\ TodoInv'
  BY <1>1, <1>2, <1>4 DEF LockInv, TodoInv, OpInv, OpOK, HoldsRemoteMutex, HoldsFuncMap,
       stateVars, lockVars, Runs, Inside, Lookup
<1>8. EventInv'
  <2>1. ASSUME Len(saEvents') > 0
        PROVE  saEvents'[Len(saEvents')] = saEvents[Len(saEvents)]
    <3>1. Len(saEvents') \in 1 .. Len(saEvents') /\ Len(saEvents') + 1 = Len(saEvents)
      BY <1>2, <2>1
    <3>. QED BY <1>2, <3>1
  <2>2. ASSUME Len(saEvents') = 0
        PROVE  saEvents[Len(saEvents)] = event
    <3>1. Len(saEvents) = 1
      BY <1>2, <2>2
    <3>. QED BY <1>2, <3>1
  <2>. QED BY <1>1, <1>2, <1>4, <2>1, <2>2 DEF EventInv
<1>9. AddPending => AddPending'
  BY <1>1, <1>3, <1>4 DEF AddPending
<1>10. FlagInv'
  BY <1>1, <1>2, <1>4, <1>9 DEF FlagInv, stateVars
<1>11. RemovePending => RemovePending'
  BY <1>1, <1>3, <1>4 DEF RemovePending
<1>12. CacheInv'
  BY <1>1, <1>2, <1>4, <1>11 DEF CacheInv, stateVars, historyVars
<1>13. RemoteInv'
  BY <1>1, <1>4 DEF RemoteInv, stateVars
<1>14. ~RaisesServiceOn(t) /\ ~RunsAll(t) /\ \A id \in FuncId : ~WillCall(t, id)
  BY <1>1 DEF RaisesServiceOn, RunsAll, WillCall, HoldsFuncMap, OpInv, OpOK, RemoveSteps,
       AddSteps, Lookup, Inside
<1>15. event = "add" => RaisesServiceOn(t)' /\ RunsAll(t)'
  BY <1>4 DEF RaisesServiceOn, RunsAll, AddSteps
<1>16. ServiceOnInv'
  BY <1>1, <1>3, <1>4, <1>14, <1>15 DEF ServiceOnInv, RaisesServiceOn, stateVars
<1>17. CallInv'
  <2>. SUFFICES ASSUME service # 0, NEW id \in DOMAIN profileIdFuncMap
                PROVE  Answered(id)'
    BY <1>1 DEF CallInv, stateVars
  <2>1. Answered(id) /\ id \in FuncId
    BY DEF CallInv, TypeOK
  <2>2. CASE Met(id) \/ StaleCache
    BY <1>1, <2>2 DEF Answered, Met, StaleCache, stateVars, historyVars
  <2>3. CASE Reported("add")
    BY <1>3, <1>15, <2>3 DEF Answered
  <2>4. ASSUME NEW u \in Threads, RunsAll(u) \/ WillCall(u, id)
        PROVE  RunsAll(u)' \/ WillCall(u, id)'
    BY <1>1, <1>4, <1>14, <2>1, <2>4 DEF RunsAll, WillCall, HoldsFuncMap
  <2>. QED BY <2>1, <2>2, <2>3, <2>4 DEF Answered
<1>. QED BY <1>5, <1>6, <1>7, <1>8, <1>10, <1>12, <1>13, <1>16, <1>17

LEMMA StutterStep == IInv /\ UNCHANGED vars => IInv'
<1>. SUFFICES ASSUME IInv, UNCHANGED vars
              PROVE  IInv'
  OBVIOUS
<1>. USE DEF IInv, vars, serviceVars, stateVars, lockVars, historyVars
<1>1. TypeOK' /\ OpInv' /\ LockInv' /\ TodoInv'
  BY DEF TypeOK, OpInv, OpOK, LockInv, TodoInv, HoldsRemoteMutex, HoldsFuncMap
<1>2. EventInv' /\ FlagInv' /\ CacheInv' /\ RemoteInv'
  BY DEF EventInv, FlagInv, CacheInv, RemoteInv, AddPending, RemovePending, Reported
<1>3. ServiceOnInv' /\ CallInv'
  BY DEF ServiceOnInv, CallInv, Answered, Met, StaleCache, RaisesServiceOn, RunsAll,
       WillCall,
       HoldsFuncMap, Reported
<1>. QED BY <1>1, <1>2, <1>3

LEMMA StepIInv == IInv /\ [Next]_vars => IInv'
<1>. SUFFICES ASSUME IInv, [Next]_vars
              PROVE  IInv'
  OBVIOUS
<1>1. CASE ServiceStarts
  BY <1>1, ServiceStartsStep
<1>2. CASE ServiceDies
  BY <1>2, ServiceDiesStep
<1>3. CASE DeliverSaEvent
  BY <1>3, DeliverSaEventStep
<1>4. ASSUME NEW t \in Clients, ClientCall(t)
      PROVE  IInv'
  BY <1>4, GetRemoteProxyStep, RegisterFuncStep, DeregisterFuncStep,
       BluetoothProfileManagerUpdateStep, NotifyBluetoothStateChangeStep DEF ClientCall
<1>5. ASSUME NEW t \in Threads, GetProfileRemoteStep(t)
      PROVE  IInv'
  BY <1>5, FindCachedStep, GetHostRemoteStep, HostCheckedStep, AskHostStep,
       InsertRemoteStep DEF GetProfileRemoteStep
<1>6. ASSUME NEW t \in Threads, OnAddSystemAbilityStep(t)
      PROVE  IInv'
  BY <1>6, AddServiceOnStep, AddNeedCheckStep, RunFuncsStep, RunNextFuncStep,
       FuncGotRemoteStep, FuncsDoneStep DEF OnAddSystemAbilityStep
<1>7. ASSUME NEW t \in Threads, OnRemoveSystemAbilityStep(t)
      PROVE  IInv'
  BY <1>7, RemoveClearStep, RemoveServiceOffStep, RemoveNeedCheckStep, RemoveTurnOffStep
       DEF OnRemoveSystemAbilityStep
<1>8. ASSUME NEW t \in Threads, ThreadStep(t)
      PROVE  IInv'
  BY <1>5, <1>6, <1>7, <1>8, RegisterLooksUpStep, ClientGotRemoteStep,
       AddNotifiesHostStep, RemoveTellsSwitchStep DEF ThreadStep, ManagerStep
<1>9. CASE UNCHANGED vars
  BY <1>9, StutterStep
<1>. QED BY <1>1, <1>2, <1>3, <1>4, <1>8, <1>9 DEF Next

\* The inductive invariant holds in every behaviour of the manager.
THEOREM Invariance == Spec => []IInv
BY InitIInv, StepIInv, PTL DEF Spec

-----------------------------------------------------------------------------
(***************************************************************************)
(* The flag that spares the question to the system ability manager         *)
(* (isNeedCheckBluetoothServiceOn_) never hides a service whose start the  *)
(* manager has heard of.                                                   *)
(***************************************************************************)
THEOREM FlagNeverHidesService == Spec => []RunningServiceIsFound
<1>1. IInv => RunningServiceIsFound
  BY DEF IInv, FlagInv, AddPending, Reported, RunningServiceIsFound
<1>. QED BY <1>1, Invariance, PTL

(***************************************************************************)
(* OnRemoveSystemAbility leaves no remote of a dead service in the cache   *)
(* unless a lookup was between its question and its insertion.             *)
(***************************************************************************)
THEOREM NoDeadRemoteUnlessOvertaken == Spec => []DeadRemoteOnlyIfOvertaken
<1>1. IInv => DeadRemoteOnlyIfOvertaken
  BY DEF IInv, CacheInv, RemovePending, Reported, DeadRemoteOnlyIfOvertaken
<1>. QED BY <1>1, Invariance, PTL

(***************************************************************************)
(* Whatever the order of RegisterFunc, the starts and deaths of the        *)
(* service and the loads of an image: once all is quiet, every registered  *)
(* function was called with a remote of the running service.               *)
(***************************************************************************)
THEOREM EveryRegistrationServed == Spec => []NoRegistrationMissed
<1>1. ASSUME IInv
      PROVE  NoRegistrationMissed
  <2>. SUFFICES ASSUME Quiet, service # 0, NEW id \in DOMAIN profileIdFuncMap,
                       \A o \in ObjectNames : profileRemoteMap[o] \in {0, service}
                PROVE  service \in called[id] \cup refused[id]
    BY DEF NoRegistrationMissed
  <2>1. Answered(id) /\ ~StaleCache /\ ~Reported("add")
    BY <1>1 DEF IInv, CallInv, StaleCache, Reported, Quiet
  <2>2. ASSUME NEW t \in Threads
        PROVE  ~RunsAll(t) /\ ~WillCall(t, id)
    BY DEF Quiet, RunsAll, WillCall, HoldsFuncMap, AddSteps, RemoveSteps, Lookup, Inside
  <2>. QED BY <2>1, <2>2 DEF Answered, Met
<1>. QED BY <1>1, Invariance, PTL

-----------------------------------------------------------------------------
(***************************************************************************)
(* Loading of the service.  A loader looks the host up or waits.           *)
(***************************************************************************)
Looking == {"first", "predicate", "lastPredicate"}
Waiting == {"lock", "sleep", "asleep", "notified", "timedOut", "giveUp", "loaded",
            "failed", "succeeded"}

LoadTypeOK ==
  /\ loader \in [Clients -> {"none"} \cup Looking \cup Waiting]
  /\ atEnd \in [Clients -> [service : Nat, handled : BOOLEAN]]

\* what the thread does while its load is at some step
LoaderAt(t) ==
  /\ loader[t] = "none" => thread[t].pc = "idle"
  /\ loader[t] \in Waiting => thread[t].pc = "load"
  /\ loader[t] \in Looking =>
       /\ thread[t].op = "load" /\ thread[t].name = BLUETOOTH_HOST
       /\ thread[t].pc \in Lookup \ {"profile"}

(***************************************************************************)
(* A wait that ended while the service was running and its start had been  *)
(* handled: as long as that service runs no report is under way, so that   *)
(* the flag is up and the last lookup after a timeout finds a remote.      *)
(***************************************************************************)
EndedWhileUp(t) == service # 0 /\ atEnd[t].service = service /\ atEnd[t].handled

TimedOutWhileUp(t) ==
  loader[t] \in {"timedOut", "lastPredicate", "giveUp"} /\ EndedWhileUp(t)

WillFind(t) ==
  TimedOutWhileUp(t) =>
    /\ StartHandled
    /\ loader[t] # "giveUp"
    /\ loader[t] = "lastPredicate" /\ thread[t].pc \in {"checked", "insert", "got"}
         => thread[t].remote # 0

LoaderInv ==
  \A t \in Clients : LoaderAt(t) /\ WillFind(t) /\ atEnd[t].service <= starts

LoadInv == IInv /\ LoadTypeOK /\ LoaderInv

(***************************************************************************)
(* Handling a start takes a failure that was reported before it away; one  *)
(* that is still seen was reported after it.                               *)
(***************************************************************************)
FailInv ==
  /\ saManagerStatus = "LOAD_FAIL" /\ StartHandled => service \in lateFails
  /\ \A t \in Clients : At(t, "failed") /\ EndedWhileUp(t) => service \in lateFails

(***************************************************************************)
(* The steps of a load leave the manager alone and move their own thread   *)
(* between its lookups, which hold no lock at these points.                *)
(***************************************************************************)
LoaderMove(t) ==
  /\ UNCHANGED managerVars
  /\ thread' \in [Threads -> ThreadRecords]
  /\ \A u \in Threads \ {t} : thread'[u] = thread[u]
  /\ \/ thread'[t].op = "none" /\ thread'[t].pc = "idle"
     \/ thread'[t].op = "load" /\ thread'[t].pc \in {"load", "find"}
  /\ thread'[t].remote \in {0, thread[t].remote}

LEMMA LoaderMoveStep ==
  ASSUME IInv, NEW t \in Clients, LoaderMove(t),
         thread[t].pc \in {"idle", "load", "got"}, thread[t].op \in {"none", "load"}
  PROVE  IInv'
<1>. USE SaThreadIsThread, NoThreadIsNone DEF IInv, LoaderMove
<1>0. t \in Threads /\ t # SaThread
  BY ProfileManagerAssumption DEF Threads
<1>. starts \in Nat /\ thread[t].remote \in Nat /\ BLUETOOTH_HOST \in ObjectNames
  BY <1>0, RecordFields, ProfileManagerAssumption DEF TypeOK, Fields
<1>. USE <1>0 DEF managerVars
<1>2. TypeOK'
  BY DEF TypeOK, serviceVars, stateVars, lockVars, historyVars
<1>3. OpInv'
  BY DEF OpInv, OpOK, Inside, Lookup, AddSteps, RemoveSteps, Runs
<1>4. LockInv'
  BY DEF LockInv, lockVars, HoldsRemoteMutex, HoldsFuncMap, Inside, Lookup, Runs, OpInv,
       OpOK, AddSteps, RemoveSteps
<1>5. TodoInv'
  BY DEF TodoInv, stateVars, HoldsFuncMap, Inside, Lookup, Runs
<1>6. EventInv'
  BY DEF EventInv, serviceVars
<1>7. FlagInv'
  BY DEF FlagInv, AddPending, Reported, serviceVars, stateVars
<1>8. CacheInv'
  BY DEF CacheInv, RemovePending, Reported, serviceVars, stateVars, historyVars
<1>9. RemoteInv'
  BY DEF RemoteInv, serviceVars, stateVars
<1>10. ServiceOnInv'
  BY DEF ServiceOnInv, Reported, RaisesServiceOn, serviceVars, stateVars, RemoveSteps
<1>11. CallInv'
  <2>1. \A i : ~RunsAll(t) /\ ~WillCall(t, i)
    BY DEF RunsAll, WillCall, HoldsFuncMap, Runs
  <2>. QED BY <1>2, <2>1, CallFrame DEF serviceVars, stateVars, historyVars, StaleCache
<1>. QED BY <1>2, <1>3, <1>4, <1>5, <1>6, <1>7, <1>8, <1>9, <1>10, <1>11

\* the other loaders keep their promises
LEMMA LoaderFrame ==
  ASSUME LoaderInv, NEW t \in Clients,
         UNCHANGED <<service, starts, saEvents>>,
         \A u \in Threads \ {t} : thread'[u] = thread[u],
         \A u \in Clients \ {t} : loader'[u] = loader[u] /\ atEnd'[u] = atEnd[u],
         LoaderAt(t)', WillFind(t)', (atEnd[t].service <= starts)'
  PROVE  LoaderInv'
<1>1. \A u \in Clients \ {t} : u \in Threads \ {t}
  BY DEF Threads
<1>2. thread'[SaThread] = thread[SaThread]
  BY ProfileManagerAssumption DEF Threads
<1>3. ASSUME NEW u \in Clients \ {t}
      PROVE  LoaderAt(u)' /\ WillFind(u)' /\ (atEnd[u].service <= starts)'
  BY <1>1, <1>2, <1>3
  DEF LoaderInv, LoaderAt, WillFind, TimedOutWhileUp, EndedWhileUp, StartHandled
<1>. QED BY <1>3 DEF LoaderInv

\* the moves of a loader
LEMMA LookUpHostMoves ==
  ASSUME TypeOK, NEW t \in Threads, UNCHANGED managerVars, thread[t].op = "load",
         thread' = [thread EXCEPT ![t].pc = "find", ![t].name = BLUETOOTH_HOST]
  PROVE  LoaderMove(t) /\ thread'[t].name = BLUETOOTH_HOST /\ thread'[t].pc = "find"
         /\ thread'[t].op = "load"
<1>1. Fields(t) /\ BLUETOOTH_HOST \in ObjectNames /\ "find" \in PCs
  BY RecordFields, ProfileManagerAssumption DEF PCs, Lookup
<1>2. thread' = [thread EXCEPT ![t] =
           [op |-> thread[t].op, pc |-> "find", name |-> BLUETOOTH_HOST, id |-> thread[t].id,
            remote |-> thread[t].remote, todo |-> thread[t].todo]]
  <2>1. thread' = [thread EXCEPT ![t] = [thread[t] EXCEPT !.pc = "find",
                                                          !.name = BLUETOOTH_HOST]]
    BY <1>1 DEF Fields
  <2>. QED BY <1>1, <2>1 DEF Fields
<1>3. MovesTo(t, thread[t].op, "find", BLUETOOTH_HOST, thread[t].id, thread[t].remote,
              thread[t].todo)
  BY <1>1, <1>2, RecordMoves DEF Fields
<1>. QED BY <1>3 DEF MovesTo, LoaderMove

LEMMA LoadReturnMoves ==
  ASSUME TypeOK, NEW t \in Threads, UNCHANGED managerVars,
         thread' = [thread EXCEPT ![t] = Idle]
  PROVE  LoaderMove(t) /\ thread'[t].pc = "idle"
<1>1. MovesTo(t, "none", "idle", BLUETOOTH_HOST, 0, 0, {})
  BY IdleMoves DEF TypeOK
<1>. QED BY <1>1 DEF MovesTo, LoaderMove

LEMMA BackToLoadMoves ==
  ASSUME TypeOK, NEW t \in Threads, UNCHANGED managerVars, thread[t].op = "load",
         Goto(t, "load")
  PROVE  LoaderMove(t) /\ thread'[t].pc = "load"
<1>1. StepsTo(t, "load", thread[t].remote)
  BY StepMoves, RecordFields DEF TypeOK, Fields, PCs
<1>. QED BY <1>1 DEF StepsTo, MovesTo, LoaderMove

LEMMA StaysMoves ==
  ASSUME TypeOK, NEW t \in Threads, UNCHANGED <<managerVars, thread>>,
         thread[t].op = "load", thread[t].pc = "load"
  PROVE  LoaderMove(t)
BY DEF TypeOK, LoaderMove

(***************************************************************************)
(* The calls, and the steps of a load                                      *)
(***************************************************************************)
LEMMA NeedsServiceStep ==
  ASSUME LoadInv, NEW t \in Clients, NeedsService(t)
  PROVE  LoadInv'
<1>0. t \in Threads /\ IInv /\ TypeOK /\ LoadTypeOK /\ LoaderInv
  BY DEF LoadInv, IInv, Threads
<1>1. Fields(t) /\ "load" \in Ops /\ "load" \in PCs
  BY <1>0, RecordFields DEF Ops, PCs
<1>2. thread' = [thread EXCEPT ![t] =
           [op |-> "load", pc |-> "load", name |-> thread[t].name, id |-> thread[t].id,
            remote |-> thread[t].remote, todo |-> thread[t].todo]]
  BY <1>0, <1>1 DEF Fields, NeedsService
<1>3. MovesTo(t, "load", "load", thread[t].name, thread[t].id, thread[t].remote,
              thread[t].todo)
  BY <1>0, <1>1, <1>2, RecordMoves DEF Fields
<1>4. LoaderMove(t) /\ thread'[t].pc = "load"
  BY <1>3 DEF MovesTo, LoaderMove, NeedsService
<1>5. thread[t].pc = "idle" /\ thread[t].op = "none"
  BY <1>0 DEF NeedsService, IInv, OpInv, OpOK
<1>6. IInv'
  BY <1>0, <1>4, <1>5, LoaderMoveStep
<1>7. /\ loader' \in [Clients -> {"none"} \cup Looking \cup Waiting]
      /\ loader'[t] = "lock" /\ \A u \in Clients \ {t} : loader'[u] = loader[u]
  BY <1>0 DEF NeedsService, LoaderGoto, LoadTypeOK, Waiting
<1>8. LoadTypeOK'
  BY <1>0, <1>7 DEF NeedsService, LoadTypeOK, loadHistoryVars
<1>9. LoaderAt(t)' /\ WillFind(t)' /\ atEnd' = atEnd /\ atEnd[t].service <= starts
  BY <1>0, <1>4, <1>7 DEF LoaderAt, WillFind, TimedOutWhileUp, EndedWhileUp, Looking,
       Waiting, NeedsService,
       loadHistoryVars, LoaderInv
<1>10. LoaderInv'
  BY <1>0, <1>4, <1>7, <1>9, LoaderFrame DEF LoaderMove, NeedsService, managerVars,
       serviceVars
<1>. QED BY <1>6, <1>8, <1>10 DEF LoadInv

\* one step of a load, from what it does to its thread and its place
LEMMA LoaderStepKeeps ==
  ASSUME LoadInv, NEW t \in Clients, loader[t] # "none",
         loader[t] \in Looking => thread[t].pc = "got",
         LoaderMove(t), atEnd' = atEnd \/ NoteEnd(t),
         NEW step \in {"none"} \cup Looking \cup Waiting, LoaderGoto(t, step),
         step = "none" => thread'[t].pc = "idle",
         step \in Waiting => thread'[t].pc = "load",
         step \in Looking => /\ thread'[t].op = "load" /\ thread'[t].pc = "find"
                             /\ thread'[t].name = BLUETOOTH_HOST,
         step # "timedOut",
         step = "lastPredicate" => loader[t] = "timedOut",
         step \in {"lastPredicate", "giveUp"} => atEnd' = atEnd,
         step = "giveUp" => loader[t] = "lastPredicate" /\ ~TimedOutWhileUp(t)
  PROVE  LoadInv'
<1>0. t \in Threads /\ IInv /\ LoadTypeOK /\ LoaderInv /\ LoaderAt(t) /\ WillFind(t)
  BY DEF LoadInv, Threads, LoaderInv
<1>1. /\ loader' \in [Clients -> {"none"} \cup Looking \cup Waiting]
      /\ loader'[t] = step /\ \A u \in Clients \ {t} : loader'[u] = loader[u]
  BY <1>0 DEF LoaderGoto, LoadTypeOK
<1>2. thread[t].pc \in {"load", "got"} /\ thread[t].op = "load"
  BY <1>0 DEF LoadTypeOK, LoaderAt, IInv, OpInv, OpOK
<1>3. IInv'
  BY <1>0, <1>2, LoaderMoveStep
<1>4. /\ LoadTypeOK'
      /\ \A u \in Clients \ {t} : atEnd'[u] = atEnd[u]
      /\ atEnd'[t].service <= starts
  <2>1. service \in Nat /\ service <= starts /\ StartHandled \in BOOLEAN
    BY <1>0 DEF IInv, TypeOK, RemoteInv, StartHandled
  <2>2. atEnd[t].service <= starts
    BY <1>0 DEF LoaderInv
  <2>. QED BY <1>0, <1>1, <2>1, <2>2 DEF LoadTypeOK, NoteEnd
<1>5. UNCHANGED <<service, starts, saEvents>> /\ thread'[SaThread] = thread[SaThread]
  BY ProfileManagerAssumption DEF LoaderMove, managerVars, serviceVars, Threads
<1>6. LoaderAt(t)'
  BY <1>1 DEF LoaderAt, Looking, Waiting, Lookup
<1>7. WillFind(t)'
  <2>1. SUFFICES ASSUME TimedOutWhileUp(t)' PROVE WillFind(t)'
    BY DEF WillFind
  <2>2. step = "lastPredicate" /\ TimedOutWhileUp(t)
    BY <1>1, <1>5, <2>1 DEF TimedOutWhileUp, EndedWhileUp
  <2>3. StartHandled'
    BY <1>0, <1>5, <2>2 DEF WillFind, StartHandled
  <2>. QED BY <1>1, <2>2, <2>3 DEF WillFind, Looking
<1>8. LoaderInv'
  BY <1>0, <1>1, <1>4, <1>5, <1>6, <1>7, LoaderFrame DEF LoaderMove
<1>. QED BY <1>3, <1>4, <1>8 DEF LoadInv

LEMMA LoaderStepStep ==
  ASSUME LoadInv, NEW t \in Clients, LoaderStep(t)
  PROVE  LoadInv'
<1>0. /\ t \in Threads /\ TypeOK /\ LoaderAt(t) /\ WillFind(t)
      /\ loader[t] \in {"none"} \cup Looking \cup Waiting
  BY DEF LoadInv, IInv, LoaderInv, Threads, LoadTypeOK
<1>1. /\ loader[t] \in Waiting => thread[t].op = "load" /\ thread[t].pc = "load"
      /\ loader[t] \in Looking => thread[t].op = "load"
  BY <1>0 DEF LoaderAt, LoadInv, IInv, OpInv, OpOK
<1>. USE DEF Looking, Waiting, At
<1>2. CASE LoadLocks(t)
  <2>1. loader[t] = "lock" /\ LookUpHost(t, "first") /\ UNCHANGED <<managerVars, atEnd>>
    BY <1>2 DEF LoadLocks, loadHistoryVars
  <2>2. LoaderMove(t) /\ thread'[t].name = BLUETOOTH_HOST /\ thread'[t].pc = "find"
        /\ thread'[t].op = "load"
    BY <1>0, <1>1, <2>1, LookUpHostMoves DEF LookUpHost
  <2>. QED BY <2>1, <2>2, LoaderStepKeeps DEF LookUpHost
<1>3. CASE ServiceIsUp(t) \/ GiveUp(t) \/ ResetStatus(t)
  <2>1. /\ loader[t] \in {"first", "giveUp", "failed", "succeeded"} /\ LoadReturn(t)
        /\ loader[t] = "first" => thread[t].pc = "got"
        /\ UNCHANGED <<managerVars, atEnd>>
    BY <1>3 DEF ServiceIsUp, GiveUp, ResetStatus, loadHistoryVars
  <2>2. LoaderMove(t) /\ thread'[t].pc = "idle"
    BY <1>0, <2>1, LoadReturnMoves DEF LoadReturn
  <2>. QED BY <2>1, <2>2, LoaderStepKeeps DEF LoadReturn
<1>4. CASE LoadSystemAbility(t)
  <2>1. /\ loader[t] = "first" /\ thread[t].pc = "got" /\ UNCHANGED <<managerVars, atEnd>>
        /\ LookUpHost(t, "predicate") \/ LoadReturn(t)
    BY <1>4 DEF LoadSystemAbility, loadHistoryVars
  <2>2. CASE LookUpHost(t, "predicate")
    <3>1. LoaderMove(t) /\ thread'[t].name = BLUETOOTH_HOST /\ thread'[t].pc = "find"
          /\ thread'[t].op = "load"
      BY <1>0, <1>1, <2>1, <2>2, LookUpHostMoves DEF LookUpHost
    <3>. QED BY <2>1, <2>2, <3>1, LoaderStepKeeps DEF LookUpHost
  <2>3. CASE LoadReturn(t)
    <3>1. LoaderMove(t) /\ thread'[t].pc = "idle"
      BY <1>0, <2>1, <2>3, LoadReturnMoves DEF LoadReturn
    <3>. QED BY <2>1, <2>3, <3>1, LoaderStepKeeps DEF LoadReturn
  <2>. QED BY <2>1, <2>2, <2>3
<1>5. CASE EvaluatePredicate(t)
  <2>1. /\ loader[t] \in {"predicate", "lastPredicate"} /\ thread[t].pc = "got"
        /\ Goto(t, "load") /\ UNCHANGED <<managerVars, atEnd>>
    BY <1>5 DEF EvaluatePredicate, loadHistoryVars
  <2>2. PICK step \in {"loaded", "sleep", "giveUp"} :
          /\ LoaderGoto(t, step)
          /\ step = "giveUp" => loader[t] = "lastPredicate" /\ thread[t].remote = 0
    BY <1>5 DEF EvaluatePredicate, loadHistoryVars
  <2>3. step = "giveUp" => ~TimedOutWhileUp(t)
    BY <1>0, <2>1, <2>2 DEF WillFind
  <2>4. LoaderMove(t) /\ thread'[t].pc = "load"
    BY <1>0, <1>1, <2>1, BackToLoadMoves
  <2>. QED BY <2>1, <2>2, <2>3, <2>4, LoaderStepKeeps
<1>6. CASE FallAsleep(t) \/ ReadStatus(t)
  <2>1. /\ loader[t] \in {"sleep", "loaded"} /\ UNCHANGED <<managerVars, thread>>
        /\ atEnd' = atEnd \/ NoteEnd(t)
        /\ \E step \in {"asleep", "failed", "succeeded"} : LoaderGoto(t, step)
    BY <1>6 DEF FallAsleep, ReadStatus, loadHistoryVars
  <2>2. LoaderMove(t) /\ thread'[t].pc = "load"
    BY <1>0, <1>1, <2>1, StaysMoves
  <2>. QED BY <2>1, <2>2, LoaderStepKeeps
<1>7. CASE WakeUp(t)
  <2>1. /\ loader[t] \in {"notified", "timedOut"} /\ UNCHANGED <<managerVars, atEnd>>
        /\ \E step \in {"predicate", "lastPredicate"} :
             LookUpHost(t, step) /\ (step = "lastPredicate" => loader[t] = "timedOut")
    BY <1>7 DEF WakeUp, loadHistoryVars
  <2>2. LoaderMove(t) /\ thread'[t].name = BLUETOOTH_HOST /\ thread'[t].pc = "find"
        /\ thread'[t].op = "load"
    BY <1>0, <1>1, <2>1, LookUpHostMoves DEF LookUpHost
  <2>. QED BY <2>1, <2>2, LoaderStepKeeps DEF LookUpHost
<1>. QED BY <1>2, <1>3, <1>4, <1>5, <1>6, <1>7 DEF LoaderStep

(***************************************************************************)
(* Notifications and the timeout move a sleeper only.                      *)
(***************************************************************************)
LEMMA NotifyOneKeeps ==
  ASSUME LoadTypeOK, LoaderInv, NotifyOne, atEnd' = atEnd,
         UNCHANGED <<service, starts>>,
         \A u \in Clients : thread'[u] = thread[u],
         \A u \in Clients : TimedOutWhileUp(u) => StartHandled'
  PROVE  LoadTypeOK' /\ LoaderInv'
<1>1. \A u \in Clients : \/ loader'[u] = loader[u]
                         \/ loader[u] = "asleep" /\ loader'[u] = "notified"
  BY DEF NotifyOne, LoaderGoto, Asleep, At, LoadTypeOK
<1>2. LoadTypeOK'
  BY DEF NotifyOne, LoaderGoto, LoadTypeOK, Waiting
<1>3. ASSUME NEW u \in Clients
      PROVE  LoaderAt(u)' /\ WillFind(u)' /\ (atEnd[u].service <= starts)'
  <2>1. LoaderAt(u) /\ WillFind(u) /\ atEnd[u].service <= starts
    BY <1>3 DEF LoaderInv
  <2>. QED BY <1>1, <1>3, <2>1 DEF LoaderAt, WillFind, TimedOutWhileUp, EndedWhileUp,
       Waiting, Looking
<1>. QED BY <1>2, <1>3 DEF LoaderInv

LEMMA LoadAnsweredStep ==
  ASSUME LoadInv, NEW t \in Clients,
         OnLoadSystemAbilitySuccess(t) \/ OnLoadSystemAbilityFail(t)
  PROVE  LoadInv'
<1>1. /\ UNCHANGED <<managerVars, thread, atEnd>> /\ NotifyOne
  BY DEF OnLoadSystemAbilitySuccess, OnLoadSystemAbilityFail, LoadSystemAbilitySuccess,
         LoadSystemAbilityFail, loadHistoryVars
<1>2. UNCHANGED <<vars, service, starts, saEvents>>
  BY <1>1 DEF managerVars, vars, serviceVars, stateVars, lockVars, historyVars
<1>3. \A u \in Clients : TimedOutWhileUp(u) => StartHandled'
  BY <1>1, <1>2 DEF LoadInv, LoaderInv, WillFind, StartHandled
<1>. QED BY <1>1, <1>2, <1>3, NotifyOneKeeps, StutterStep DEF LoadInv

LEMMA LoadTimeoutStep ==
  ASSUME LoadInv, NEW t \in Clients, LoadTimeout(t)
  PROVE  LoadInv'
<1>1. /\ loader[t] = "asleep"
      /\ LoaderGoto(t, "timedOut") /\ UNCHANGED <<managerVars, thread>>
      /\ atEnd' = [atEnd EXCEPT ![t] = [service |-> service, handled |-> StartHandled]]
  BY DEF LoadTimeout, NoteEnd, At
<1>2. UNCHANGED <<vars, service, starts, saEvents>>
  BY <1>1 DEF managerVars, vars, serviceVars, stateVars, lockVars, historyVars
<1>3. IInv'
  BY <1>2, StutterStep DEF LoadInv
<1>4. StartHandled \in BOOLEAN /\ service \in Nat /\ service <= starts
  BY DEF StartHandled, LoadInv, IInv, TypeOK, RemoteInv
<1>5. /\ loader'[t] = "timedOut" /\ \A u \in Clients \ {t} : loader'[u] = loader[u]
      /\ atEnd'[t].service = service /\ atEnd'[t].handled = StartHandled
      /\ \A u \in Clients \ {t} : atEnd'[u] = atEnd[u]
  BY <1>1 DEF LoaderGoto, LoadInv, LoadTypeOK
<1>6. LoadTypeOK'
  BY <1>1, <1>4 DEF LoaderGoto, LoadInv, LoadTypeOK, Waiting
<1>7. StartHandled' <=> StartHandled
  BY <1>1, <1>2 DEF StartHandled
<1>8. LoaderAt(t) /\ LoaderInv
  BY DEF LoadInv, LoaderInv
<1>9. LoaderAt(t)' /\ WillFind(t)' /\ (atEnd[t].service <= starts)'
  BY <1>1, <1>2, <1>4, <1>5, <1>7, <1>8
  DEF LoaderAt, WillFind, TimedOutWhileUp, EndedWhileUp, Waiting, Looking
<1>10. ASSUME NEW u \in Clients \ {t}
       PROVE  LoaderAt(u)' /\ WillFind(u)' /\ (atEnd[u].service <= starts)'
  BY <1>1, <1>2, <1>5, <1>7, <1>8, <1>10 DEF LoaderInv, LoaderAt, WillFind,
       TimedOutWhileUp, EndedWhileUp
<1>11. LoaderInv'
  BY <1>9, <1>10 DEF LoaderInv
<1>. QED BY <1>3, <1>6, <1>11 DEF LoadInv

(***************************************************************************)
(* Steps of the manager, with what they tell the host                      *)
(***************************************************************************)
LEMMA ThreadStepFrame ==
  ASSUME TypeOK, NEW t \in Threads, HostThreadStep(t)
  PROVE  /\ UNCHANGED <<service, starts, saEvents, atEnd>>
         /\ \A u \in Threads \ {t} : thread'[u] = thread[u]
         /\ thread[t].pc # "idle"
         /\ UNCHANGED loader \/ NotifyOne
         /\ Next
<1>1. CASE ManagerStep(t) /\ UNCHANGED loadVars
  <2>1. UNCHANGED <<loader, atEnd>>
    BY <1>1 DEF loadVars, loadHistoryVars
  <2>2. CASE GetProfileRemoteStep(t) \/ RegisterLooksUp(t) \/ ClientGotRemote(t)
    BY <2>1, <2>2
    DEF GetProfileRemoteStep, FindCached, GetHostRemote, HostChecked, AskHost, InsertRemote,
        RegisterLooksUp, ClientGotRemote, Return, WithHost, Goto, TypeOK, serviceVars,
        Next, ThreadStep, ManagerStep
  <2>3. CASE OnAddSystemAbilityStep(t)
    BY <2>1, <2>3
    DEF OnAddSystemAbilityStep, AddServiceOn, AddNeedCheck, RunFuncs, RunNextFunc,
        FuncGotRemote, FuncsDone, Goto, TypeOK, serviceVars, Next, ThreadStep, ManagerStep
  <2>4. CASE OnRemoveSystemAbilityStep(t)
    BY <2>1, <2>4
    DEF OnRemoveSystemAbilityStep, RemoveClear, RemoveServiceOff, RemoveNeedCheck,
        RemoveTurnOff, Goto, TypeOK, serviceVars, Next, ThreadStep, ManagerStep
  <2>. QED BY <1>1, <2>2, <2>3, <2>4 DEF ManagerStep
<1>2. CASE AddNotifiesLoader(t)
  BY <1>2 DEF AddNotifiesLoader, AddNotifiesHost, LoadSystemAbilitySuccess, Goto, TypeOK,
              loadHistoryVars,
              serviceVars, Next, ThreadStep
<1>3. CASE RemoveNeedsSwitchModule(t)
  BY <1>3 DEF RemoveNeedsSwitchModule, RemoveTellsSwitch, Goto, TypeOK, serviceVars,
       loadVars, loadHistoryVars,
              Next, ThreadStep
<1>. QED BY <1>1, <1>2, <1>3 DEF HostThreadStep

\* a loader's lookup; while its service runs and is reported it finds a remote
LEMMA LookupOfLoader ==
  ASSUME LoadInv, NEW t \in Clients, HostThreadStep(t)
  PROVE  loader' = loader /\ LoaderAt(t)' /\ WillFind(t)'
<1>0. /\ t \in Threads /\ TypeOK /\ LoaderAt(t) /\ WillFind(t) /\ OpOK(t)
      /\ loader[t] \in {"none"} \cup Looking \cup Waiting
      /\ Fields(t) /\ service \in Nat /\ profileRemoteMap[BLUETOOTH_HOST] \in Nat
  BY ProfileManagerAssumption, RecordFields
  DEF LoadInv, IInv, LoaderInv, Threads, LoadTypeOK, OpInv, TypeOK
<1>1. /\ thread[t].pc \in {"idle", "load"} \cup (Lookup \ {"profile"})
      /\ thread[t].op \in {"none", "load"}
  BY <1>0 DEF LoaderAt, OpOK
<1>2. /\ FindCached(t) \/ GetHostRemote(t) \/ HostChecked(t) \/ InsertRemote(t)
      /\ UNCHANGED loadVars
  BY <1>1
  DEF HostThreadStep, ManagerStep, GetProfileRemoteStep, AskHost, RegisterLooksUp,
      ClientGotRemote, OnAddSystemAbilityStep, AddServiceOn, AddNeedCheck, RunFuncs,
      RunNextFunc, FuncGotRemote, FuncsDone, OnRemoveSystemAbilityStep, RemoveClear,
      RemoveServiceOff, RemoveNeedCheck, RemoveTurnOff, AddNotifiesLoader, AddNotifiesHost,
      RemoveNeedsSwitchModule, RemoveTellsSwitch, Lookup, Inside, Runs
<1>3. thread[t].pc \in {"find", "host", "checked", "insert"}
  BY <1>2 DEF FindCached, GetHostRemote, HostChecked, InsertRemote
<1>4. loader[t] \in Looking /\ thread[t].op = "load" /\ thread[t].name = BLUETOOTH_HOST
  BY <1>0, <1>3 DEF LoaderAt
<1> DEFINE FindsNothing ==
      \/ ~isNeedCheckBluetoothServiceOn \/ service = 0
      \/ thread[t].pc \in {"checked", "insert"} /\ thread[t].remote = 0
<1>5. PICK pc \in {"host", "checked", "insert", "got"}, remote \in Nat :
        StepsTo(t, pc, remote) /\ (pc # "host" /\ remote = 0 => FindsNothing)
  <2>1. CASE FindCached(t)
    <3>1. \/ /\ StepsTo(t, "got", profileRemoteMap[BLUETOOTH_HOST])
             /\ profileRemoteMap[BLUETOOTH_HOST] # 0
          \/ StepsTo(t, "host", thread[t].remote)
      BY <1>0, <1>4, <2>1, StepMoves
      DEF FindCached, Return, PCs, Lookup, Inside, TypeOK, Fields
    <3>. QED BY <1>0, <3>1 DEF Fields
  <2>2. CASE GetHostRemote(t)
    <3>1. \/ /\ WithHost(t, profileRemoteMap[BLUETOOTH_HOST])
             /\ profileRemoteMap[BLUETOOTH_HOST] # 0
          \/ ~isNeedCheckBluetoothServiceOn /\ Return(t, 0)
          \/ thread' = [thread EXCEPT ![t].pc = "checked", ![t].remote = service]
      BY <2>2 DEF GetHostRemote
    <3>2. \/ /\ StepsTo(t, "insert", profileRemoteMap[BLUETOOTH_HOST])
             /\ profileRemoteMap[BLUETOOTH_HOST] # 0
          \/ ~isNeedCheckBluetoothServiceOn /\ StepsTo(t, "got", 0)
          \/ StepsTo(t, "checked", service)
      BY <1>0, <1>4, <3>1, StepMoves
      DEF Return, WithHost, PCs, Lookup, Inside, TypeOK
    <3>. QED BY <1>0, <3>2
  <2>3. CASE HostChecked(t)
    <3>1. thread[t].pc = "checked"
          /\ \/ thread[t].remote = 0 /\ StepsTo(t, "got", 0)
             \/ thread[t].remote # 0 /\ StepsTo(t, "insert", thread[t].remote)
      BY <1>0, <1>4, <2>3, StepMoves
      DEF HostChecked, Return, WithHost, PCs, Lookup, Inside, TypeOK, Fields
    <3>. QED BY <1>0, <3>1 DEF Fields
  <2>4. CASE InsertRemote(t)
    <3>1. thread[t].pc = "insert" /\ StepsTo(t, "got", thread[t].remote)
      BY <1>0, <2>4, ReturnMoves DEF InsertRemote, Fields
    <3>. QED BY <1>0, <3>1 DEF Fields
  <2>. QED BY <1>2, <2>1, <2>2, <2>3, <2>4
<1>6. /\ UNCHANGED <<loader, atEnd, service, saEvents>>
      /\ StartHandled' <=> StartHandled
  <2>1. SaThread \in Threads \ {t}
    BY ProfileManagerAssumption DEF Threads
  <2>2. UNCHANGED <<loader, atEnd, service, saEvents>>
    BY <1>0, <1>2, ThreadStepFrame DEF loadVars, loadHistoryVars
  <2>. QED BY <1>0, <2>1, <2>2, ThreadStepFrame DEF StartHandled
<1>7. LoaderAt(t)'
  BY <1>4, <1>5, <1>6 DEF LoaderAt, StepsTo, MovesTo, Looking, Waiting, Lookup, Inside
<1>8. WillFind(t)'
  <2>1. SUFFICES ASSUME TimedOutWhileUp(t) PROVE WillFind(t)'
    BY <1>6 DEF WillFind, TimedOutWhileUp, EndedWhileUp
  <2>2. /\ StartHandled /\ service # 0 /\ loader[t] = "lastPredicate"
        /\ thread[t].pc \in {"checked", "insert"} => thread[t].remote # 0
    BY <1>0, <1>4, <2>1 DEF WillFind, TimedOutWhileUp, EndedWhileUp, Looking
  <2>3. isNeedCheckBluetoothServiceOn
    BY <2>2 DEF LoadInv, IInv, FlagInv, AddPending, Reported, StartHandled, TypeOK
  <2>4. thread'[t].pc = pc /\ thread'[t].remote = remote /\ (pc # "host" => remote # 0)
    BY <1>5, <2>2, <2>3 DEF StepsTo, MovesTo
  <2>. QED BY <1>6, <2>2, <2>4 DEF WillFind
<1>. QED BY <1>6, <1>7, <1>8

(***************************************************************************)
(* The callback thread goes back to the report of a start only with a new  *)
(* one, and leaves the last of its steps by telling the host.              *)
(***************************************************************************)
LEMMA StartStaysHandled ==
  ASSUME IInv, HostThreadStep(SaThread)
  PROVE  /\ StartHandled => StartHandled'
         /\ StartHandled' => StartHandled \/ AddNotifiesLoader(SaThread)
<1> DEFINE Adding == thread[SaThread].pc \in {"add", "addNeedCheck", "addNotify"}
<1>1. SaThread \in Threads /\ TypeOK /\ OpOK(SaThread)
  BY SaThreadIsThread DEF IInv, OpInv
<1>2. UNCHANGED <<service, saEvents>>
  BY <1>1, ThreadStepFrame
<1>3. thread[SaThread].op # "update"
  BY <1>1 DEF OpOK
<1>4. AddNotifiesLoader(SaThread) \/ (Adding' <=> Adding)
  <2>. thread \in [Threads -> ThreadRecords]
    BY <1>1 DEF TypeOK
  <2>. USE <1>1 DEF Goto, ThreadRecords
  <2>1. CASE GetProfileRemoteStep(SaThread)
    BY <2>1 DEF GetProfileRemoteStep, FindCached, GetHostRemote, HostChecked, AskHost,
         InsertRemote, Return, WithHost
  <2>2. CASE RegisterLooksUp(SaThread)
    BY <2>2 DEF RegisterLooksUp, Idle
  <2>3. CASE ClientGotRemote(SaThread) \/ FuncsDone(SaThread)
    BY <2>3 DEF ClientGotRemote, FuncsDone, Idle
  <2>4. CASE AddServiceOn(SaThread) \/ AddNeedCheck(SaThread)
    BY <2>4 DEF AddServiceOn, AddNeedCheck
  <2>5. CASE RunFuncs(SaThread) \/ FuncGotRemote(SaThread)
    BY <2>5 DEF RunFuncs, FuncGotRemote
  <2>6. CASE RunNextFunc(SaThread)
    BY <2>6 DEF RunNextFunc
  <2>7. CASE OnRemoveSystemAbilityStep(SaThread)
    BY <2>7 DEF OnRemoveSystemAbilityStep, RemoveClear, RemoveServiceOff, RemoveNeedCheck,
         RemoveTurnOff
  <2>8. CASE RemoveNeedsSwitchModule(SaThread)
    BY <1>3, <2>8 DEF RemoveNeedsSwitchModule, RemoveTellsSwitch, Idle
  <2>. QED BY <2>1, <2>2, <2>3, <2>4, <2>5, <2>6, <2>7, <2>8
           DEF HostThreadStep, ManagerStep, OnAddSystemAbilityStep
<1>5. CASE AddNotifiesLoader(SaThread)
  BY <1>5 DEF AddNotifiesLoader, AddNotifiesHost, StartHandled
<1>6. CASE Adding' <=> Adding
  BY <1>2, <1>6 DEF StartHandled
<1>. QED BY <1>4, <1>5, <1>6

LEMMA HostThreadStepStep ==
  ASSUME LoadInv, NEW t \in Threads, HostThreadStep(t)
  PROVE  LoadInv'
<1>0. IInv /\ TypeOK /\ LoadTypeOK /\ LoaderInv
  BY DEF LoadInv, IInv
<1>1. /\ UNCHANGED <<service, starts, saEvents, atEnd>>
      /\ \A u \in Threads \ {t} : thread'[u] = thread[u]
      /\ thread[t].pc # "idle" /\ Next /\ (UNCHANGED loader \/ NotifyOne)
  BY <1>0, ThreadStepFrame
<1>2. IInv'
  BY <1>0, <1>1, StepIInv
<1>3. CASE t \in Clients
  <2>1. loader' = loader /\ LoaderAt(t)' /\ WillFind(t)'
    BY <1>3, LookupOfLoader
  <2>2. LoadTypeOK'
    BY <1>0, <1>1, <2>1 DEF LoadTypeOK
  <2>3. atEnd' = atEnd /\ starts' = starts /\ atEnd[t].service <= starts
    BY <1>0, <1>1, <1>3 DEF LoaderInv
  <2>4. LoaderInv'
    BY <1>0, <1>1, <1>3, <2>1, <2>3, LoaderFrame
  <2>. QED BY <1>2, <2>2, <2>4 DEF LoadInv
<1>4. CASE t = SaThread
  <2>1. \A u \in Clients : thread'[u] = thread[u]
    BY <1>1, <1>4, ProfileManagerAssumption DEF Threads
  <2>2. StartHandled => StartHandled'
    BY <1>0, <1>1, <1>4, StartStaysHandled
  <2>3. \A u \in Clients : TimedOutWhileUp(u) => StartHandled'
    BY <1>0, <2>2 DEF LoaderInv, WillFind
  <2>4. CASE UNCHANGED loader
    <3>1. LoaderInv'
      BY <1>0, <1>1, <2>1, <2>3, <2>4
      DEF LoaderInv, LoaderAt, WillFind, TimedOutWhileUp, EndedWhileUp
    <3>. QED BY <1>0, <1>1, <1>2, <2>4, <3>1 DEF LoadInv, LoadTypeOK
  <2>5. CASE NotifyOne
    BY <1>0, <1>1, <1>2, <2>1, <2>3, <2>5, NotifyOneKeeps DEF LoadInv
  <2>. QED BY <1>1, <2>4, <2>5
<1>. QED BY <1>3, <1>4 DEF Threads

LEMMA ServiceStep ==
  ASSUME LoadInv, ServiceStarts \/ ServiceDies \/ DeliverSaEvent, UNCHANGED loadVars
  PROVE  LoadInv'
<1>0. IInv /\ TypeOK /\ LoadTypeOK /\ LoaderInv /\ UNCHANGED <<loader, atEnd>>
  BY DEF LoadInv, IInv, loadVars, loadHistoryVars
<1>1. IInv'
  BY <1>0, StepIInv DEF Next
<1>2. LoadTypeOK'
  BY <1>0 DEF LoadTypeOK
<1>3. \A u \in Clients : thread'[u] = thread[u]
  <2>1. CASE ServiceStarts \/ ServiceDies
    BY <2>1 DEF ServiceStarts, ServiceDies
  <2>2. CASE DeliverSaEvent
    BY <1>0, <2>2, ProfileManagerAssumption DEF DeliverSaEvent, TypeOK, Threads
  <2>. QED BY <2>1, <2>2
<1>4. ASSUME NEW u \in Clients
      PROVE  LoaderAt(u)' /\ WillFind(u)' /\ (atEnd[u].service <= starts)'
  <2>1. /\ LoaderAt(u) /\ WillFind(u) /\ atEnd[u].service <= starts
        /\ atEnd[u].service \in Nat /\ starts \in Nat
    BY <1>0, <1>4 DEF LoaderInv, LoadTypeOK, TypeOK
  <2>2. LoaderAt(u)'
    BY <1>0, <1>3, <1>4, <2>1 DEF LoaderAt
  <2>3. CASE ServiceStarts
    <3>1. service' = starts + 1 /\ starts' = starts + 1
      BY <2>3 DEF ServiceStarts
    <3>. QED BY <1>0, <2>1, <2>2, <3>1 DEF WillFind, TimedOutWhileUp, EndedWhileUp
  <2>4. CASE ServiceDies
    BY <1>0, <2>1, <2>2, <2>4 DEF ServiceDies, WillFind, TimedOutWhileUp, EndedWhileUp
  <2>5. CASE DeliverSaEvent
    <3>1. saEvents # <<>> /\ service' = service /\ starts' = starts
      BY <2>5 DEF DeliverSaEvent
    <3>2. ~TimedOutWhileUp(u)
      BY <2>1, <3>1 DEF WillFind, StartHandled
    <3>. QED BY <1>0, <2>1, <2>2, <3>1, <3>2 DEF WillFind, TimedOutWhileUp, EndedWhileUp
  <2>. QED BY <2>3, <2>4, <2>5
<1>. QED BY <1>1, <1>2, <1>4 DEF LoadInv, LoaderInv

LEMMA StepLoadInv == LoadInv /\ [LoadNext]_lvars => LoadInv'
<1>. SUFFICES ASSUME LoadInv, [LoadNext]_lvars
              PROVE  LoadInv'
  OBVIOUS
<1>1. CASE (ServiceStarts \/ ServiceDies \/ DeliverSaEvent) /\ UNCHANGED loadVars
  BY <1>1, ServiceStep
<1>2. ASSUME NEW t \in Clients, SwitchActionLoads(t) \/ SatelliteControl(t)
      PROVE  LoadInv'
  BY <1>2, NeedsServiceStep DEF SwitchActionLoads, SatelliteControl
<1>3. CASE UNCHANGED lvars
  <2>1. UNCHANGED <<vars, loader, atEnd, thread, service, starts, saEvents>>
    BY <1>3 DEF lvars, loadVars, loadHistoryVars, vars, serviceVars
  <2>2. LoaderInv' /\ LoadTypeOK'
    BY <2>1 DEF LoadInv, LoaderInv, LoaderAt, WillFind, TimedOutWhileUp, EndedWhileUp,
         StartHandled,
                LoadTypeOK
  <2>. QED BY <2>1, <2>2, StutterStep DEF LoadInv
<1>. QED BY <1>1, <1>2, <1>3, LoaderStepStep, LoadAnsweredStep, LoadTimeoutStep,
            HostThreadStepStep DEF LoadNext

LEMMA InitLoadInv == LoadInit => LoadInv
<1>. SUFFICES ASSUME LoadInit
              PROVE  LoadInv
  OBVIOUS
<1>1. IInv /\ starts = 0 /\ service = 0
  BY InitIInv DEF LoadInit, Init
<1>2. LoadTypeOK
  BY DEF LoadInit, LoadTypeOK
<1>3. \A t \in Clients : thread[t].pc = "idle"
  BY DEF LoadInit, Init, Idle, Threads
<1>4. LoaderInv
  BY <1>1, <1>3 DEF LoadInit, LoaderInv, LoaderAt, WillFind, TimedOutWhileUp,
       EndedWhileUp, Looking,
                    Waiting
<1>. QED BY <1>1, <1>2, <1>4 DEF LoadInv

(***************************************************************************)
(* FailInv, on top of LoadInv                                              *)
(***************************************************************************)
\* a step that neither reports a failure nor handles a start nor reads the status
LEMMA FailFrame ==
  ASSUME LoadInv, LoadInv', FailInv, lateFails' = lateFails,
         saManagerStatus' \in {saManagerStatus, "WAIT_NOTIFY", "LOAD_SUCCESS"},
         saManagerStatus' = "LOAD_FAIL" /\ StartHandled' => StartHandled /\ service' = service,
         service' \in {0, service, starts + 1},
         \A u \in Clients : At(u, "failed")' => At(u, "failed") /\ atEnd'[u] = atEnd[u]
  PROVE  FailInv'
<1>1. ASSUME NEW u \in Clients, At(u, "failed")', EndedWhileUp(u)'
      PROVE  service' \in lateFails'
  <2>1. At(u, "failed") /\ atEnd'[u] = atEnd[u] /\ service' # 0
        /\ atEnd[u].service = service' /\ atEnd[u].handled
    BY <1>1 DEF EndedWhileUp
  <2>2. atEnd[u].service <= starts /\ starts \in Nat
    BY <1>1 DEF LoadInv, LoaderInv, IInv, TypeOK
  <2>3. service' = service
    BY <2>1, <2>2
  <2>. QED BY <1>1, <2>1, <2>3 DEF FailInv, EndedWhileUp
<1>. QED BY <1>1 DEF FailInv

LEMMA LoaderStepFail ==
  ASSUME LoadInv, LoadInv', FailInv, NEW t \in Clients,
         SwitchActionLoads(t) \/ SatelliteControl(t) \/ LoaderStep(t) \/ LoadTimeout(t)
  PROVE  FailInv'
<1>0. t \in Threads /\ t # SaThread /\ SaThread \in Threads
  BY ProfileManagerAssumption DEF Threads
<1>1. CASE ReadStatus(t)
  <2>1. /\ UNCHANGED <<service, StartHandled, saManagerStatus, lateFails>>
        /\ atEnd' = [atEnd EXCEPT ![t] = [service |-> service, handled |-> StartHandled]]
        /\ loader' = [loader EXCEPT ![t] =
                        IF saManagerStatus = "LOAD_FAIL" THEN "failed" ELSE "succeeded"]
    BY <1>1 DEF ReadStatus, NoteEnd, LoaderGoto, managerVars, serviceVars, StartHandled
  <2>2. loader \in [Clients -> {"none"} \cup Looking \cup Waiting]
        /\ atEnd \in [Clients -> [service : Nat, handled : BOOLEAN]]
    BY DEF LoadInv, LoadTypeOK
  <2>3. ASSUME At(t, "failed")', EndedWhileUp(t)'
        PROVE  service' \in lateFails'
    <3>1. saManagerStatus = "LOAD_FAIL" /\ StartHandled
      BY <2>1, <2>2, <2>3 DEF At, EndedWhileUp
    <3>. QED BY <2>1, <3>1 DEF FailInv
  <2>4. ASSUME NEW u \in Clients \ {t}, At(u, "failed")', EndedWhileUp(u)'
        PROVE  service' \in lateFails'
    <3>1. At(u, "failed") /\ EndedWhileUp(u)
      BY <2>1, <2>2, <2>4 DEF At, EndedWhileUp
    <3>. QED BY <2>1, <2>4, <3>1 DEF FailInv
  <2>. QED BY <2>1, <2>3, <2>4 DEF FailInv
<1>2. CASE ~ReadStatus(t)
  <2>1. /\ UNCHANGED <<service, saEvents, lateFails>>
        /\ saManagerStatus' \in {saManagerStatus, "WAIT_NOTIFY"}
        /\ \E step \in ({"none"} \cup Looking \cup Waiting) \ {"failed"} :
             loader' = [loader EXCEPT ![t] = step]
        /\ \A u \in Clients \ {t} : atEnd'[u] = atEnd[u]
    <3>1. CASE SwitchActionLoads(t) \/ SatelliteControl(t)
      BY <3>1 DEF SwitchActionLoads, SatelliteControl, NeedsService, LoaderGoto,
           managerVars,
           serviceVars, loadHistoryVars, Looking, Waiting
    <3>2. CASE LoadLocks(t) \/ ServiceIsUp(t) \/ LoadSystemAbility(t) \/ FallAsleep(t)
      BY <3>2 DEF LoadLocks, ServiceIsUp, LoadSystemAbility, FallAsleep, LookUpHost,
           LoadReturn, LoaderGoto, managerVars, serviceVars, loadHistoryVars, Looking, Waiting
    <3>3. CASE EvaluatePredicate(t) \/ WakeUp(t) \/ GiveUp(t) \/ ResetStatus(t)
      BY <3>3 DEF EvaluatePredicate, WakeUp, GiveUp, ResetStatus, LookUpHost, LoadReturn,
           LoaderGoto, managerVars, serviceVars, loadHistoryVars, Looking, Waiting
    <3>4. CASE LoadTimeout(t)
      BY <3>4 DEF LoadTimeout, NoteEnd, LoaderGoto, managerVars, serviceVars, LoadInv,
           LoadTypeOK, Looking, Waiting
    <3>. QED BY <1>2, <3>1, <3>2, <3>3, <3>4 DEF LoaderStep
  <2>2. thread'[SaThread] = thread[SaThread]
    <3>1. CASE SwitchActionLoads(t) \/ SatelliteControl(t)
      BY <1>0, <3>1 DEF SwitchActionLoads, SatelliteControl, NeedsService, LoadInv, IInv,
           TypeOK
    <3>2. CASE LoaderStep(t)
      BY <1>0, <3>2 DEF LoaderStep, LoadLocks, ServiceIsUp, LoadSystemAbility, FallAsleep,
           EvaluatePredicate, WakeUp, GiveUp, ReadStatus, ResetStatus, LookUpHost, LoadReturn,
           Goto, LoadInv, IInv, TypeOK
    <3>3. CASE LoadTimeout(t)
      BY <3>3 DEF LoadTimeout
    <3>. QED BY <3>1, <3>2, <3>3
  <2>3. StartHandled' <=> StartHandled
    BY <2>1, <2>2 DEF StartHandled
  <2>4. loader \in [Clients -> {"none"} \cup Looking \cup Waiting]
    BY DEF LoadInv, LoadTypeOK
  <2>5. \A u \in Clients : At(u, "failed")' => At(u, "failed") /\ atEnd'[u] = atEnd[u]
    BY <2>1, <2>4 DEF At
  <2>. QED BY <2>1, <2>3, <2>5, FailFrame
<1>. QED BY <1>1, <1>2

\* notifying moves a sleeper to "notified"
LEMMA NotifiedHasNotFailed ==
  ASSUME LoadTypeOK, UNCHANGED loader \/ NotifyOne, atEnd' = atEnd
  PROVE  \A u \in Clients : At(u, "failed")' => At(u, "failed") /\ atEnd'[u] = atEnd[u]
BY DEF NotifyOne, LoaderGoto, Asleep, At, LoadTypeOK

LEMMA LoadAnsweredFail ==
  ASSUME LoadInv, LoadInv', FailInv, NEW t \in Clients,
         OnLoadSystemAbilitySuccess(t) \/ OnLoadSystemAbilityFail(t)
  PROVE  FailInv'
<1>1. /\ UNCHANGED <<service, StartHandled, atEnd>> /\ NotifyOne
      /\ \/ saManagerStatus' = "LOAD_SUCCESS" /\ lateFails' = lateFails
         \/ lateFails' = IF StartHandled THEN lateFails \cup {service} ELSE lateFails
  BY DEF OnLoadSystemAbilitySuccess, OnLoadSystemAbilityFail, LoadSystemAbilitySuccess,
         LoadSystemAbilityFail, loadHistoryVars, managerVars, serviceVars, StartHandled
<1>2. \A u \in Clients : At(u, "failed")' => At(u, "failed") /\ atEnd'[u] = atEnd[u]
  BY <1>1, NotifiedHasNotFailed DEF LoadInv
<1>. QED BY <1>1, <1>2 DEF FailInv, EndedWhileUp

LEMMA HostThreadStepFail ==
  ASSUME LoadInv, LoadInv', FailInv, NEW t \in Threads, HostThreadStep(t)
  PROVE  FailInv'
<1>1. /\ UNCHANGED <<service, saEvents, atEnd>> /\ (UNCHANGED loader \/ NotifyOne)
      /\ \A u \in Threads \ {t} : thread'[u] = thread[u]
  BY ThreadStepFrame DEF LoadInv, IInv
<1>2. /\ lateFails' = lateFails
      /\ \/ saManagerStatus' = saManagerStatus /\ ~AddNotifiesLoader(t)
         \/ saManagerStatus' = "LOAD_SUCCESS"
  BY DEF HostThreadStep, AddNotifiesLoader, RemoveNeedsSwitchModule,
       LoadSystemAbilitySuccess,
         loadVars, loadHistoryVars
<1>3. saManagerStatus' = "LOAD_FAIL" /\ StartHandled' => StartHandled
  <2>1. CASE t = SaThread
    BY <1>2, <2>1, StartStaysHandled DEF LoadInv
  <2>2. CASE t # SaThread
    BY <1>1, <2>2, SaThreadIsThread DEF StartHandled
  <2>. QED BY <2>1, <2>2
<1>4. \A u \in Clients : At(u, "failed")' => At(u, "failed") /\ atEnd'[u] = atEnd[u]
  BY <1>1, NotifiedHasNotFailed DEF LoadInv
<1>. QED BY <1>1, <1>2, <1>3, <1>4, FailFrame

LEMMA ServiceStepFail ==
  ASSUME LoadInv, LoadInv', FailInv, ServiceStarts \/ ServiceDies \/ DeliverSaEvent,
         UNCHANGED loadVars
  PROVE  FailInv'
<1>1. UNCHANGED <<loader, saManagerStatus, atEnd, lateFails>>
  BY DEF loadVars, loadHistoryVars
<1>2. saEvents \in Seq({"add", "remove"}) /\ thread \in [Threads -> ThreadRecords]
  BY DEF LoadInv, IInv, TypeOK
<1>3. service' \in {0, service, starts + 1} /\ ~StartHandled'
  <2>1. CASE ServiceStarts
    BY <1>2, <2>1 DEF ServiceStarts, StartHandled
  <2>2. CASE ServiceDies
    BY <2>2 DEF ServiceDies, StartHandled
  <2>3. CASE DeliverSaEvent
    <3>1. service' = service /\ saEvents # <<>> /\ saEvents' = Tail(saEvents)
          /\ thread'[SaThread].pc = Head(saEvents)
      BY <1>2, <2>3, SaThreadIsThread DEF DeliverSaEvent
    <3>2. ASSUME StartHandled'
          PROVE  FALSE
      <4>1. service # 0 /\ Tail(saEvents) = <<>> /\ Head(saEvents) # "add"
        BY <3>1, <3>2 DEF StartHandled
      <4>2. Len(saEvents) = 1 /\ Head(saEvents) = saEvents[1]
        <5>1. Len(<<>>) = 0
          OBVIOUS
        <5>2. Len(Tail(saEvents)) = 0
          BY <4>1, <5>1, Zenon
        <5>. QED BY <1>2, <3>1, <5>2
      <4>. QED BY <4>1, <4>2 DEF LoadInv, IInv, EventInv
    <3>. QED BY <3>1, <3>2
  <2>. QED BY <2>1, <2>2, <2>3
<1>4. \A u \in Clients : At(u, "failed")' => At(u, "failed") /\ atEnd'[u] = atEnd[u]
  BY <1>1 DEF At
<1>. QED BY <1>1, <1>3, <1>4, FailFrame

LEMMA StepFailInv == LoadInv /\ FailInv /\ [LoadNext]_lvars => FailInv'
<1>. SUFFICES ASSUME LoadInv, FailInv, [LoadNext]_lvars
              PROVE  FailInv'
  OBVIOUS
<1>1. LoadInv'
  BY StepLoadInv
<1>2. CASE (ServiceStarts \/ ServiceDies \/ DeliverSaEvent) /\ UNCHANGED loadVars
  BY <1>1, <1>2, ServiceStepFail
<1>3. ASSUME NEW t \in Clients,
             SwitchActionLoads(t) \/ SatelliteControl(t) \/ LoaderStep(t) \/ LoadTimeout(t)
      PROVE  FailInv'
  BY <1>1, <1>3, LoaderStepFail
<1>4. CASE UNCHANGED lvars
  BY <1>4 DEF lvars, vars, serviceVars, loadVars, loadHistoryVars, FailInv, StartHandled,
              EndedWhileUp, At
<1>. QED BY <1>1, <1>2, <1>3, <1>4, LoadAnsweredFail, HostThreadStepFail DEF LoadNext

(***************************************************************************)
(* LoadBluetoothHostService does not give up on a service whose start was  *)
(* handled when its wait ended, unless a load was said to fail after that: *)
(* for any number of loaders, starts and loads, whatever notifications are *)
(* lost, and however early the wait times out.                             *)
(***************************************************************************)
THEOREM NoServiceIsGivenUp == LoadSpec => []HandledStartIsNotGivenUp
<1>1. LoadInit => FailInv
  BY DEF LoadInit, FailInv, At
<1>2. LoadInv /\ FailInv => HandledStartIsNotGivenUp
  BY DEF LoadInv, LoaderInv, WillFind, TimedOutWhileUp, EndedWhileUp, FailInv,
         HandledStartIsNotGivenUp, At
<1>. QED BY <1>1, <1>2, InitLoadInv, StepLoadInv, StepFailInv, PTL DEF LoadSpec
=============================================================================
