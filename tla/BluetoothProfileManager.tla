----------------------- MODULE BluetoothProfileManager -----------------------
(***************************************************************************)
(* The profile manager of the client framework                             *)
(* (frameworks/inner/src/bluetooth_profile_manager.cpp): it hands out the  *)
(* remote objects of the Bluetooth service, keeps them in a cache, and     *)
(* runs the functions that the profiles registered each time the service   *)
(* starts.  The service is a system ability that starts, dies and starts   *)
(* again; the system ability manager reports both, in order, on a callback *)
(* thread, while client threads ask for remotes.                           *)
(*                                                                         *)
(* A remote object is represented by the number of the start it belongs    *)
(* to; it is dead when another start, or none, is current.  0 is the null  *)
(* pointer.                                                                *)
(***************************************************************************)
EXTENDS Integers, Sequences, FiniteSets

CONSTANTS
  ObjectNames,     \* names of the profiles' objects
  BLUETOOTH_HOST,  \* the host's object, from which the others are obtained
  Clients,         \* threads of the application
  SaThread,        \* the thread of the system ability callbacks
  NoThread,        \* owner of a mutex that is free
  MaxStarts,       \* bound on the starts of the service
  MaxFuncs,        \* bound on the registrations
  MaxUpdates       \* bound on the loads of the application from an image

ASSUME ProfileManagerAssumption ==
  /\ BLUETOOTH_HOST \in ObjectNames
  /\ SaThread \notin Clients
  /\ NoThread \notin Clients \cup {SaThread}
  /\ MaxStarts \in Nat /\ MaxFuncs \in Nat /\ MaxUpdates \in Nat

Threads == Clients \cup {SaThread}
FuncId == 1 .. MaxFuncs

VARIABLES
  service,                      \* current start of the service, 0 if it is down
  starts,                       \* starts so far
  saEvents,                     \* reports on their way to SaThread
  profileRemoteMap,             \* cached remotes, 0 if there is none
  profileIdFuncMap,             \* the object name of each registered function
  isBluetoothServiceOn,
  isNeedCheckBluetoothServiceOn,
  registerValidId,              \* the last id given out
  getProfileRemoteMutex,
  needCheckMutex,
  funcMapMutex,                 \* the lock that SafeMap::Iterate holds
  thread,                       \* where each thread is
  updates,                      \* history: image loads so far
  called,                       \* history: remotes each function was called with
  refused,                      \* history: starts whose host had no remote for a function
  overtaken                     \* history: the cache was cleared during a lookup

serviceVars == <<service, starts, saEvents>>
stateVars == <<profileRemoteMap, profileIdFuncMap, isBluetoothServiceOn,
               isNeedCheckBluetoothServiceOn, registerValidId>>
lockVars == <<getProfileRemoteMutex, needCheckMutex, funcMapMutex>>
historyVars == <<updates, called, refused, overtaken>>
vars == <<serviceVars, stateVars, lockVars, thread, historyVars>>

(***************************************************************************)
(* op: the operation that a thread performs.  pc: its next step.  name and *)
(* id: the object looked up and the registration it is for.  remote: what  *)
(* the lookup holds so far.  todo: registrations still to be run.          *)
(***************************************************************************)
Idle == [op |-> "none", pc |-> "idle", name |-> BLUETOOTH_HOST, id |-> 0,
         remote |-> 0, todo |-> {}]

Init ==
  /\ service = 0
  /\ starts = 0
  /\ saEvents = <<>>
  /\ profileRemoteMap = [o \in ObjectNames |-> 0]
  /\ profileIdFuncMap = <<>>
  /\ isBluetoothServiceOn = FALSE
  /\ isNeedCheckBluetoothServiceOn = TRUE
  /\ registerValidId = 0
  /\ getProfileRemoteMutex = NoThread
  /\ needCheckMutex = NoThread
  /\ funcMapMutex = NoThread
  /\ thread = [t \in Threads |-> Idle]
  /\ updates = 0
  /\ called = [id \in FuncId |-> {}]
  /\ refused = [id \in FuncId |-> {}]
  /\ overtaken = FALSE

Goto(t, pc) == thread' = [thread EXCEPT ![t].pc = pc]

(***************************************************************************)
(* The service and the system ability manager (external)                   *)
(***************************************************************************)
ServiceStarts ==
  /\ service = 0
  /\ starts < MaxStarts
  /\ starts' = starts + 1
  /\ service' = starts + 1
  /\ saEvents' = Append(saEvents, "add")
  /\ UNCHANGED <<stateVars, lockVars, thread, historyVars>>

ServiceDies ==
  /\ service # 0
  /\ service' = 0
  /\ saEvents' = Append(saEvents, "remove")
  /\ UNCHANGED <<starts, stateVars, lockVars, thread, historyVars>>

(***************************************************************************)
(* GetProfileRemote                                                        *)
(***************************************************************************)
\* the lookup is over; its caller continues at "got" with the remote
Return(t, remote) ==
  thread' = [thread EXCEPT ![t].pc = "got", ![t].remote = remote]

FindCached(t) ==
  /\ thread[t].pc = "find"
  /\ getProfileRemoteMutex = NoThread
  /\ LET cached == profileRemoteMap[thread[t].name]
     IN  IF cached # 0
           THEN Return(t, cached) /\ UNCHANGED getProfileRemoteMutex
           ELSE Goto(t, "host") /\ getProfileRemoteMutex' = t
  /\ UNCHANGED <<serviceVars, stateVars, needCheckMutex, funcMapMutex, historyVars>>

\* with the host's remote at hand: it is the result, or is asked for it
WithHost(t, host) ==
  thread' = [thread EXCEPT ![t].remote = host,
               ![t].pc = IF thread[t].name = BLUETOOTH_HOST THEN "insert" ELSE "profile"]

(***************************************************************************)
(* GetHostRemote: the cached host, or what the system ability manager      *)
(* knows, which is asked with needCheckBluetoothServiceOnMutex_ held and   *)
(* only if the service may be running.                                     *)
(***************************************************************************)
GetHostRemote(t) ==
  /\ thread[t].pc = "host"
  /\ \/ /\ profileRemoteMap[BLUETOOTH_HOST] # 0
        /\ WithHost(t, profileRemoteMap[BLUETOOTH_HOST])
        /\ UNCHANGED <<getProfileRemoteMutex, needCheckMutex>>
     \/ /\ profileRemoteMap[BLUETOOTH_HOST] = 0
        /\ needCheckMutex = NoThread
        /\ ~isNeedCheckBluetoothServiceOn
        /\ Return(t, 0)
        /\ getProfileRemoteMutex' = NoThread
        /\ UNCHANGED needCheckMutex
     \/ /\ profileRemoteMap[BLUETOOTH_HOST] = 0
        /\ needCheckMutex = NoThread
        /\ isNeedCheckBluetoothServiceOn
        /\ needCheckMutex' = t
        /\ thread' = [thread EXCEPT ![t].pc = "checked", ![t].remote = service]
        /\ UNCHANGED getProfileRemoteMutex
  /\ UNCHANGED <<serviceVars, stateVars, funcMapMutex, historyVars>>

\* mutant: the early return leaves the lock held
EarlyReturnKeepsLock(t) ==
  /\ thread[t].pc = "checked"
  /\ IF thread[t].remote = 0
       THEN /\ isNeedCheckBluetoothServiceOn' = FALSE
            /\ Return(t, 0)
            /\ getProfileRemoteMutex' = NoThread
            /\ UNCHANGED needCheckMutex
       ELSE /\ WithHost(t, thread[t].remote)
            /\ needCheckMutex' = NoThread
            /\ UNCHANGED <<isNeedCheckBluetoothServiceOn, getProfileRemoteMutex>>
  /\ UNCHANGED <<serviceVars, profileRemoteMap, profileIdFuncMap, isBluetoothServiceOn,
                 registerValidId, funcMapMutex, historyVars>>

HostChecked(t) ==
  /\ thread[t].pc = "checked"
  /\ needCheckMutex' = NoThread
  /\ IF thread[t].remote = 0
       THEN /\ isNeedCheckBluetoothServiceOn' = FALSE
            /\ Return(t, 0)
            /\ getProfileRemoteMutex' = NoThread
       ELSE /\ WithHost(t, thread[t].remote)
            /\ UNCHANGED <<isNeedCheckBluetoothServiceOn, getProfileRemoteMutex>>
  /\ UNCHANGED <<serviceVars, profileRemoteMap, profileIdFuncMap, isBluetoothServiceOn,
                 registerValidId, funcMapMutex, historyVars>>

\* history: the host has no remote for the function that would be called with it
NoteRefusal(t) ==
  refused' = IF thread[t].op \in {"register", "add", "update"} /\ thread[t].remote = service
               THEN [refused EXCEPT ![thread[t].id] = @ \cup {service}]
               ELSE refused

(***************************************************************************)
(* GetProfile and GetBleRemote: only a live host has the profile's remote, *)
(* and it may have none for this one.                                      *)
(***************************************************************************)
AskHost(t) ==
  /\ thread[t].pc = "profile"
  /\ \/ /\ thread[t].remote = service
        /\ Goto(t, "insert")
        /\ UNCHANGED <<getProfileRemoteMutex, refused>>
     \/ /\ Return(t, 0)
        /\ getProfileRemoteMutex' = NoThread
        /\ NoteRefusal(t)
  /\ UNCHANGED <<serviceVars, stateVars, needCheckMutex, funcMapMutex, updates, called,
                 overtaken>>

\* SafeMap::Insert does not replace an entry
InsertRemote(t) ==
  /\ thread[t].pc = "insert"
  /\ profileRemoteMap' = [profileRemoteMap EXCEPT ![thread[t].name] =
                            IF @ = 0 THEN thread[t].remote ELSE @]
  /\ Return(t, thread[t].remote)
  /\ getProfileRemoteMutex' = NoThread
  /\ UNCHANGED <<serviceVars, profileIdFuncMap, isBluetoothServiceOn,
                 isNeedCheckBluetoothServiceOn, registerValidId, needCheckMutex,
                 funcMapMutex, historyVars>>

GetProfileRemoteStep(t) ==
  FindCached(t) \/ GetHostRemote(t) \/ HostChecked(t) \/ AskHost(t) \/ InsertRemote(t)

(***************************************************************************)
(* Client operations                                                       *)
(***************************************************************************)
GetRemoteProxy(t, name) ==
  /\ thread[t].pc = "idle"
  /\ thread' = [thread EXCEPT ![t].op = "get", ![t].pc = "find", ![t].name = name]
  /\ UNCHANGED <<serviceVars, stateVars, lockVars, historyVars>>

RegisterFunc(t, name) ==
  /\ thread[t].pc = "idle"
  /\ registerValidId < MaxFuncs
  /\ funcMapMutex = NoThread
  /\ registerValidId' = registerValidId + 1
  /\ profileIdFuncMap' = [id \in (DOMAIN profileIdFuncMap) \cup {registerValidId + 1} |->
                           IF id = registerValidId + 1 THEN name ELSE profileIdFuncMap[id]]
  /\ thread' = [thread EXCEPT ![t].op = "register", ![t].pc = "registered",
                              ![t].name = name, ![t].id = registerValidId + 1]
  /\ UNCHANGED <<serviceVars, profileRemoteMap, isBluetoothServiceOn,
                 isNeedCheckBluetoothServiceOn, lockVars, historyVars>>

\* mutant: the registration does not look whether the service is running
RegisterOnly(t) ==
  /\ thread[t].pc = "registered"
  /\ thread' = [thread EXCEPT ![t] = Idle]
  /\ UNCHANGED <<serviceVars, stateVars, lockVars, historyVars>>

\* the function is in the map; is the service running already?
RegisterLooksUp(t) ==
  /\ thread[t].pc = "registered"
  /\ IF isBluetoothServiceOn THEN Goto(t, "find")
                             ELSE thread' = [thread EXCEPT ![t] = Idle]
  /\ UNCHANGED <<serviceVars, stateVars, lockVars, historyVars>>

DeregisterFunc(t, id) ==
  /\ thread[t].pc = "idle"
  /\ funcMapMutex = NoThread
  /\ id \in DOMAIN profileIdFuncMap
  /\ profileIdFuncMap' = [i \in (DOMAIN profileIdFuncMap) \ {id} |-> profileIdFuncMap[i]]
  /\ UNCHANGED <<serviceVars, profileRemoteMap, isBluetoothServiceOn,
                 isNeedCheckBluetoothServiceOn, registerValidId, lockVars, thread,
                 historyVars>>

\* the function of a registration is called with the remote that was found
CallFunc(t) ==
  called' = [called EXCEPT ![thread[t].id] =
               IF thread[t].remote = 0 THEN @ ELSE @ \cup {thread[t].remote}]

ClientGotRemote(t) ==
  /\ thread[t].pc = "got"
  /\ thread[t].op \in {"get", "register"}
  /\ IF thread[t].op = "register" THEN CallFunc(t) ELSE UNCHANGED called
  /\ thread' = [thread EXCEPT ![t] = Idle]
  /\ UNCHANGED <<serviceVars, stateVars, lockVars, updates, refused, overtaken>>

(***************************************************************************)
(* OnAddSystemAbility                                                      *)
(***************************************************************************)
AddServiceOn(t) ==
  /\ thread[t].pc = "add"
  /\ isBluetoothServiceOn' = TRUE
  /\ Goto(t, "addNeedCheck")
  /\ UNCHANGED <<serviceVars, profileRemoteMap, profileIdFuncMap,
                 isNeedCheckBluetoothServiceOn, registerValidId, lockVars, historyVars>>

\* mutant: the flag that a lookup cleared is not set again
AddForgetsNeedCheck(t) ==
  /\ thread[t].pc = "addNeedCheck"
  /\ Goto(t, "addNotify")
  /\ UNCHANGED <<serviceVars, stateVars, lockVars, historyVars>>

AddNeedCheck(t) ==
  /\ thread[t].pc = "addNeedCheck"
  /\ needCheckMutex = NoThread
  /\ isNeedCheckBluetoothServiceOn' = TRUE
  /\ Goto(t, "addNotify")
  /\ UNCHANGED <<serviceVars, profileRemoteMap, profileIdFuncMap, isBluetoothServiceOn,
                 registerValidId, lockVars, historyVars>>

\* the host is told that the service was loaded
AddNotifiesHost(t) ==
  /\ thread[t].pc = "addNotify"
  /\ Goto(t, "run")
  /\ UNCHANGED <<serviceVars, stateVars, lockVars, historyVars>>

(***************************************************************************)
(* RunFuncWhenBluetoothServiceStarted holds the map's lock throughout, and *)
(* so does NotifyBluetoothStateChange when BLE turns on: it looks up the   *)
(* remote for each bleTurnOnFunc in the same way.                          *)
(***************************************************************************)
RunFuncs(t) ==
  /\ thread[t].pc = "run"
  /\ funcMapMutex = NoThread
  /\ funcMapMutex' = t
  /\ thread' = [thread EXCEPT ![t].pc = "next", ![t].todo = DOMAIN profileIdFuncMap]
  /\ UNCHANGED <<serviceVars, stateVars, getProfileRemoteMutex, needCheckMutex,
                 historyVars>>

RunNextFunc(t) ==
  /\ thread[t].pc = "next"
  /\ \E id \in thread[t].todo :
       /\ \A other \in thread[t].todo : id <= other
       /\ thread' = [thread EXCEPT ![t].pc = "find", ![t].id = id,
                       ![t].name = profileIdFuncMap[id], ![t].todo = @ \ {id}]
  /\ UNCHANGED <<serviceVars, stateVars, lockVars, historyVars>>

FuncGotRemote(t) ==
  /\ thread[t].pc = "got"
  /\ thread[t].op \in {"add", "update", "turnOn"}
  /\ IF thread[t].op = "turnOn" THEN UNCHANGED called ELSE CallFunc(t)
  /\ Goto(t, "next")
  /\ UNCHANGED <<serviceVars, stateVars, lockVars, updates, refused, overtaken>>

FuncsDone(t) ==
  /\ thread[t].pc = "next"
  /\ thread[t].todo = {}
  /\ funcMapMutex' = NoThread
  /\ thread' = [thread EXCEPT ![t] = Idle]
  /\ UNCHANGED <<serviceVars, stateVars, getProfileRemoteMutex, needCheckMutex,
                 historyVars>>

OnAddSystemAbilityStep(t) ==
  AddServiceOn(t) \/ AddNeedCheck(t) \/ RunFuncs(t) \/ RunNextFunc(t)
    \/ FuncGotRemote(t) \/ FuncsDone(t)

(***************************************************************************)
(* OnRemoveSystemAbility.  Afterwards the host is told, which iterates     *)
(* over the map to run the turn-off functions and so needs its lock (when  *)
(* it intercepts a repeated OFF it does not; waiting is the case that      *)
(* matters).                                                               *)
(***************************************************************************)
\* a lookup is between its first look at the service and its insertion
LookupUnderWay ==
  \E t \in Threads : thread[t].pc \in {"host", "checked", "profile", "insert"}

\* mutant: only the remote of the host is dropped
RemoveClearsHostOnly(t) ==
  /\ thread[t].pc = "remove"
  /\ profileRemoteMap' = [profileRemoteMap EXCEPT ![BLUETOOTH_HOST] = 0]
  /\ Goto(t, "removeServiceOff")
  /\ overtaken' = (overtaken \/ LookupUnderWay)
  /\ UNCHANGED <<serviceVars, profileIdFuncMap, isBluetoothServiceOn,
                 isNeedCheckBluetoothServiceOn, registerValidId, lockVars, updates, called,
                 refused>>

RemoveClear(t) ==
  /\ thread[t].pc = "remove"
  /\ profileRemoteMap' = [o \in ObjectNames |-> 0]
  /\ Goto(t, "removeServiceOff")
  /\ overtaken' = (overtaken \/ LookupUnderWay)
  /\ UNCHANGED <<serviceVars, profileIdFuncMap, isBluetoothServiceOn,
                 isNeedCheckBluetoothServiceOn, registerValidId, lockVars, updates, called,
                 refused>>

RemoveServiceOff(t) ==
  /\ thread[t].pc = "removeServiceOff"
  /\ isBluetoothServiceOn' = FALSE
  /\ Goto(t, "removeNeedCheck")
  /\ UNCHANGED <<serviceVars, profileRemoteMap, profileIdFuncMap,
                 isNeedCheckBluetoothServiceOn, registerValidId, lockVars, historyVars>>

RemoveNeedCheck(t) ==
  /\ thread[t].pc = "removeNeedCheck"
  /\ needCheckMutex = NoThread
  /\ isNeedCheckBluetoothServiceOn' = TRUE
  /\ Goto(t, "turnOff")
  /\ UNCHANGED <<serviceVars, profileRemoteMap, profileIdFuncMap, isBluetoothServiceOn,
                 registerValidId, lockVars, historyVars>>

RemoveTurnOff(t) ==
  /\ thread[t].pc = "turnOff"
  /\ funcMapMutex = NoThread
  /\ Goto(t, "removeSwitch")
  /\ UNCHANGED <<serviceVars, stateVars, lockVars, historyVars>>

\* the host tells the switch module that the radio is off
RemoveTellsSwitch(t) ==
  /\ thread[t].pc = "removeSwitch"
  /\ IF thread[t].op = "update" THEN Goto(t, "add")
                                ELSE thread' = [thread EXCEPT ![t] = Idle]
  /\ UNCHANGED <<serviceVars, stateVars, lockVars, historyVars>>

OnRemoveSystemAbilityStep(t) ==
  RemoveClear(t) \/ RemoveServiceOff(t) \/ RemoveNeedCheck(t) \/ RemoveTurnOff(t)

\* a report of the system ability manager reaches the callback thread
DeliverSaEvent ==
  /\ thread[SaThread].pc = "idle"
  /\ saEvents # <<>>
  /\ thread' = [thread EXCEPT ![SaThread].op = Head(saEvents),
                              ![SaThread].pc = Head(saEvents)]
  /\ saEvents' = Tail(saEvents)
  /\ UNCHANGED <<service, starts, stateVars, lockVars, historyVars>>

\* an application that was loaded from an image drops and renews everything
BluetoothProfileManagerUpdate(t) ==
  /\ thread[t].pc = "idle"
  /\ updates < MaxUpdates
  /\ updates' = updates + 1
  /\ thread' = [thread EXCEPT ![t].op = "update", ![t].pc = "remove"]
  /\ UNCHANGED <<serviceVars, stateVars, lockVars, called, refused, overtaken>>

\* the service reports that BLE is on, on a thread of the process
NotifyBluetoothStateChange(t) ==
  /\ thread[t].pc = "idle"
  /\ thread' = [thread EXCEPT ![t].op = "turnOn", ![t].pc = "run"]
  /\ UNCHANGED <<serviceVars, stateVars, lockVars, historyVars>>

\* the steps that concern the profile manager alone
ManagerStep(t) ==
  \/ GetProfileRemoteStep(t)
  \/ RegisterLooksUp(t)
  \/ ClientGotRemote(t)
  \/ OnAddSystemAbilityStep(t)
  \/ OnRemoveSystemAbilityStep(t)

ThreadStep(t) == ManagerStep(t) \/ AddNotifiesHost(t) \/ RemoveTellsSwitch(t)

ClientCall(t) ==
  \/ \E name \in ObjectNames : GetRemoteProxy(t, name) \/ RegisterFunc(t, name)
  \/ \E id \in FuncId : DeregisterFunc(t, id)
  \/ BluetoothProfileManagerUpdate(t)
  \/ NotifyBluetoothStateChange(t)

Next ==
  \/ ServiceStarts
  \/ ServiceDies
  \/ DeliverSaEvent
  \/ \E t \in Clients : ClientCall(t)
  \/ \E t \in Threads : ThreadStep(t)

(***************************************************************************)
(* Reports are delivered and threads that are inside a call go on.  A lock *)
(* that is free infinitely often is obtained in the end.                   *)
(***************************************************************************)
Fairness ==
  /\ WF_vars(DeliverSaEvent)
  /\ \A t \in Threads : SF_vars(ThreadStep(t))

Spec == Init /\ [][Next]_vars /\ Fairness

-----------------------------------------------------------------------------
\* nothing is on its way and no thread is inside the manager
Quiet == saEvents = <<>> /\ \A t \in Threads : thread[t].pc = "idle"

(***************************************************************************)
(* The flag that spares the question to the system ability manager never   *)
(* hides a running service: when the start of the service has been         *)
(* reported, the manager asks or has the host in its cache.  A lookup that *)
(* saw no service and clears the flag races the report that sets it.       *)
(***************************************************************************)
RunningServiceIsFound ==
  saEvents = <<>> /\ thread[SaThread].pc \notin {"add", "addNeedCheck"} /\ service # 0 =>
    isNeedCheckBluetoothServiceOn \/ profileRemoteMap[BLUETOOTH_HOST] # 0

(***************************************************************************)
(* No registration is missed: whatever the order of registrations and      *)
(* starts, when everything is quiet every registered function was called   *)
(* with a remote of the running service.  Two exceptions: the host of this *)
(* start was asked for that function and had no remote for it (the case    *)
(* that RegisterFunc comments as "the service is on, but the remote cannot *)
(* be had"), and a dead remote is cached.                                  *)
(***************************************************************************)
NoRegistrationMissed ==
  Quiet /\ service # 0 /\ (\A o \in ObjectNames : profileRemoteMap[o] \in {0, service}) =>
    \A id \in DOMAIN profileIdFuncMap : service \in called[id] \cup refused[id]

(***************************************************************************)
(* Dead remotes are dropped when the death of the service is reported,     *)
(* unless a lookup was under way at that moment: it inserts the remote it  *)
(* had obtained before.                                                    *)
(***************************************************************************)
DeadRemoteOnlyIfOvertaken ==
  saEvents = <<>> /\ thread[SaThread].pc # "remove" /\ ~overtaken =>
    \A o \in ObjectNames : profileRemoteMap[o] \in {0, service}

(***************************************************************************)
(* Every lookup, registration and callback comes to its end: no thread     *)
(* waits for ever for one of the three locks.                              *)
(***************************************************************************)
CallsReturn == \A t \in Threads : thread[t].pc # "idle" ~> thread[t].pc = "idle"

=============================================================================
