--------------------- MODULE BluetoothBleCentralManager ---------------------
(***************************************************************************)
(* One BleCentralManager (frameworks/inner/src/                            *)
(* bluetooth_ble_central_manager.cpp), from its constructor to its         *)
(* destructor, with the functions it registers with the profile manager,   *)
(* the host's filter of repeated reports and the callbacks of its          *)
(* BluetoothObserverList.                                                  *)
(*                                                                         *)
(* scannerId_ is the number under which the service knows the manager.     *)
(* The service forgets all numbers when BLE is switched off and when it    *)
(* dies; the framework hears of it later, from reports and from samgr's    *)
(* notices, on two threads, and sometimes not at all: an application that  *)
(* is frozen gets no reports.  A remote that is null or dead is possible   *)
(* only while the service is down or BLE is off; how remotes are cached is *)
(* the subject of BluetoothProfileManager.                                 *)
(*                                                                         *)
(* Settings, filters and results, and calls that pass them on without      *)
(* using the number, are left out.                                         *)
(***************************************************************************)
EXTENDS Naturals, Sequences

CONSTANTS
  Threads,      \* threads of the application and IPC threads that deliver results
  Modes,        \* values asked for with enableRandomAddrMode
  MaxId,        \* bound on the numbers the service hands out
  MaxCalls,     \* bound on calls of the application and delivered results
  MaxChanges    \* bound on the changes of the service's state

ASSUME CentralAssumption ==
  /\ Modes \subseteq BOOLEAN
  /\ {MaxId, MaxCalls, MaxChanges} \subseteq Nat

Invalid == 0              \* BLE_SCAN_INVALID_ID
Ids == 1..MaxId
Notifiers == {"observer", "samgr"}    \* the threads that run registered functions

ASSUME ThreadsAssumption == "nobody" \notin Threads

VARIABLES
  obj,                    \* stage of the object's life
  asked,                  \* constructor: the mode asked for
  enableRandomAddrMode,   \* enableRandomAddrMode_
  scannerId,              \* scannerId_
  scannerIdMutex,         \* scannerIdMutex_: a thread or "nobody"
  listLock,               \* lock of callbacks_: a thread or "nobody"
  thread,                 \* what each thread is doing
  mapLock,                \* profile manager: lock of profileIdFuncMap_
  notifier,               \* the function a notifier is about to run
  isServiceOn,            \* profile manager: isBluetoothServiceOn_
  preBleOff,              \* host: preBleState_ is STATE_TURN_OFF
  up, ble,                \* service: it runs, BLE is on
  registered,             \* service: mode of each number it knows
  scanning,               \* service: numbers that scan
  nextId,
  reports, notices,       \* on their way: "on" / "off", "add" / "remove"
  calls, changes,
  forgotten,              \* history: valid numbers that a late turn-off reset
  missed,                 \* history: numbers whose turn-off was not heard
  checked,                \* history: threads whose check of the number still holds
  early                   \* history: numbers obtained before the mode was set

locks == <<scannerIdMutex, listLock, mapLock>>
manager == <<obj, asked, enableRandomAddrMode, early>>
host == <<notifier, isServiceOn, preBleOff>>
service == <<up, ble, registered, scanning, nextId>>
bounds == <<calls, changes>>
history == <<forgotten, missed, checked>>
vars == <<manager, scannerId, locks, thread, host, service, reports, notices,
          bounds, history>>

Idle == [pc |-> "idle", op |-> "start", inCallback |-> FALSE]

NoneRegistered == [i \in {} |-> TRUE]

Init ==
  /\ obj = "none"
  /\ asked \in Modes
  /\ enableRandomAddrMode = TRUE
  /\ scannerId = Invalid
  /\ scannerIdMutex = "nobody" /\ listLock = "nobody" /\ mapLock = "nobody"
  /\ thread = [t \in Threads |-> Idle]
  /\ notifier = [n \in Notifiers |-> "idle"]
  /\ up \in BOOLEAN
  /\ isServiceOn = up
  /\ ble \in {FALSE, up}
  /\ preBleOff \in {FALSE, ~ble}
  /\ registered = NoneRegistered
  /\ scanning = {}
  /\ nextId = 1
  /\ reports = <<>> /\ notices = <<>>
  /\ calls = 0 /\ changes = 0
  /\ forgotten = {} /\ missed = {} /\ checked = {} /\ early = {}

Known == DOMAIN registered

-----------------------------------------------------------------------------
(* The service. *)

\* RegisterBleCentralManagerCallback: the reply is a number, or nothing, which
\* the proxy reads as 0.
RegisterCallback ==
  \/ /\ up /\ ble /\ nextId \in Ids
     /\ scannerId' = nextId
     /\ nextId' = nextId + 1
     /\ registered' = [i \in Known \cup {nextId} |->
                         IF i = nextId THEN enableRandomAddrMode ELSE registered[i]]
  \/ /\ scannerId' = Invalid
     /\ UNCHANGED <<nextId, registered>>

\* All numbers expire, and what was recorded of them means nothing for the next.
Expire ==
  /\ registered' = NoneRegistered
  /\ scanning' = {}
  /\ checked' = {} /\ forgotten' = {} /\ early' = {}

Change == changes < MaxChanges /\ changes' = changes + 1

BleTurnsOn ==
  /\ up /\ ~ble /\ Change
  /\ ble' = TRUE
  /\ \/ reports' = Append(reports, "on")
     \/ UNCHANGED reports
  /\ UNCHANGED <<manager, scannerId, locks, thread, host, up, registered, scanning,
                 nextId, notices, calls, history>>

BleTurnsOff ==
  /\ up /\ ble /\ Change
  /\ ble' = FALSE
  /\ Expire
  /\ \/ reports' = Append(reports, "off") /\ UNCHANGED missed
     \/ missed' = missed \cup Known /\ UNCHANGED reports
  /\ UNCHANGED <<obj, asked, enableRandomAddrMode, scannerId, locks, thread, host, up, nextId,
                 notices, calls>>

ServiceDies ==
  /\ up /\ Change
  /\ up' = FALSE /\ ble' = FALSE
  /\ Expire
  /\ notices' = Append(notices, "remove")
  /\ UNCHANGED <<obj, asked, enableRandomAddrMode, scannerId, locks, thread, host, nextId,
                 reports, calls, missed>>

ServiceStarts ==
  /\ ~up
  /\ up' = TRUE
  /\ notices' = Append(notices, "add")
  /\ UNCHANGED <<manager, scannerId, locks, thread, host, ble, registered, scanning,
                 nextId, reports, bounds, history>>

-----------------------------------------------------------------------------
(* Construction. *)

\* RegisterFunc stores the functions, which may run from now on.
Construct ==
  /\ obj = "none" /\ mapLock = "nobody"
  /\ obj' = "stored"
  /\ UNCHANGED <<asked, enableRandomAddrMode, early, scannerId, locks, thread, host, service,
                 reports, notices, bounds, history>>

\* Mutant of TurnOn: a valid number is replaced.
TurnOnAlways == RegisterCallback

\* The function run when BLE is on.  The caller holds no lock of the manager.
TurnOn ==
  IF scannerId = Invalid THEN RegisterCallback
  ELSE UNCHANGED <<scannerId, registered, nextId>>

\* RegisterFunc runs it at once if the service and BLE are on.
ConstructTurnOn ==
  /\ obj = "stored"
  /\ obj' = "constructing"
  /\ IF isServiceOn /\ ble
     THEN scannerIdMutex = "nobody" /\ TurnOn
     ELSE UNCHANGED <<scannerId, registered, nextId>>
  /\ UNCHANGED <<asked, enableRandomAddrMode, early, locks, thread, host, up, ble, scanning,
                 reports, notices, bounds, history>>

\* Mutant of ConstructEnd: the mode is not passed on.
ConstructEndForgetsMode ==
  /\ obj = "constructing"
  /\ obj' = "live"
  /\ early' = Known
  /\ UNCHANGED <<asked, enableRandomAddrMode, scannerId, locks, thread, host, service,
                 reports, notices, bounds, history>>

\* The rest of the constructor: the mode, and the observer.
ConstructEnd ==
  /\ obj = "constructing"
  /\ obj' = "live"
  /\ enableRandomAddrMode' = asked
  /\ early' = Known
  /\ UNCHANGED <<asked, scannerId, locks, thread, host, service, reports, notices,
                 bounds, history>>

-----------------------------------------------------------------------------
(* Calls. *)

pc(t) == thread[t].pc

Goto(t, where) == thread' = [thread EXCEPT ![t].pc = where]

Call == calls < MaxCalls /\ calls' = calls + 1

\* A call is made by an idle thread, or by an observer.
MayCall(t) == obj = "live" /\ pc(t) \in {"idle", "callback"} /\ Call

\* A call that is made in a callback returns to the observer.
Return(t) ==
  /\ Goto(t, IF thread[t].inCallback THEN "callback" ELSE "idle")
  /\ checked' = checked \ {t}

\* StartScan and StopScan.  The JavaScript interface checks the number first.
ScanCall(t, op, js) ==
  /\ MayCall(t)
  /\ thread' = [thread EXCEPT ![t] = [pc |-> IF js THEN "check" ELSE "enter", op |-> op,
                                      inCallback |-> @.inCallback]]
  /\ UNCHANGED <<manager, scannerId, locks, host, service, reports, notices, changes, history>>

\* Mutant of ResetScannerId: the expired number is kept.
KeepScannerId == UNCHANGED scannerId

ResetScannerId == scannerId' = Invalid

\* CheckValidScannerId.  Without BLE or an answer the number is taken for
\* valid, without a remote it is reset.
CheckValidScannerId(t) ==
  /\ pc(t) = "check" /\ scannerIdMutex = "nobody"
  /\ \/ /\ up /\ ble
        /\ IF scannerId \in Known \cup {Invalid} THEN UNCHANGED scannerId ELSE ResetScannerId
        /\ checked' = checked \cup {t}
     \/ /\ ~up \/ ~ble
        /\ UNCHANGED scannerId \/ ResetScannerId
        /\ UNCHANGED checked
  /\ Goto(t, "enter")
  /\ UNCHANGED <<manager, locks, host, service, reports, notices, bounds, forgotten, missed>>

\* StartScan and StopScan return at once while BLE is off.
Enter(t) ==
  /\ pc(t) = "enter"
  /\ IF ble THEN Goto(t, "lock") /\ UNCHANGED checked ELSE Return(t)
  /\ UNCHANGED <<manager, scannerId, locks, host, service, reports, notices, bounds,
                 forgotten, missed>>

\* They take the mutex, and have a number or ask for one.
Lock(t) ==
  /\ pc(t) = "lock" /\ scannerIdMutex = "nobody"
  /\ scannerIdMutex' = t
  /\ Goto(t, IF scannerId = Invalid THEN "init" ELSE "scan")
  /\ UNCHANGED <<manager, scannerId, listLock, mapLock, host, service, reports, notices,
                 bounds, history>>

\* Mutant of InitScannerId: it takes the mutex that its caller holds.
InitScannerIdLocks(t) ==
  /\ pc(t) = "init" /\ scannerIdMutex = "nobody"
  /\ RegisterCallback
  /\ Goto(t, "scan")
  /\ UNCHANGED <<manager, locks, host, up, ble, scanning, reports, notices, bounds, history>>

\* Without a number the call ends.
InitScannerId(t) ==
  /\ pc(t) = "init"
  /\ RegisterCallback
  /\ IF scannerId' = Invalid
     THEN scannerIdMutex' = "nobody" /\ Return(t)
     ELSE Goto(t, "scan") /\ UNCHANGED <<scannerIdMutex, checked>>
  /\ UNCHANGED <<manager, listLock, mapLock, host, up, ble, scanning, reports, notices,
                 bounds, forgotten, missed>>

\* The service starts or stops the scan of a number it knows; for another it
\* returns an error.  The mutex is released with the call's return.
Scan(t) ==
  /\ pc(t) = "scan"
  /\ scanning' = IF thread[t].op = "start" THEN scanning \cup ({scannerId} \cap Known)
                 ELSE scanning \ {scannerId}
  /\ scannerIdMutex' = "nobody"
  /\ Return(t)
  /\ UNCHANGED <<manager, scannerId, listLock, mapLock, host, up, ble, registered, nextId,
                 reports, notices, bounds, forgotten, missed>>

\* A result reaches the observers, which are called with the list's lock held.
OnScanCallback(t) ==
  /\ pc(t) = "idle" /\ obj = "live" /\ scanning # {} /\ listLock = "nobody" /\ Call
  /\ listLock' = t
  /\ thread' = [thread EXCEPT ![t] = [pc |-> "callback", op |-> @.op, inCallback |-> TRUE]]
  /\ UNCHANGED <<manager, scannerId, scannerIdMutex, mapLock, host, service, reports,
                 notices, changes, history>>

ObserverReturns(t) ==
  /\ pc(t) = "callback"
  /\ listLock' = "nobody"
  /\ thread' = [thread EXCEPT ![t] = Idle]
  /\ UNCHANGED <<manager, scannerId, scannerIdMutex, mapLock, host, service, reports,
                 notices, bounds, history>>

-----------------------------------------------------------------------------
(* Destruction, when no call is under way. *)

\* Mutant of DeregisterFunc: it does not wait for functions that run.
DeregisterAtOnce ==
  /\ obj = "live" /\ \A t \in Threads : pc(t) = "idle"
  /\ obj' = "deregistered"
  /\ UNCHANGED <<asked, enableRandomAddrMode, early, scannerId, locks, thread, host, service,
                 reports, notices, bounds, history>>

DeregisterFunc ==
  /\ obj = "live" /\ \A t \in Threads : pc(t) = "idle"
  /\ mapLock = "nobody"
  /\ obj' = "deregistered"
  /\ UNCHANGED <<asked, enableRandomAddrMode, early, scannerId, locks, thread, host, service,
                 reports, notices, bounds, history>>

\* The callback is deregistered with the service, if there is one.
Destroy ==
  /\ obj = "deregistered" /\ scannerIdMutex = "nobody"
  /\ obj' = "gone"
  /\ registered' = [i \in Known \ {scannerId} |-> registered[i]]
  /\ scanning' = scanning \ {scannerId}
  /\ UNCHANGED <<asked, enableRandomAddrMode, early, scannerId, locks, thread, host, up, ble,
                 nextId, reports, notices, bounds, history>>

-----------------------------------------------------------------------------
(* Reports and notices. *)

Stored == obj \in {"stored", "constructing", "live"}

\* NotifyBluetoothStateChange iterates over the functions with the map's lock
\* held; n is about to run the manager's.
Notify(n, what) ==
  /\ mapLock = "nobody"
  /\ mapLock' = IF Stored THEN n ELSE "nobody"
  /\ notifier' = [notifier EXCEPT ![n] = IF Stored THEN what ELSE "idle"]

\* BluetoothHostObserverImp::isNeedInterceptSwitchStatus.
Intercepted(what) == what = "off" /\ preBleOff /\ ~isServiceOn

\* OnStateChanged of the host's BLE observer, called by n.
OnStateChanged(n, what) ==
  \/ /\ Intercepted(what)
     /\ missed' = missed \cup ({scannerId} \ {Invalid})
     /\ notifier' = [notifier EXCEPT ![n] = "idle"]
     /\ UNCHANGED <<mapLock, preBleOff>>
  \/ /\ ~Intercepted(what)
     /\ preBleOff' = (what = "off")
     /\ Notify(n, what)
     /\ UNCHANGED missed

OnReport ==
  /\ reports # <<>> /\ notifier["observer"] = "idle"
  /\ OnStateChanged("observer", Head(reports))
  /\ reports' = Tail(reports)
  /\ UNCHANGED <<manager, scannerId, scannerIdMutex, listLock, thread, isServiceOn, service,
                 notices, bounds, forgotten, checked>>

OnAddSystemAbility ==
  /\ notices # <<>> /\ Head(notices) = "add" /\ notifier["samgr"] = "idle"
  /\ isServiceOn' = TRUE
  /\ notices' = Tail(notices)
  /\ UNCHANGED <<manager, scannerId, locks, thread, notifier, preBleOff, service, reports,
                 bounds, history>>

\* OnRemoveSystemAbility clears the flag, and the next step tells the host.
OnRemoveSystemAbility ==
  /\ notices # <<>> /\ Head(notices) = "remove" /\ notifier["samgr"] = "idle"
  /\ isServiceOn' = FALSE
  /\ notifier' = [notifier EXCEPT !["samgr"] = "removed"]
  /\ notices' = Tail(notices)
  /\ UNCHANGED <<manager, scannerId, locks, thread, preBleOff, service, reports, bounds, history>>

\* OnRemoveBluetoothSystemAbility: if the service runs again the functions are
\* run, otherwise the report that it could not make is made up for.
OnRemoveBluetoothSystemAbility ==
  /\ notifier["samgr"] = "removed"
  /\ \/ up /\ Notify("samgr", "off") /\ UNCHANGED <<preBleOff, missed>>
     \/ ~up /\ OnStateChanged("samgr", "off")
  /\ UNCHANGED <<manager, scannerId, scannerIdMutex, listLock, thread, isServiceOn, service,
                 reports, notices, bounds, forgotten, checked>>

Unlock(n) ==
  /\ mapLock' = "nobody"
  /\ notifier' = [notifier EXCEPT ![n] = "idle"]

\* Mutant of TurnOff: it gives up if the mutex is taken.
TurnOffTries(n) ==
  /\ notifier[n] = "off"
  /\ IF scannerIdMutex = "nobody" THEN scannerId' = Invalid ELSE UNCHANGED scannerId
  /\ forgotten' = forgotten \cup ({scannerId} \cap Known)
  /\ Unlock(n)
  /\ UNCHANGED <<manager, scannerIdMutex, listLock, thread, isServiceOn, preBleOff, service,
                 reports, notices, bounds, missed, checked>>

\* The function run when Bluetooth is off.
TurnOff(n) ==
  /\ notifier[n] = "off" /\ scannerIdMutex = "nobody"
  /\ scannerId' = Invalid
  /\ forgotten' = forgotten \cup ({scannerId} \cap Known)
  /\ Unlock(n)
  /\ UNCHANGED <<manager, scannerIdMutex, listLock, thread, isServiceOn, preBleOff, service,
                 reports, notices, bounds, missed, checked>>

NotifyTurnOn(n) ==
  /\ notifier[n] = "on" /\ scannerIdMutex = "nobody"
  /\ TurnOn
  /\ Unlock(n)
  /\ UNCHANGED <<manager, scannerIdMutex, listLock, thread, isServiceOn, preBleOff, up, ble,
                 scanning, reports, notices, bounds, history>>

-----------------------------------------------------------------------------
ThreadStep(t) ==
  \/ CheckValidScannerId(t) \/ Enter(t) \/ Lock(t) \/ InitScannerId(t) \/ Scan(t)
  \/ ObserverReturns(t)

NotifierStep(n) == TurnOff(n) \/ NotifyTurnOn(n)

Deliver ==
  OnReport \/ OnAddSystemAbility \/ OnRemoveSystemAbility \/ OnRemoveBluetoothSystemAbility

ObjectStep == Construct \/ ConstructTurnOn \/ ConstructEnd \/ DeregisterFunc \/ Destroy

ServiceStep == BleTurnsOn \/ BleTurnsOff \/ ServiceDies \/ ServiceStarts

Next ==
  \/ \E t \in Threads :
       \/ ThreadStep(t) \/ OnScanCallback(t)
       \/ \E op \in {"start", "stop"}, js \in BOOLEAN : ScanCall(t, op, js)
  \/ \E n \in Notifiers : NotifierStep(n)
  \/ Deliver \/ ObjectStep \/ ServiceStep

Spec == Init /\ [][Next]_vars

\* Threads go on, observers return, and what the service and samgr send
\* arrives.  Calls, changes of the service and the object's life are free.
Fairness ==
  /\ \A t \in Threads : WF_vars(ThreadStep(t))
  /\ \A n \in Notifiers : WF_vars(NotifierStep(n))
  /\ WF_vars(OnReport)
  /\ WF_vars(OnAddSystemAbility \/ OnRemoveSystemAbility \/ OnRemoveBluetoothSystemAbility)
  /\ WF_vars(ConstructTurnOn \/ ConstructEnd \/ Destroy)

LiveSpec == Spec /\ Fairness

-----------------------------------------------------------------------------
(* Properties. *)

OnItsWay(sequence, what) == \E i \in DOMAIN sequence : sequence[i] = what

\* While the manager lives, a number that the service no longer knows is about
\* to be reset: a report, a notice or a function that will do so is on its
\* way.  The exceptions are a turn-off that was not reported (the application
\* was frozen) and one that the host dropped because its last report was "off"
\* and the service dead, although StartScan had obtained the number in between.
ExpiredNumberIsReset ==
  Stored =>
    \/ scannerId \in Known \cup {Invalid} \cup missed
    \/ OnItsWay(reports, "off") \/ OnItsWay(notices, "remove")
    \/ \E n \in Notifiers : notifier[n] \in {"off", "removed"}

\* Whatever the service keeps for the manager can be stopped and is given back:
\* it is under the current number, and nothing is left once the manager is
\* destroyed.  The exception is a number obtained from a service that was
\* switched on again before the function for the earlier turn-off ran, which
\* then resets the new number.
NothingLeftAtService ==
  Known \subseteq forgotten \cup (IF obj = "gone" THEN {} ELSE {scannerId})

\* A scan that the JavaScript interface asks for is made with a number that the
\* service knows, unless BLE went off after it was checked, although check and
\* scan take the mutex separately and functions may run in between.
CheckedNumberIsKnown ==
  \A t \in checked : pc(t) = "scan" => scannerId \in Known

\* The functions stored with the profile manager, which refer to the manager,
\* are not run after its destruction.
NoFunctionAfterDestruction ==
  obj \in {"deregistered", "gone"} => \A n \in Notifiers : notifier[n] \notin {"on", "off"}

\* Every call returns, every observer that returns frees the list, and every
\* report is handled, although functions wait for scannerIdMutex_ with the
\* map's lock held, calls hold scannerIdMutex_ during calls of the service,
\* and observers call with the list's lock held.
CallsReturn ==
  /\ \A t \in Threads : pc(t) # "idle" ~> pc(t) = "idle"
  /\ \A n \in Notifiers : notifier[n] # "idle" ~> notifier[n] = "idle"

\* The constructor's enableRandomAddrMode "indicates whether to use random
\* address for interface interaction": what the manager registers is
\* registered with the mode it was asked for.  The exception is a manager
\* constructed while BLE is on, which registers before its mode is set, and
\* keeps that number until it expires.
RegisteredAsAsked ==
  obj = "live" => \A i \in Known \ early : registered[i] = asked
=============================================================================
