# Bluetooth client framework: TLA+ models, checks and proofs

This project models the parts of the Bluetooth client framework
(`src/frameworks/inner`, and the asynchronous calls of
`src/frameworks/js/napi`) that keep state of their own and are entered by several
threads. The Bluetooth service itself is not in the repository; the models treat
it, the system ability manager (samgr), `ffrt` queues and `SafeMap` as external
and describe them by how the code uses them.

## 1. Inventory

| Component | State | Operations | Hard behaviour | What makes it correct |
|---|---|---|---|---|
| Switch module (`bluetooth_switch_module.*`) | busy flag, cached requests, `noAutoConnect_`, timeout handle, serial task queue | enable / disable / restrict, reports ON / OFF / HALF, timeout, replay | timeout task racing the report that cancels it; requests between the end of an action and its replay; failing actions | never busy for ever; no request duplicated, reordered or stranded; the last request survives |
| Host, switch front end (`bluetooth_host.cpp`) | `switchModuleMutex_`, the switch module | `EnableBle`, `DisableBt`, `EnableBluetoothToRestrictMode`, `RestrictBluetooth`, `EnableBluetoothNoAutoConnect`, `Close`, service callbacks | flag set outside the lock; a call that sends two requests; death of the service | the radio ends where the last call wanted it; the flag is used by one enable |
| Host, loading of the service (`LoadBluetoothHostService`) | `proxyMutex_`, condition variable, `saManagerStatus_` | load, wait, success and failure callbacks | notifications without the lock; loader and callback thread waiting for each other | every load returns; a running service is found |
| Profile manager (`bluetooth_profile_manager.*`) | cache of remotes, registered functions, two flags, four locks | `GetProfileRemote`, `RegisterFunc`, `DeregisterFunc`, `OnAdd/OnRemoveSystemAbility`, `NotifyBluetoothStateChange`, image load | callbacks against lookups and registrations | a running service is found, registrations are served, dead remotes are dropped |
| GATT client (`bluetooth_gatt_client.cpp`) | connection state, the request in flight, discovery flag, copy of the services, four mutexes | connect, disconnect, close, discover, get services, read, write, notify; answers, changes, disconnections | a late disconnection against newer requests; waits and callbacks with a mutex held | the request in flight is the one the client knows; no flag outlives its operation; calls return |
| GATT server (`bluetooth_gatt_server.cpp`) | services, devices, set of pending requests | add, remove, clear services, respond, close; requests, connections, restart | the order of the request set is no strict weak ordering; pointers to erased attributes | pending requests are the unanswered ones; an answer carries the handle its device waits for |
| BLE advertiser (`bluetooth_ble_advertiser.cpp`) | map from handles to callbacks | start, stop, close, reports, death notice | check-then-act on the map; late reports and notices | a set stays reachable; one handle per callback |
| BLE central manager (`bluetooth_ble_central_manager.cpp`) | scanner id, address mode, `scannerIdMutex_`, observers | construct, start, stop, check the id, results, functions run at BLE on and off, destroy | late, lost and dropped turn-offs; functions against the destructor; three locks | expired ids are reset, nothing is left at the service, calls return |
| Sockets (`bluetooth_socket*.cpp`, `ohos_bt_socket.cpp`) | status, descriptors, streams, id tables; no lock | create, accept, connect, read, write, close | close during connect or accept; reuse of numbers | descriptors and observers are returned; nobody uses another's file; close ends blocked calls |
| Observer and object maps, observer lists | registered observers, id allocation | register, deregister, look up | wrap of ids; two handles for one observer | ids unique for a lap |
| C adapter, advertising (`ohos_bt_gatt.cpp`) | table of advertisements, timers, task queue | start, stop, tasks, reports, timers | tasks and reports that know an advId only | an advertisement keeps its advId, its advertiser and its timer |
| Asynchronous calls of the JS bindings (`napi_async_work.cpp`) | map of works, timer | call, complete, answer, timeout | timeout against answer; weak pointer of the timer | a call is settled, once, by its own answer |
| A2DP, AVRCP, HFP, HID, PAN, OPP, MAP, PBAP, BAS profiles, remote device | none beyond the proxy | forward to the service | - | - |
| IPC proxies, stubs, parcels; other bindings; rest of the C adapter; dialog application; tools | none that outlives a call | marshalling, conversion, user interface | - | - |

How they interact: applications call `BluetoothHost`; it passes switch requests
to the switch module under `switchModuleMutex_`. A switch action loads the service
if necessary, obtains the host's remote from the profile manager and calls the
service. The service reports its state through observer callbacks, which enter the
switch module again. samgr reports start and death of the service to the profile
manager, which runs the registered functions, wakes a waiting loader and tells the
host, and through it the switch module, that the radio is off.

The other components follow one pattern: they register a function with the profile
manager, which it runs at every start of the service, call the service through a
proxy, and get reports on a callback thread. The C adapter and the bindings sit on
top of them. Each is modelled with its own view of the service, because they share
nothing but the profile manager.

`PROJECT.json` lists every component with its status, and the hazards with the
lines where they bite.

## 2. Modules

| Module | Models | Extends |
|---|---|---|
| `BluetoothSwitchModule` | the switch module | - |
| `BluetoothSwitchLedger` | what it promises: an abstract ledger of calls | - |
| `BluetoothSwitchModuleProofs` | theorems about the switch module, and about the host around it | `BluetoothHostSwitch`, TLAPS |
| `BluetoothHostSwitch` | host calls and callbacks, service, around the switch module | `BluetoothSwitchModule` |
| `BluetoothProfileManager` | the profile manager, samgr, client threads | - |
| `BluetoothProfileManagerProofs` | theorems about the profile manager, and about the loading of the service | `BluetoothHostLoad`, TLAPS |
| `BluetoothHostLoad` | loading of the service on top of the profile manager | `BluetoothProfileManager` |
| `BluetoothGattClient` | one GATT client, the service and a remote device | - |
| `BluetoothGattClientProofs` | theorems about it | `BluetoothGattClient`, TLAPS |
| `BluetoothGattServer` | a GATT server, the service and remote devices | - |
| `BluetoothGattServerProofs` | theorems about it | `BluetoothGattServer`, TLAPS |
| `BluetoothSocket` | sockets, streams, object maps, the C calls on them, the kernel's descriptor table | - |
| `BluetoothBleAdvertiser` | the advertiser and its observer map | - |
| `BluetoothBleAdvertiserProofs` | theorems about it | `BluetoothBleAdvertiser`, TLAPS |
| `BluetoothBleCentralManager` | the scanner of an application, the functions it registers and its observers | - |
| `BluetoothBleCentralManagerProofs` | theorems about it | `BluetoothBleCentralManager`, TLAPS |
| `OhosBtGattAdv` | advertising through the C adapter | - |
| `OhosBtProofs` | theorems about what the C adapter drives: `OhosBtGattAdv` and `BluetoothSocket` | `OhosBtGattAdv`, `BluetoothSocket`, TLAPS |
| `NapiAsyncWork` | asynchronous calls of the JavaScript bindings | - |
| `NapiAsyncWorkProofs` | theorems about it | `NapiAsyncWork`, TLAPS |
| `MC...` | values of the constants for TLC | the module of that name |

Definitions whose comment starts with "mutant" are wrong versions of a definition
that follows them. No specification uses them; they serve to show that each
property can fail.

### Switch module

`ProcessRequest` is one call; `CacheRequest` and `StartAction` are the branches of
`ProcessBluetoothSwitchAction`. `bluetoothSwitchEventMutex_` makes every event
atomic, except that the action runs inside it: `action` is then not `NoAction`, and
`ActionReturn` ends it. `ResetNoAutoConnect` is a step of its own because other
threads set the flag without a lock. `ProcessStateReport` is a report, with
`DeduplicateCacheEvent` and the choice of the request to replay. The queue starts
one task at a time (`StartTimeoutTask`, `StartCachedTask`); a started task waits
for the mutex and can no longer be cancelled. A call is identified by its number,
which stands for `callingName`; `isAsync` and `isBleOwnerMode` are left out: no step
depends on them, and a replay drops them.
`arrived`, `issued`, `lastRet` and `disturbed` are history variables.

### Host around the switch module

`EnableBle`, `DisableBt`, `EnableBluetoothToRestrictMode` and
`OnBluetoothSwitchAction` are calls with one event. `RestrictBluetooth` holds
`switchModuleMutex_` over two (`restrictCall`). `NoAutoConnectSet` and
`NoAutoConnectEnable` are the two halves of `EnableBluetoothNoAutoConnect`. The
service performs accepted operations in order and reports the state it reaches; it
may keep silent if nothing changed, fail a call, or die.

### Profile manager

A remote is the number of the service's start it belongs to, so that a dead one can
be told from a live one. A thread is a record with the operation, the next step and
the lookup's local variables; each step ends where another thread can interfere:
at a lock, a call to samgr or the host, or an access to an atomic or a `SafeMap`.
`SafeMap::Insert` does not replace an entry and `SafeMap::Iterate` holds the map's
lock during the callbacks. A live host may have no remote for a profile (`AskHost`);
the function is then not called, and `refused` records it as `called` records the
calls. Reports of samgr arrive in order on one thread. A missing
samgr and a failing subscription are left out. Registered functions are taken to
have both a load and a BLE-on part.

### Loading of the service

`loader[t]` is the place in `LoadBluetoothHostService`. The predicate of `wait_for`
and falling asleep are separate steps, so notifications can be lost;
`notify_one` wakes any one sleeper. `SwitchActionLoads` holds `switchModuleMutex_`,
`SatelliteControl` does not. The callback thread needs that mutex at the end of
`OnRemoveSystemAbility`. The wait may end at any time (`LoadTimeout`), and samgr may
answer a load at any time after it, too. `ReadStatus` decides what is returned,
`"failed"` on a stored `LOAD_FAIL`, and `ResetStatus` resets it; `GiveUp` is the
return after a wait that found nothing. `atEnd` (what the wait ended with) and
`lateFails` (the lives of the service in which a load was answered with a failure
after their start was handled) are history. The clients make no other calls here; the lookups of the
loads stand for all.

### GATT client

Calls that hold `connStateMutex_` and the request mutex from check to assignment are
one step (`Request` stands for the reads, the writes and, with a descriptor,
`SetNotifyCharacteristicInner`). `DiscoverServices` and `GetService` wait, call the
service or, on a discovery that is refused (`DiscoverFails`), the application with
locks held, and take a step for each part; so does the handling of a
disconnection (`OnDisconnected`, `CleanDiscovery`, `CleanRequest`,
`SetDisconnected`). `SetNotifyWithoutDescriptor` merges the call of the service, the
wait for the request mutex and the start of the detached thread into one step. A copy
of the services is none, an old one or the latest. Three callbacks of the application
are made with a mutex held: that of a notification (`gattServicesMutex_`), that of
`SetNotifyCharacteristic` without a descriptor (the request mutex) and that of a
refused discovery (`connStateMutex_`). Each may return or call back into the client:
`callback`, `notifier` or `thread[t]` is then `"self"`, for ever. `gone`, `overtaken` and `raced` are
history: they record the cases that the properties exempt.

### GATT server

A device is a pair of address and transport, an attribute its handle. `Less` is
`RequestInformation::operator<`, `Emplace` and `Find` what `std::set` does with it:
requests of different kinds are equivalent, so the second is not inserted and a
search may return another entry. `HandleRead` is the read through the stored
pointer: any handle if the attribute is gone or of the wrong kind. `disturbed`
records that requests of two kinds overlapped, that a device left or a service was
removed with a request pending, or that the service or the registration ended. The
registration with a service that starts is taken to succeed.

### Sockets

Nothing is locked in this code, so every access to `fd_`, `socketStatus_` and
`acceptFd_` that another thread can separate from the next is a step, except in
`CloseSet` (status, test of `fd_`, two shutdowns) and `CloseFd` (`close`, reset of
`fd_`), which are one step each. A blocked call
keeps the file it entered with; a number is reused, lowest first. `fdTable` maps
numbers to files, `touched` records that a socket reached another's file through a
number, `overlapped` which calls met on a socket. `age` counts how many ids
`g_clientMap` has handed out since it handed out each, and `laps` records the ages of
ids that were handed out again while in use, by a stored socket or by a
`SocketDisconnect` that is still to remove it. `SocketRead` and `SocketWrite` are one
operation. Objects are destroyed with their last reference (`Return`), and their
storage is used again.

### Advertiser and C adapter

`BluetoothBleAdvertiser` has one step per operation of the locked map and per call of
the service. `excuse` records what was under way when a handle was given out, `twice`
the callbacks that two calls asked a handle for at once. In `OhosBtGattAdv` an
advertisement is the number of its start; the table maps an advId to it. Queued
start and stop tasks, timers and reports carry an advId and meet whoever holds it by
then. A timer may fail to register (`StartAdvAddrTimer`), after which the start goes on,
and a stop may fail (`StopFails`), at once or by a report that empties the slot whatever
its result. `untracked` and `untimed` record the advertisements that lost their advId or
their timer in these ways.

### BLE central manager

`Construct`, `ConstructTurnOn` and `ConstructEnd` are the parts of the constructor:
`RegisterFunc` stores the functions, may run `bleTurnOnFunc` at once, and only then
the mode is set. `StartScan` and `StopScan` are `Enter`, `Lock`, `InitScannerId` and
`Scan`; the JavaScript interface puts `CheckValidScannerId` before them, with the mutex
released in between. The functions run on two threads, the one that gets reports
(`OnReport`) and samgr's (`OnRemoveSystemAbility` and what follows it); each takes
the lock of the function map (`Notify`) and then waits for the mutex (`TurnOff`,
`NotifyTurnOn`). `Intercepted` is the host's filter of repeated reports. The service
hands out a new number at each registration and forgets all when BLE goes off or it
dies; a report may be lost (a frozen application). Results are delivered with the
lock of the observer list held, and an observer may call. `forgotten`, `missed`,
`checked` and `early` are history; they record the cases that the properties exempt.
Initial states are those of a process whose service is up or down and whose last BLE
report was "off" or another.

### Asynchronous JavaScript calls

One type of call, hence one entry in the map. The JavaScript, worker, callback and
timer threads are separate; `AnswerGet` and `AnswerErase` are the two locked steps
of `AsyncWorkCallFunction`, `CallUnregister` and `CallPost` those of `CallFunction`. A timer
completes its work only if a shared pointer still keeps it alive (`Alive`). A timer
that cannot be registered is left out.

## 3. Runs

| Run | Bounds | Shows |
|---|---|---|
| `switch` | 5 calls | timeout cover, stranding, order, last request, refinement of the ledger (hence each call at most once); accepted requests settle |
| `switch_timeout` | 2 calls | **violation**: a late timeout task gives up the next request |
| `host` | 4 calls, 1 without auto connect | the radio ends where the last call wanted it; the flag is consumed once; host and module come to rest |
| `profile_manager` | 1 client, 2 starts, 1 registration, 1 image load | the service is found, registrations are served unless the host has no remote, dead remotes are dropped but for one race, every call returns |
| `host_load` | 1 client, 2 loads, 2 starts | a service whose start is handled is not given up, nor failed for an old `LOAD_FAIL`; loads and callbacks return |
| `gatt_client` | 2 application threads of which 1 gets services, 1 report on its way, 1 type of request | requests are tracked, no flag is left behind, services are the latest but for one race, calls return unless the application calls back with a mutex held |
| `gatt_server` | 2 devices, a characteristic and a descriptor, 2 reports on their way, 2 connections, 1 death | requests stay searchable and known, answers fit, requests reach the application |
| `socket` | 2 threads, 3 calls, 3 descriptors, 1 server and 3 clients, ids up to 2 | resources are returned, descriptors are one's own, blocked calls return |
| `ble_advertiser` | 2 threads, 2 callbacks, 2 handles, 3 calls, 1 death | sets can be stopped, one handle per callback |
| `ble_central_manager` | 2 threads, 3 calls or results, 2 changes of the service's state, 3 numbers | expired numbers are reset, nothing is left at the service, checks hold, no function after destruction, the mode is used; calls, observers and functions return |
| `napi_async_work` | 3 calls | calls settle, once, by their own answer |
| `ohos_bt_gatt_adv` | 3 starts in a table of 2, 1 death | advertisements keep advId, advertiser and timer |

Bounds. Four calls are the least with which a replay is overtaken, cached behind a
newer request and replayed again; the switch run has five. Two starts of the service
are needed for a remote, a report or a status of one life to be seen in the next. In
the GATT client two application threads contend for `connStateMutex_`, and one of them,
which also gets services, with the other, the callback thread and the detached thread
for the rest; one report on its way besides the one being handled lets a
disconnection be overtaken by a new link. That an answer of one type meets a request of
another takes two types; the theorem covers it, and its inductive invariant was checked
with two types and without the constraint named next. The run does not explore what follows
a call back into the client (`NotSelfBlocked`): the wait for one's own mutex never
ends, so the liveness property holds of every such behaviour by its exception, and the
invariants are proved for those states too. Two devices with two kinds of attribute
give requests of one kind, of two kinds, and an overlap. Three advertiser calls are two
starts and a stop or a close; a separate run with four found nothing else. Three socket calls are a server and two accepts, or a
connection with a use or a close of it and one more; three descriptors and one other
file let a number be reused by a socket and by somebody else; ids up to two wrap. Two
`SocketDisconnect`s of one id, of which the later removes a newer socket, need four
calls and ids up to one, which a separate run covered once and the theorem covers for
every bound. A table of two is full with the third start, so that an advId is taken back. Three
asynchronous calls let a late answer complete the second and its answer the third.
Two changes of the service's state are a turn-off and a turn-on before its function
runs, or, for a process that has seen the service die, a turn-on and a turn-off before
samgr's notice; each exemption of the central manager's properties occurs within them,
and three calls let an observer call while another thread does. Threads and callbacks
are interchangeable: `ble_advertiser`, which checks invariants only, uses symmetry.
The loads are made by one thread, because liveness with two is out of reach; a
notification that reaches the wrong one of two waiters is therefore not covered. Runs that switch the
deadlock check off can come to an end: the bounded calls are over, or `Close` ended the module. The
profile manager and the GATT client are checked for deadlock.

### What the runs found

`switch_timeout` is a disagreement with a comment of the code; `PROJECT.json` quotes
it. Other exceptions are real, too, and are part of the properties. The comment of each
property names them, as far as the model goes; what the model leaves out (section 5, and
the comments of the definitions) is no part of that claim:

* An enable that holds `switchModuleMutex_` blocks the report of the service's
  death, behind which the report of its start waits; the load fails after four
  seconds although the service is up. A load can also return false for a service that
  runs because it reads a `LOAD_FAIL` stored before the start was handled, or by the
  answer to another load.
* A function is not called at the start of the service if the host has no remote for
  its profile at that moment, and nothing asks again before the next start or image load.
* Another caller's enable can consume the flag that `EnableBluetoothNoAutoConnect`
  set; a lookup overtaken by the death of the service caches a dead remote; after an
  image load `IsBluetoothServiceOn` can be true with no service running.
* GATT client: a change reported between retrieval and `isGetServiceYet_ = true` is
  lost; after `Close` or the death of the service `isDiscovering_` and `doing_` may
  stay set; each of the three callbacks made with a mutex held blocks for ever if it
  calls back.
* GATT server: of two overlapping requests of different kinds only the first is
  noted, and the answer to the second is sent with the first one's attribute.
* Sockets: overlapping accepts lose a descriptor or share one; a close that overlaps
  `Connect` leaves an observer with the service; streams use a number after `Close`.
  Of two `SocketDisconnect`s that overlap on one id, the later removes whatever is
  stored under it by then, a newer socket once the ids have wrapped around. That
  socket ends without `Close`, and its observer stays with the service. The proof
  below brought this to light: four calls are needed, one more than the run makes.
* Advertising: late reports and tasks that know a handle or an advId only act on its
  next user; `startAdvFunc` then may meet a null `g_BleAdvertiser`. A stop that fails
  leaves a set at the service whose timer is gone and, if the failure is reported, whose
  advId is given back; a timer that cannot be registered leaves a set that keeps its
  address.
* Central manager: a manager constructed while BLE is on registers with the default
  address mode, and keeps that registration until BLE goes off; a turn-off function
  that runs late forgets a newer number, whose scan can then be neither stopped nor
  deregistered; an "off" that the host takes for a repetition leaves an expired number,
  on which native scans fail (the JavaScript interface checks it first).
* Asynchronous calls: an answer that is late by a timeout completes the next call.

### Fairness

The service answers every IPC call, `ffrt` runs tasks that are due, samgr's reports
are delivered, threads inside a call go on, and a wait ends after its time. For lock
acquisition strong fairness is assumed (a mutex that is free again and again is
obtained in the end). Nothing is assumed of applications, of state reports in
`BluetoothSwitchModule` (the timeout must do), of samgr's answers to a load, of the
service's answers to asynchronous calls, of its descriptors, signals and
connections, or of remote devices. The application's callbacks return in the GATT
modules unless they call back, and in the central manager, where they may call.
There weak fairness is enough for the locks within the bounds. In `BluetoothHostLoad` a wait may end at any moment, whatever has been reported, and ends
at some moment. The advertising modules state no liveness and no
fairness.

## 4. Proofs

`BluetoothSwitchModuleProofs` proves, for every number of calls:

| Theorem | Property | Inductive invariant and argument |
|---|---|---|
| `TypeCorrect` | `TypeOK` | `TypeOK` is inductive given what sub-sequences and appended sequences contain |
| `TimeoutAlwaysCovers` | `TimeoutCoversAction` | `TimeoutInv`: `TypeOK`, the property, and `MutexInv`: an action that holds the mutex means `isBtSwitchProcessing_` is set, and one that runs on the event queue is the started replay of a cached call |
| `CallsHandledAtMostOnce` | `HandledAtMostOnce` | `OnceInv`: `TimeoutInv`, the property, every pending or issued id is at most `arrived` (so a new call is fresh), and a request under way has a call as its timeout handle |
| `SwitchModuleImplementsLedger` | `ImplementsLedger` | under `OnceInv` every step is an Accept, an Issue, a Rest or a stutter of the ledger |
| `NeverStrandedBySuccess` | `StrandedOnlyByFailedAction` | `StrandedInv`: `TimeoutInv` and the property (a non-empty cache with nothing in flight and no request under way follows a failed action) |
| `LastRequestNeverDropped` | `LastRequestSurvivesReport` | what deduplication and replay leave is a tail of the cache; the last event, if expected, is in it or is the one replayed |
| `IssuedInOrder` | `InOrderUnlessDisturbed` | `OrderInv`: `OnceInv`, the property, and `AloneInv`: while undisturbed, a replay is the only one, the module waits for it, and no request is in the cache with nothing ahead of it |

The plain property is not inductive in the second to fifth and in the last case.
The second to fifth need `MutexInv`, what is known of the action that holds the
mutex; the order needs `AloneInv` as well, because a new call overtakes what is
stranded. The only assumption is `MaxRequestsAssumption` (`MaxRequests \in Nat`).

The same module proves about the host around the switch module, for every number of
calls that ask for no auto connect:

| Theorem | Property | Inductive invariant and argument |
|---|---|---|
| `NoAutoConnectNeverDoubled` | `NoAutoConnectConsumedOnce` | `NoAutoInv`: the property, and an enable that has loaded the flag leaves it set until it resets it, so that each reset pays for its own enable |
| `LastCallIsHonoured` | `QuietMeansWanted` | `FollowInv`, below |

Every step of the host is a step or a stutter of the switch module
(`HostStepIsModuleStep`), so the module's invariants hold there too. `FollowInv` adds
to `OrderInv`: `FlightInv` (while nothing failed, one operation at most is with the
action, the service or a report, and the module is busy with it), `RestrictInv` (who
restricts waits for its own action) and `WantedInv` (wherever it is, in the cache, in
a replay, in the action or performed, the youngest request asks for the state that
was last wanted). The hard step is the report, which drops requests from the cache:
each one it drops was superseded or asks for the state that is reached. Additional
assumption: `MaxNoAutoCallsAssumption` (`MaxNoAutoCalls \in Nat`).

`BluetoothGattServerProofs` proves, for any devices, services, attributes and bounds:

| Theorem | Property | Inductive invariant and argument |
|---|---|---|
| `TypeCorrect` | `TypeOK` | inductive; appending and taking a report keep the queue a sequence of reports |
| `RequestsStaySearchable` | `PendingOfOneKind` | inductive with `TypeOK`: an insertion is refused unless the new request is comparable to every pending one, hence of their kind |
| `PendingRequestsKnown` | `PendingAreTheUnanswered` | `AnswerInv`, below |
| `AnswersAlwaysFit` | `AnswerFitsRequest` | `AnswerInv`, below |

That the pending requests are the unanswered ones, and that answers fit, is not
inductive: it depends on what is still on its way. `AnswerInv` adds `RemoteInv` (a
connected device is in `devices_` once its reports are handled, and only a connected
device waits) and `UndisturbedInv` (every request on its way or with the application
is the one its device waits on and the only one of that device). From these follows
that `SendResponse` finds its own entry and reads its own handle, and that it cannot
fail undisturbed. Assumptions: `GattServerAssumption` (devices are pairs of numbers,
each attribute has a service, the bounds are natural numbers) and
`NoRequestAssumption` (the null request is no request).

`BluetoothBleCentralManagerProofs` proves, for any threads, calls, numbers and changes
of the service:

| Theorem | Property | Inductive invariant and argument |
|---|---|---|
| `Invariance` | - | `Inv`: types; `LockInv`, who holds the mutex and the map's lock at which step; `LifeInv`, calls and functions only while the manager is there for them; `NumberInv`, the service knows numbers only while BLE is on; `CheckInv`, a check that still holds saw a number that is known or invalid |
| `NoFunctionRunsLate` | `NoFunctionAfterDestruction` | from `Inv`: `DeregisterFunc` waits for the lock held while functions run |
| `ChecksHold` | `CheckedNumberIsKnown` | from `Inv`: since the check, the number was only replaced by valid ones |
| `NothingIsLeft` | `NothingLeftAtService` | inductive with `Inv`: numbers are obtained only when there is none, which needs `NumberInv` and the mutex |
| `ModeIsHonoured` | `RegisteredAsAsked` | `ModeInv`: the mode is the one asked for from the constructor's end on, and later registrations use it |
| `ExpiredNumbersAreReset` | `ExpiredNumberIsReset` | inductive with `Inv`: the last "off" on its way is handed on, from queue to notifier to function, until the reset |

Assumptions: `CentralAssumption` (modes are Booleans, bounds natural numbers) and
`ThreadsAssumption` (no thread is called "nobody").

In the five modules that follow, `Invariance` is `Spec => []IInv` for the inductive
invariant `IInv`, a conjunction of named parts. TLC checked each `IInv` on the run's
instance before it was proved.

`BluetoothProfileManagerProofs` proves, for any objects and client threads and any number
of starts, registrations and image loads:

| Theorem | Property | Inductive invariant and argument |
|---|---|---|
| `Invariance` | - | types; `OpInv`, which operation is at which step; `LockInv`, a thread holds each of the three locks exactly at the steps the code guards with it; `TodoInv`, a loop over the function map meets registered functions only; `EventInv`, the reports on their way end with the state the service is in; and the parts below |
| `FlagNeverHidesService` | `RunningServiceIsFound` | `FlagInv`: while the flag is down no host is cached, no lookup is past it, and if a service runs its start is still to be reported; a lookup about to take it down, which holds both locks, saw no service |
| `NoDeadRemoteUnlessOvertaken` | `DeadRemoteOnlyIfOvertaken` | `CacheInv`: what is cached, or held by a lookup that will cache it, is alive, or the death is still to be handled, or a lookup was overtaken |
| `EveryRegistrationServed` | `NoRegistrationMissed` | `CallInv`: while the service runs, each function was called with its remote, or the host had none for it (`Met`), or a named thread will call it, or a thread will go through all, or the start is still to be reported; `ServiceOnInv`: a registration that sees the service off will be found by such a thread |
| `NoServiceIsGivenUp` | `HandledStartIsNotGivenUp` | `LoadInv`: `IInv`, `LoaderAt` (what a thread does at each step of its load) and `WillFind`: after a wait that timed out while the service was up and its start handled, no report is under way as long as that service runs, so that the flag is up and the last lookup finds a remote. `FailInv`: once the start is handled, a stored `LOAD_FAIL` comes from an answer given later |

The last theorem is about the composition `BluetoothHostLoad`: each of its steps keeps
`IInv`, because a loader's lookup is a lookup of the profile manager.
Assumptions: `ProfileManagerAssumption` (the host is an object, the threads are distinct,
bounds are natural numbers) and `MaxLoadsAssumption` (`MaxLoads \in Nat`).

`BluetoothGattClientProofs` proves, for any application threads and request types:

| Theorem | Property | Inductive invariant and argument |
|---|---|---|
| `Invariance` | - | types; `LockInv`, at which steps `connStateMutex_` and the discovery's mutex are held; `RegisteredInv`, nothing happens before the client is registered; `LinkInv`, a connection that is lost is reported lost; and the parts below |
| `OneKnownRequest` | `RequestTracked` | `RequestInv` and `DiscoveryInv`: at most one request, and one discovery, is with the service or reported, never both, and it has the known type |
| `FlagsAreReset` | `NoFlagLeftBehind` | `FlagInv`: a flag that is set has its answer under way, or a disconnection not yet past the step that resets it |
| `CopyIsLatest` | `ServicesLatestUnlessRaced` | `CopyInv`: the same for a copy that is about to be marked complete |

Assumption: `GattClientAssumption` (the null thread is no thread, request types are those
of the code, bounds are natural numbers).

`BluetoothBleAdvertiserProofs` proves, for any threads and callbacks and any number of
handles, calls and deaths:

| Theorem | Property | Inductive invariant and argument |
|---|---|---|
| `Invariance` | - | types; `CallInv`, what a call knows at each step; and the parts below |
| `SetsStayReachable` | `SetsCanBeStopped` | `CleanInv`: for a set that nothing excuses, no report, notice, Close or automatic stop under way is about it or its callback, and its entry is there or about to be made |
| `HandlesAreNotDoubled` | `OneHandlePerCallback` | `StartingInv`: while a call that found no handle is on its way to register one, the callback has none, or two such calls were noted |

Assumption: `AdvertiserAssumption` (the bounds are natural numbers). The handle found in
the map, and the one the service gives, are minima; that a non-empty set of natural
numbers contains its minimum follows from the well-foundedness of `<`.

`OhosBtProofs` proves about advertising, for any table size, number of starts and deaths, and choice
of advertisements with an address of their own:

| Theorem | Property | Inductive invariant and argument |
|---|---|---|
| `Invariance` | - | types; `MadeInv`, only advertisements that were made are named; `AdvIdInv`, slots, timers and tasks name the advId of their advertisement; `OnceInv`, each is started once; and the parts below |
| `SetsCanBeNamed` | `SetsHaveAnAdvId` | `StartInv`: until its start task has run, an advertisement keeps its slot and nothing is reported about it, or it is untracked; `ReportInv`: what is reported about is no set |
| `NoStartWithoutAdvertiser` | `StartFindsAdvertiser` | `EmptyInv`: without an advertiser the table is empty, so with `StartInv` no start of a kept advertisement is queued |
| `AddressIsNotKept` | `AddressedSetsTimed` | `TimedInv`: from the start on, the timer runs or has fired, or a stop is queued behind the start task, or the advertisement is `untimed` |

Assumption: `AdvAssumption` (a table of at least one slot, bounds are natural numbers).

The same module proves about the sockets, for any threads, server and client objects,
numbers of descriptors and ids, and bounds:

| Theorem | Property | Inductive invariant and argument |
|---|---|---|
| `SocketInvariance` | - | `SocketInv`: types; `CallInv`, what a call knows at each step; `LiveInv`, what a thread or a map refers to is alive, and what a thread is making is in no map and known to others only through `Close`; `StoredInv`, a socket is stored under one id; `OverlapInv`, calls made on a socket at one time are noted; and the parts below |
| `NothingOutlivesItsSocket` | `ResourcesReturned` | `LeakInv` and `AcceptInv`: an open descriptor is in the `fd_` of its socket, or the `Accept` that received it is about to put it there, because `acceptFd_` is still its own unless two accepts overlapped. `ObserverInv`: the socket of an observer is open and made, stored or about to be closed, or a thread is about to deregister it, which needs `AgeInv` (an id comes back only `MaxObject` ids later) and `IdInv` (until then a `SocketDisconnect` removes the socket it closed) |
| `OnlyOwnDescriptors` | `OwnDescriptorsOnly` | `NumberInv`: until somebody touches another's file, the `fd_` of a socket that nothing excuses, and the number a call on it has read, refer to its own file, and so does its stream as long as it is stored and not being disconnected |

`SocketInv` was checked by TLC on the run's instance and on one with a single id and
four calls before it was proved. Neither property is inductive without it: which number a
close hits depends on who else knows it, so the invariant follows every reference
to a socket and every copy of a number. Assumption: `SocketAssumption` (servers, clients
and the three markers are distinct, bounds are natural numbers, there is at least one id).
That the kernel's lowest free number exists is the same lemma as in the advertiser's proofs.

`NapiAsyncWorkProofs` proves, for any number of calls:

| Theorem | Property | Inductive invariant and argument |
|---|---|---|
| `Invariance` | - | types; `HandlerInv`; `FreshInv`, calls are numbered as they are made; `TimerInv`, only a work whose request was sent gets a timer; `AnswerInv`, a request is answered once and only if sent, an error is given once and only if not; `MapInv`, the callback thread erases what it found or a later work; and the parts below |
| `CalledOnceWithoutTimeout` | `CalledTwiceOnlyAroundTimeout` | `OnceInv`: what a work that calls a function has received and what is posted for it is one result at most, or it or an earlier one timed out |
| `AnswersAreNotMixed` | `AnswersReachTheirCall` | `PendingInv`: while the answer to `v` is to come, `v` has its entry, is not triggered and has received nothing, unless it or an earlier one timed out; `ReachInv`, its consequence for answers under way |

"Timed out" is not stable as the property states it: the posted timeout of a promise that
is settled meanwhile disappears. The proof uses `TimesOut`, a timeout that was received or
certainly will be, and shows that no step takes one back. Assumption: `NapiAssumption`
(the bound is a natural number).

Only model-checked: the liveness properties, which rest on fairness and are out of
the prover's reach, as is `ENABLED`. Every invariant that a run checks is a theorem,
and so is the refinement of the ledger.

## 5. Not modelled, and plan

Most lines of the repository have no behaviour of their own that a model could check.
Proxies and stubs write arguments into parcels and read replies; the meaning of both
lies with the service, which is not in the repository. Profiles (A2DP, AVRCP, HFP,
HID, PAN, OPP, MAP, PBAP, BAS) and the remote device check arguments and forward to a
proxy; what they register with the profile manager is covered there. Bindings convert
arguments and results. Data classes, the dialog application and the tools keep no
state that several steps share. The map therefore covers a small part of the lines,
and the part that holds nearly all of the framework's own concurrent state.

Left out inside modelled components: MTU, PHY, priority and RSSI calls of the GATT
client, notifications of the server, socket options, contents of advertisements,
discovery and pairing of the host, a missing samgr, scan parameters and low power
device calls of the central manager, the table of scanners of the C adapter (the object
map that the socket module models), a null remote or a failed call of the central
manager while the service is up, a registration of the GATT server that the service
refuses, `EnableBluetoothNoAutoConnect` after `Close`, what an overlapping call does
inside the merged steps of a socket's `Close`, and timers of the JavaScript calls that
cannot be registered.

Next, in this order:

1. The host's observers, which are called with `switchModuleMutex_` held: an observer
   that switches Bluetooth waits for its own thread. Whether one does is the
   application's choice, so no property of the framework alone can hold.
2. Two waiters of one load, if a smaller model of the profile manager under it allows.
