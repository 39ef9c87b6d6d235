------------------------ MODULE BluetoothSwitchModule ------------------------
(***************************************************************************)
(* The switch module of the Bluetooth client framework                     *)
(* (frameworks/inner/src/bluetooth_switch_module.cpp).  Applications ask   *)
(* for the radio to be enabled, disabled or restricted; the service later  *)
(* reports ON, OFF or HALF.  At most one request is under way: the others  *)
(* are cached and one of them is replayed, by a task of a serial ffrt      *)
(* queue, when the report arrives.  A delayed task of the same queue gives *)
(* the request up after ten seconds.                                       *)
(*                                                                         *)
(* bluetoothSwitchEventMutex_ makes each event atomic, with one exception: *)
(* the switch action (an IPC call to the service, possibly a wait for its  *)
(* start) runs while the mutex is held, and during it other threads can    *)
(* set noAutoConnect_ and the queue can start the timeout task, which then *)
(* waits for the mutex and is out of reach of cancel.                      *)
(***************************************************************************)
EXTENDS Integers, Sequences, FiniteSetsExt

CONSTANTS MaxRequests       \* bound on the requests the applications make

ASSUME MaxRequestsAssumption == MaxRequests \in Nat

ENABLE_BLUETOOTH == "ENABLE_BLUETOOTH"
DISABLE_BLUETOOTH == "DISABLE_BLUETOOTH"
ENABLE_BLUETOOTH_TO_RESTRICE_MODE == "ENABLE_BLUETOOTH_TO_RESTRICE_MODE"

SwitchRequest ==
  {ENABLE_BLUETOOTH, DISABLE_BLUETOOTH, ENABLE_BLUETOOTH_TO_RESTRICE_MODE}

SwitchState == {"BLUETOOTH_ON", "BLUETOOTH_OFF", "BLUETOOTH_HALF"}

(***************************************************************************)
(* What a switch action returns.  The dialog and the transferred results   *)
(* are failures to the module and successes to its caller.                 *)
(***************************************************************************)
BT_NO_ERROR == "BT_NO_ERROR"
CallSucceeded ==
  {BT_NO_ERROR, "BT_ERR_DIALOG_FOR_USER_CONFIRM", "BT_ERR_SWITCH_OP_TRANSFERRED"}
ActionResult == CallSucceeded \cup {"BT_ERR_INTERNAL_ERROR"}

(***************************************************************************)
(* A cached event: the request and the call it came from.  Calls are       *)
(* numbered in the order in which they reach the module; the number stands *)
(* for callingName.  The timeout task of a call has the call's number.     *)
(***************************************************************************)
CallId == 1 .. MaxRequests
BluetoothSwitchCacheEvent == [event : SwitchRequest, id : CallId]

NoTask == [kind |-> "none"]
TimeoutTask(id) == [kind |-> "timeout", id |-> id]
CachedTask(req) == [kind |-> "cached", req |-> req]
Task == {NoTask} \cup {TimeoutTask(id) : id \in CallId}
                 \cup {CachedTask(req) : req \in BluetoothSwitchCacheEvent}

NoAction == [step |-> "none"]
SwitchAction == {NoAction} \cup
  [step : {"reset", "call"}, req : BluetoothSwitchCacheEvent,
   noAutoConnect : BOOLEAN, onQueue : BOOLEAN]

VARIABLES
  isBtSwitchProcessing,  \* a request has been issued and not yet ended
  cachedEventVec,        \* the requests that wait for it, oldest first
  noAutoConnect,         \* the next enable must not reconnect the devices
  taskTimeoutHandle,     \* the timeout task submitted last (0: none yet)
  timers,                \* timeout tasks in the ffrt queue, due or not
  ffrtQueue,             \* replay tasks in the ffrt queue
  worker,                \* the task the ffrt queue has started
  action,                \* the switch action that holds the mutex
  alive,                 \* the host still owns the module
  arrived,               \* history: calls made so far
  issued,                \* history: calls whose action was started
  lastRet,               \* history: result of the last action
  disturbed              \* history: order can no longer be relied upon

moduleVars == <<isBtSwitchProcessing, cachedEventVec, noAutoConnect>>
queueVars == <<taskTimeoutHandle, timers, ffrtQueue, worker>>
historyVars == <<arrived, issued, lastRet, disturbed>>
vars == <<moduleVars, queueVars, action, alive, historyVars>>

Init ==
  /\ isBtSwitchProcessing = FALSE
  /\ cachedEventVec = <<>>
  /\ noAutoConnect = FALSE
  /\ taskTimeoutHandle = 0
  /\ timers = {}
  /\ ffrtQueue = <<>>
  /\ worker = NoTask
  /\ action = NoAction
  /\ alive = TRUE
  /\ arrived = 0
  /\ issued = {}
  /\ lastRet = BT_NO_ERROR
  /\ disturbed = FALSE

(***************************************************************************)
(* A cached request has left the cache and has not been handled again.     *)
(***************************************************************************)
ReplayStarted == worker.kind = "cached" /\ (action # NoAction => ~action.onQueue)

ReplayInFlight == ffrtQueue # <<>> \/ ReplayStarted

(***************************************************************************)
(* Requests                                                                *)
(***************************************************************************)

(***************************************************************************)
(* SetNoAutoConnect takes no lock: it can run at any time.                 *)
(***************************************************************************)
SetNoAutoConnect ==
  /\ alive
  /\ noAutoConnect' = TRUE
  /\ UNCHANGED <<isBtSwitchProcessing, cachedEventVec, queueVars, action, alive,
                 historyVars>>

\* mutant: the newest request is cached in front
CacheInFront(req) ==
  /\ isBtSwitchProcessing
  /\ cachedEventVec' = <<req>> \o cachedEventVec
  /\ UNCHANGED <<isBtSwitchProcessing, taskTimeoutHandle, timers, action, issued>>

CacheRequest(req) ==
  /\ isBtSwitchProcessing
  /\ cachedEventVec' = Append(cachedEventVec, req)
  /\ UNCHANGED <<isBtSwitchProcessing, taskTimeoutHandle, timers, action, issued>>

\* mutant: isBtSwitchProcessing_ is not looked at
StartWhileProcessing(req, onQueue) ==
  LET load == req.event = ENABLE_BLUETOOTH /\ noAutoConnect IN
  /\ timers' = timers \cup {req.id}
  /\ taskTimeoutHandle' = req.id
  /\ isBtSwitchProcessing' = TRUE
  /\ action' = [step |-> IF load THEN "reset" ELSE "call", req |-> req,
                noAutoConnect |-> load, onQueue |-> onQueue]
  /\ issued' = issued \cup {req.id}
  /\ UNCHANGED cachedEventVec

(***************************************************************************)
(* The timeout task is submitted before the action is called.  The action  *)
(* of an enable first loads noAutoConnect_ and, in a second step, resets   *)
(* it.                                                                     *)
(***************************************************************************)
StartAction(req, onQueue) ==
  LET load == req.event = ENABLE_BLUETOOTH /\ noAutoConnect IN
  /\ ~isBtSwitchProcessing
  /\ timers' = timers \cup {req.id}
  /\ taskTimeoutHandle' = req.id
  /\ isBtSwitchProcessing' = TRUE
  /\ action' = [step |-> IF load THEN "reset" ELSE "call", req |-> req,
                noAutoConnect |-> load, onQueue |-> onQueue]
  /\ issued' = issued \cup {req.id}
  /\ UNCHANGED cachedEventVec

ProcessBluetoothSwitchAction(req, onQueue) ==
  CacheRequest(req) \/ StartAction(req, onQueue)

(***************************************************************************)
(* A call of an application (through BluetoothHost) with a request.        *)
(***************************************************************************)
ProcessRequest(event) ==
  /\ alive
  /\ action = NoAction
  /\ arrived < MaxRequests
  /\ arrived' = arrived + 1
  /\ ProcessBluetoothSwitchAction([event |-> event, id |-> arrived + 1], FALSE)
  /\ disturbed' = (disturbed \/ ReplayInFlight)
  /\ UNCHANGED <<noAutoConnect, ffrtQueue, worker, alive, lastRet>>

\* mutant: noAutoConnect_ is not reset
NoAutoConnectStays ==
  /\ action.step = "reset"
  /\ action' = [action EXCEPT !.step = "call"]
  /\ UNCHANGED <<moduleVars, queueVars, alive, historyVars>>

ResetNoAutoConnect ==
  /\ action.step = "reset"
  /\ noAutoConnect' = FALSE
  /\ action' = [action EXCEPT !.step = "call"]
  /\ UNCHANGED <<isBtSwitchProcessing, cachedEventVec, queueVars, alive, historyVars>>

(***************************************************************************)
(* ffrt cancels a task that it has not started yet.                        *)
(***************************************************************************)
CancelTimeout == timers' = timers \ {taskTimeoutHandle}

\* mutant: the timeout task is cancelled whatever the result
ReturnCancelsAlways(ret) ==
  /\ action.step = "call"
  /\ isBtSwitchProcessing' = (ret = BT_NO_ERROR)
  /\ CancelTimeout
  /\ action' = NoAction
  /\ worker' = IF action.onQueue THEN NoTask ELSE worker
  /\ lastRet' = ret
  /\ disturbed' = (disturbed \/ (ret # BT_NO_ERROR /\ cachedEventVec # <<>>))
  /\ UNCHANGED <<cachedEventVec, noAutoConnect, taskTimeoutHandle, ffrtQueue, alive,
                 arrived, issued>>

ActionReturn(ret) ==
  /\ action.step = "call"
  /\ IF ret = BT_NO_ERROR
       THEN UNCHANGED <<isBtSwitchProcessing, timers>>
       ELSE isBtSwitchProcessing' = FALSE /\ CancelTimeout
  /\ action' = NoAction
  /\ worker' = IF action.onQueue THEN NoTask ELSE worker
  /\ lastRet' = ret
  /\ disturbed' = (disturbed \/ (ret # BT_NO_ERROR /\ cachedEventVec # <<>>))
  /\ UNCHANGED <<cachedEventVec, noAutoConnect, taskTimeoutHandle, ffrtQueue, alive,
                 arrived, issued>>

(***************************************************************************)
(* State reports of the service                                            *)
(***************************************************************************)

\* the request that a state report completes
CurSwitchActionEvent(state) ==
  CASE state = "BLUETOOTH_ON" -> ENABLE_BLUETOOTH
    [] state = "BLUETOOTH_OFF" -> DISABLE_BLUETOOTH
    [] state = "BLUETOOTH_HALF" -> ENABLE_BLUETOOTH_TO_RESTRICE_MODE

\* mutant: the restricted mode is not expected to follow OFF
ExpectedWithoutRestrict(state) ==
  CASE state = "BLUETOOTH_ON" -> {DISABLE_BLUETOOTH}
    [] state = "BLUETOOTH_OFF" -> {ENABLE_BLUETOOTH}
    [] state = "BLUETOOTH_HALF" -> {ENABLE_BLUETOOTH, DISABLE_BLUETOOTH}

\* the requests that may follow it
ExpectedEvents(state) ==
  CASE state = "BLUETOOTH_ON" -> {DISABLE_BLUETOOTH}
    [] state = "BLUETOOTH_OFF" -> {ENABLE_BLUETOOTH, ENABLE_BLUETOOTH_TO_RESTRICE_MODE}
    [] state = "BLUETOOTH_HALF" -> {ENABLE_BLUETOOTH, DISABLE_BLUETOOTH}

Positions(vec, events) == {i \in 1 .. Len(vec) : vec[i].event \in events}

\* what is left of the cache behind position pos
Behind(vec, pos) == SubSeq(vec, pos + 1, Len(vec))

\* mutant: one event too many is erased
DeduplicateOneTooMany(vec, event) ==
  LET same == Positions(vec, {event})
  IN  IF same = {} THEN vec ELSE Behind(vec, Max(same) + 1)

DeduplicateCacheEvent(vec, event) ==
  LET same == Positions(vec, {event})
  IN  IF same = {} THEN vec ELSE Behind(vec, Max(same))

\* The replay passes the event and the caller's name on; isAsync and
\* isBleOwnerMode of the call that cached it are dropped.  No step of the
\* module depends on them, and they are left out of the model.
ReplayFirst(vec, expected) ==
  LET it == Min(Positions(vec, expected))
  IN  /\ cachedEventVec' = Behind(vec, it)
      /\ ffrtQueue' = Append(ffrtQueue, vec[it])

ProcessBluetoothSwitchActionEnd(curEvent, expected) ==
  LET vec == DeduplicateCacheEvent(cachedEventVec, curEvent) IN
  /\ isBtSwitchProcessing' = FALSE
  /\ CancelTimeout
  /\ IF Positions(vec, expected) # {}
       THEN ReplayFirst(vec, expected)
       ELSE cachedEventVec' = <<>> /\ UNCHANGED ffrtQueue

ProcessStateReport(state) ==
  /\ alive
  /\ action = NoAction
  /\ ProcessBluetoothSwitchActionEnd(CurSwitchActionEvent(state), ExpectedEvents(state))
  /\ disturbed' = (disturbed \/ ReplayInFlight)
  /\ UNCHANGED <<noAutoConnect, taskTimeoutHandle, worker, action, alive, arrived,
                 issued, lastRet>>

(***************************************************************************)
(* Tasks of the ffrt queue: one is started at a time, a timeout task once  *)
(* its delay has passed.                                                   *)
(***************************************************************************)
StartTimeoutTask(id) ==
  /\ worker = NoTask
  /\ id \in timers
  /\ worker' = TimeoutTask(id)
  /\ timers' = timers \ {id}
  /\ UNCHANGED <<moduleVars, taskTimeoutHandle, ffrtQueue, action, alive, historyVars>>

StartCachedTask ==
  /\ worker = NoTask
  /\ ffrtQueue # <<>>
  /\ worker' = CachedTask(Head(ffrtQueue))
  /\ ffrtQueue' = Tail(ffrtQueue)
  /\ UNCHANGED <<moduleVars, taskTimeoutHandle, timers, action, alive, historyVars>>

\* mutant: the cache is not cleared
TimeoutKeepsCache ==
  /\ alive
  /\ worker.kind = "timeout"
  /\ action = NoAction
  /\ isBtSwitchProcessing' = FALSE
  /\ worker' = NoTask
  /\ UNCHANGED <<cachedEventVec, noAutoConnect, taskTimeoutHandle, timers, ffrtQueue,
                 action, alive, historyVars>>

\* mutant: the flag is not reset
TimeoutKeepsProcessing ==
  /\ alive
  /\ worker.kind = "timeout"
  /\ action = NoAction
  /\ cachedEventVec' = <<>>
  /\ worker' = NoTask
  /\ UNCHANGED <<isBtSwitchProcessing, noAutoConnect, taskTimeoutHandle, timers, ffrtQueue,
                 action, alive, historyVars>>

OnTaskTimeout ==
  /\ alive
  /\ worker.kind = "timeout"
  /\ action = NoAction
  /\ isBtSwitchProcessing' = FALSE
  /\ cachedEventVec' = <<>>
  /\ worker' = NoTask
  /\ UNCHANGED <<noAutoConnect, taskTimeoutHandle, timers, ffrtQueue, action, alive,
                 historyVars>>

(***************************************************************************)
(* The replay handles the cached request again: it is issued, or cached    *)
(* once more if another request was issued in the meantime.                *)
(***************************************************************************)
RunCachedTask ==
  /\ alive
  /\ worker.kind = "cached"
  /\ action = NoAction
  /\ ProcessBluetoothSwitchAction(worker.req, TRUE)
  /\ worker' = IF isBtSwitchProcessing THEN NoTask ELSE worker
  /\ UNCHANGED <<noAutoConnect, ffrtQueue, alive, arrived, lastRet, disturbed>>

(***************************************************************************)
(* BluetoothHost::Close drops the module.  A task that has already locked  *)
(* its weak pointer finishes, the others find it empty.                    *)
(***************************************************************************)
Destroy ==
  /\ alive
  /\ action # NoAction => action.onQueue
  /\ alive' = FALSE
  /\ UNCHANGED <<moduleVars, queueVars, action, historyVars>>

SkipTask ==
  /\ ~alive
  /\ worker # NoTask
  /\ action = NoAction
  /\ worker' = NoTask
  /\ UNCHANGED <<moduleVars, taskTimeoutHandle, timers, ffrtQueue, action, alive,
                 historyVars>>

QueueStep ==
  \/ \E id \in timers : StartTimeoutTask(id)
  \/ StartCachedTask
  \/ OnTaskTimeout
  \/ RunCachedTask
  \/ SkipTask

ActionStep ==
  \/ ResetNoAutoConnect
  \/ \E ret \in ActionResult : ActionReturn(ret)

Next ==
  \/ \E event \in SwitchRequest : ProcessRequest(event)
  \/ SetNoAutoConnect
  \/ ActionStep
  \/ \E state \in SwitchState : ProcessStateReport(state)
  \/ QueueStep
  \/ Destroy

(***************************************************************************)
(* The service answers every call and ffrt runs every task whose time has  *)
(* come.  Applications and the service's reports owe nothing.              *)
(***************************************************************************)
Fairness == WF_vars(ActionStep) /\ WF_vars(QueueStep)

Spec == Init /\ [][Next]_vars /\ Fairness
-----------------------------------------------------------------------------
(***************************************************************************)
(* Properties                                                              *)
(***************************************************************************)

TypeOK ==
  /\ isBtSwitchProcessing \in BOOLEAN
  /\ cachedEventVec \in Seq(BluetoothSwitchCacheEvent)
  /\ noAutoConnect \in BOOLEAN
  /\ taskTimeoutHandle \in CallId \cup {0}
  /\ timers \subseteq CallId
  /\ ffrtQueue \in Seq(BluetoothSwitchCacheEvent)
  /\ worker \in Task
  /\ action \in SwitchAction
  /\ alive \in BOOLEAN
  /\ arrived \in 0 .. MaxRequests
  /\ issued \subseteq CallId
  /\ lastRet \in ActionResult
  /\ disturbed \in BOOLEAN

IdsOf(vec) == {vec[i].id : i \in 1 .. Len(vec)}

\* the calls whose replay has left the cache and has not been handled again
StartedReplay == IF ReplayStarted THEN {worker.req.id} ELSE {}
Replaying == IdsOf(ffrtQueue) \cup StartedReplay

\* the calls that were accepted and may still be issued
Pending == IdsOf(cachedEventVec) \cup Replaying

(***************************************************************************)
(* The module cannot stay busy for ever: as long as a request is under     *)
(* way, the timeout task that taskTimeoutHandle_ names is still in the     *)
(* queue or has been started and waits for the mutex.  Cancelled, fired    *)
(* and overtaken timeout tasks of earlier requests do not matter.          *)
(***************************************************************************)
TimeoutCoversAction ==
  alive /\ isBtSwitchProcessing =>
    taskTimeoutHandle \in timers \/ worker = TimeoutTask(taskTimeoutHandle)

(***************************************************************************)
(* A call is handled at most once: whatever waits in the cache, in the     *)
(* ffrt queue or in a started task is there once and was not issued.       *)
(* Replays that are cached a second time are the hard case.                *)
(***************************************************************************)
DistinctIds(vec) ==
  \A i, j \in 1 .. Len(vec) : vec[i].id = vec[j].id => i = j

HandledAtMostOnce ==
  /\ DistinctIds(cachedEventVec)
  /\ DistinctIds(ffrtQueue)
  /\ IdsOf(cachedEventVec) \cap Replaying = {}
  /\ IdsOf(ffrtQueue) \cap StartedReplay = {}
  /\ Pending \cap issued = {}

(***************************************************************************)
(* Cached requests are abandoned in the cache, with nothing under way that *)
(* will look at them again, only when the last action returned an error:   *)
(* ProcessBluetoothSwitchAction clears the flag then and leaves the cache. *)
(***************************************************************************)
StrandedOnlyByFailedAction ==
  cachedEventVec # <<>> /\ ~isBtSwitchProcessing /\ ~ReplayInFlight /\ alive
    => lastRet # BT_NO_ERROR

(***************************************************************************)
(* Requests take effect in the order of the calls as long as nothing       *)
(* enters the module between the end of an action and its replay, and no   *)
(* action fails with requests behind it: those are the two ways in which   *)
(* an older request can be issued after a newer one.                       *)
(***************************************************************************)
InOrderUnlessDisturbed ==
  ~disturbed =>
    /\ \A i, j \in 1 .. Len(cachedEventVec) :
         i < j => cachedEventVec[i].id < cachedEventVec[j].id
    /\ \A new \in IdsOf(cachedEventVec), old \in issued \cup Replaying : old < new
    /\ \A new \in Replaying, old \in issued : old < new

(***************************************************************************)
(* The last word of the users survives a state report: if the youngest     *)
(* cached request is one the reached state allows, it is replayed at once  *)
(* or kept in the cache, whatever the requests before it were.             *)
(***************************************************************************)
LastSurvives(state) ==
  LET last == cachedEventVec[Len(cachedEventVec)] IN
  last.event \in ExpectedEvents(state) =>
    \/ \E i \in 1 .. Len(cachedEventVec') : cachedEventVec'[i] = last
    \/ \E i \in 1 .. Len(ffrtQueue') : ffrtQueue'[i] = last

LastRequestSurvivesReport ==
  [][\A state \in SwitchState :
       ProcessStateReport(state) /\ cachedEventVec # <<>> => LastSurvives(state)]_vars

(***************************************************************************)
(* Every accepted request is issued or discarded in the end, unless an     *)
(* action fails and strands it in the cache.                               *)
(***************************************************************************)
RequestsSettle ==
  \A id \in CallId :
    id \in Pending ~> id \notin Pending \/ lastRet # BT_NO_ERROR \/ ~alive

(***************************************************************************)
(* A request is given up by its own timeout task, ten seconds after it was *)
(* issued, and never by the task of an earlier request.                    *)
(***************************************************************************)
GivenUpByOwnTimeout ==
  [][OnTaskTimeout /\ isBtSwitchProcessing => worker.id = taskTimeoutHandle]_vars
(***************************************************************************)
(* The module implements the ledger: cache, started and queued replays are *)
(* its waiting calls.  SkipTask, after the module was destroyed, drops the *)
(* task's call.                                                            *)
(***************************************************************************)
NotMade == {id \in CallId : id > arrived}
UnderWay == IF alive /\ isBtSwitchProcessing THEN taskTimeoutHandle ELSE 0

Ledger == INSTANCE BluetoothSwitchLedger WITH
  Calls <- CallId,
  Nobody <- 0,
  fresh <- NotMade,
  waiting <- Pending,
  done <- issued,
  current <- UnderWay

ImplementsLedger == Ledger!LedgerSpec
=============================================================================
