------------------------- MODULE BluetoothHostSwitch -------------------------
(***************************************************************************)
(* The switch module behind its host and in front of the service: the      *)
(* calls of BluetoothHost that enter it, with switchModuleMutex_, the      *)
(* callbacks by which the service reports its state, and the death of the  *)
(* service (frameworks/inner/src/bluetooth_host.cpp).  The service is not  *)
(* part of the repository: it performs the operations it accepted in order *)
(* and reports the state that it reaches.                                  *)
(***************************************************************************)
EXTENDS BluetoothSwitchModule

CONSTANTS MaxNoAutoCalls    \* bound on the calls of EnableBluetoothNoAutoConnect

ASSUME MaxNoAutoCallsAssumption == MaxNoAutoCalls \in Nat

VARIABLES
  restrictCall,   \* where RestrictBluetooth is; it holds switchModuleMutex_
  noAutoCallers,  \* EnableBluetoothNoAutoConnect calls that have set the flag only
  radio,          \* service: the state the radio is in
  operations,     \* service: accepted operations, oldest first
  reports,        \* state reports on their way to the host
  removed,        \* the service died, OnRemoveSystemAbility is still to run
  noAutoSets,     \* history: how often the flag was set
  granted,        \* history: enables issued with noAutoConnect
  wanted,         \* history: the state the last API call asked for
  unreliable      \* history: an operation failed, was given up or lost

serviceVars == <<radio, operations, reports, removed>>
callVars == <<restrictCall, noAutoCallers, noAutoSets, wanted>>
hostVars == <<callVars, serviceVars, granted, unreliable>>
hvars == <<vars, hostVars>>

HostInit ==
  /\ Init
  /\ restrictCall = "none"
  /\ noAutoCallers = 0
  /\ radio = "BLUETOOTH_OFF"
  /\ operations = <<>>
  /\ reports = <<>>
  /\ removed = FALSE
  /\ noAutoSets = 0
  /\ granted = {}
  /\ wanted = "BLUETOOTH_OFF"
  /\ unreliable = FALSE

\* switchModuleMutex_ is free
HostUnlocked == restrictCall = "none"

TargetOf(event) ==
  CASE event = ENABLE_BLUETOOTH -> "BLUETOOTH_ON"
    [] event = DISABLE_BLUETOOTH -> "BLUETOOTH_OFF"
    [] event = ENABLE_BLUETOOTH_TO_RESTRICE_MODE -> "BLUETOOTH_HALF"

(***************************************************************************)
(* Calls of the applications                                               *)
(***************************************************************************)

(***************************************************************************)
(* A call with one event.  What the restricted mode means to a radio that  *)
(* is on is left to the service.                                           *)
(***************************************************************************)
SwitchCall(event) ==
  /\ HostUnlocked
  /\ ProcessRequest(event)
  /\ wanted' = IF event = ENABLE_BLUETOOTH_TO_RESTRICE_MODE THEN "unspecified"
                                                         ELSE TargetOf(event)
  /\ UNCHANGED <<restrictCall, noAutoCallers, noAutoSets, serviceVars,
                 granted, unreliable>>

EnableBle == SwitchCall(ENABLE_BLUETOOTH)
DisableBt == SwitchCall(DISABLE_BLUETOOTH)
EnableBluetoothToRestrictMode == SwitchCall(ENABLE_BLUETOOTH_TO_RESTRICE_MODE)

\* the service transfers a switch action of another module to this process
OnBluetoothSwitchAction(event) == SwitchCall(event)

(***************************************************************************)
(* EnableBluetoothNoAutoConnect sets the flag without any lock and then    *)
(* calls EnableBle like everybody else.  It does not look whether there is *)
(* a switch module: a call made after Close has dropped it, which would    *)
(* dereference a null pointer, is left out by the guard alive of           *)
(* SetNoAutoConnect.                                                       *)
(***************************************************************************)
NoAutoConnectSet ==
  /\ arrived + noAutoCallers < MaxRequests
  /\ noAutoSets < MaxNoAutoCalls
  /\ SetNoAutoConnect
  /\ noAutoCallers' = noAutoCallers + 1
  /\ noAutoSets' = noAutoSets + 1
  /\ UNCHANGED <<restrictCall, wanted, serviceVars, granted, unreliable>>

NoAutoConnectEnable ==
  /\ noAutoCallers > 0
  /\ HostUnlocked
  /\ ProcessRequest(ENABLE_BLUETOOTH)
  /\ noAutoCallers' = noAutoCallers - 1
  /\ wanted' = "BLUETOOTH_ON"
  /\ UNCHANGED <<restrictCall, noAutoSets, serviceVars, granted, unreliable>>

(***************************************************************************)
(* RestrictBluetooth disables and, if that was accepted, restricts, under  *)
(* one hold of switchModuleMutex_.  The ffrt queue can run in between.     *)
(***************************************************************************)
RestrictBluetooth ==
  /\ HostUnlocked
  /\ arrived + 1 < MaxRequests
  /\ ProcessRequest(DISABLE_BLUETOOTH)
  /\ restrictCall' = IF isBtSwitchProcessing THEN "restrict" ELSE "disable"
  /\ wanted' = "BLUETOOTH_HALF"
  /\ UNCHANGED <<noAutoCallers, noAutoSets, serviceVars, granted, unreliable>>

RestrictSecondEvent ==
  /\ restrictCall = "restrict"
  /\ ProcessRequest(ENABLE_BLUETOOTH_TO_RESTRICE_MODE)
  /\ restrictCall' = "none"
  /\ UNCHANGED <<noAutoCallers, noAutoSets, wanted, serviceVars, granted,
                 unreliable>>

HostClose ==
  /\ HostUnlocked
  /\ Destroy
  /\ UNCHANGED hostVars

(***************************************************************************)
(* The switch action: the module's step and what the service makes of it.  *)
(* RestrictBluetooth goes on if its first call succeeded.                  *)
(***************************************************************************)
HostResetNoAutoConnect ==
  /\ ResetNoAutoConnect
  /\ granted' = granted \cup {action.req.id}
  /\ UNCHANGED <<callVars, serviceVars, unreliable>>

HostActionReturn(ret) ==
  /\ ActionReturn(ret)
  /\ operations' = IF ret = BT_NO_ERROR THEN Append(operations, action.req.event)
                                        ELSE operations
  /\ restrictCall' =
       CASE action.onQueue \/ restrictCall # "disable" -> restrictCall
         [] OTHER -> IF ret \in CallSucceeded THEN "restrict" ELSE "none"
  /\ unreliable' = (unreliable \/ ret # BT_NO_ERROR)
  /\ UNCHANGED <<noAutoCallers, noAutoSets, wanted, radio, reports, removed,
                 granted>>

(***************************************************************************)
(* The service performs its oldest operation and reports the new state.    *)
(* If there was nothing to do it may keep silent.                          *)
(***************************************************************************)
ServicePerforms ==
  /\ operations # <<>>
  /\ operations' = Tail(operations)
  /\ radio' = TargetOf(Head(operations))
  /\ \/ reports' = Append(reports, radio')
     \/ radio' = radio /\ UNCHANGED reports
  /\ UNCHANGED <<vars, callVars, removed, granted, unreliable>>

ServiceDies ==
  /\ ~removed
  /\ alive
  /\ radio # "BLUETOOTH_OFF" \/ operations # <<>>
  /\ radio' = "BLUETOOTH_OFF"
  /\ operations' = <<>>
  /\ reports' = <<>>
  /\ removed' = TRUE
  /\ unreliable' = TRUE
  /\ UNCHANGED <<vars, callVars, granted>>

OnBluetoothStateChanged ==
  /\ reports # <<>>
  /\ HostUnlocked
  /\ ProcessStateReport(Head(reports))
  /\ reports' = Tail(reports)
  /\ UNCHANGED <<callVars, radio, operations, removed, granted, unreliable>>

OnRemoveBluetoothSystemAbility ==
  /\ removed
  /\ HostUnlocked
  /\ ProcessStateReport("BLUETOOTH_OFF")
  /\ removed' = FALSE
  /\ UNCHANGED <<callVars, radio, operations, reports, granted, unreliable>>

(***************************************************************************)
(* Tasks of the module's queue.                                            *)
(***************************************************************************)
HostOnTaskTimeout ==
  /\ OnTaskTimeout
  /\ unreliable' = TRUE
  /\ UNCHANGED <<callVars, serviceVars, granted>>

HostQueueStep ==
  /\ \/ \E id \in timers : StartTimeoutTask(id)
     \/ StartCachedTask
     \/ RunCachedTask
     \/ SkipTask
  /\ UNCHANGED hostVars

HostActionStep ==
  \/ HostResetNoAutoConnect
  \/ \E ret \in ActionResult : HostActionReturn(ret)

HostNext ==
  \/ EnableBle
  \/ DisableBt
  \/ EnableBluetoothToRestrictMode
  \/ \E event \in SwitchRequest : OnBluetoothSwitchAction(event)
  \/ NoAutoConnectSet
  \/ NoAutoConnectEnable
  \/ RestrictBluetooth
  \/ RestrictSecondEvent
  \/ HostClose
  \/ HostActionStep
  \/ ServicePerforms
  \/ ServiceDies
  \/ OnBluetoothStateChanged
  \/ OnRemoveBluetoothSystemAbility
  \/ HostOnTaskTimeout
  \/ HostQueueStep

(***************************************************************************)
(* A thread inside a call goes on, the service answers and performs what   *)
(* it accepted, and callbacks and tasks that are due are run.              *)
(***************************************************************************)
HostFairness ==
  /\ WF_hvars(HostActionStep)
  /\ WF_hvars(RestrictSecondEvent)
  /\ WF_hvars(ServicePerforms)
  /\ WF_hvars(OnBluetoothStateChanged)
  /\ WF_hvars(OnRemoveBluetoothSystemAbility)
  /\ WF_hvars(HostOnTaskTimeout \/ HostQueueStep)

HostSpec == HostInit /\ [][HostNext]_hvars /\ HostFairness

-----------------------------------------------------------------------------
\* nothing is under way between the applications and the radio
Quiet ==
  /\ alive /\ action = NoAction /\ restrictCall = "none"
  /\ ~isBtSwitchProcessing /\ Pending = {}
  /\ operations = <<>> /\ reports = <<>> /\ ~removed

(***************************************************************************)
(* Once everything is quiet the radio is in the state that the last call   *)
(* asked for, however the calls interleaved with the reports: the requests *)
(* that were dropped from the cache were superseded.  It takes that every  *)
(* operation was performed in time and that no call or report came between *)
(* the end of an operation and the replay of a cached request.  A last     *)
(* call of EnableBluetoothToRestrictMode promises nothing: it is dropped   *)
(* from the cache when the radio turns out to be on.                       *)
(***************************************************************************)
QuietMeansWanted ==
  Quiet /\ ~unreliable /\ ~disturbed => wanted \in {radio, "unspecified"}

(***************************************************************************)
(* noAutoConnect_ is consumed by one enable only: there are never more     *)
(* enables without reconnection than calls that asked for one.             *)
(***************************************************************************)
NoAutoConnectConsumedOnce ==
  Cardinality(granted) + (IF noAutoConnect THEN 1 ELSE 0) <= noAutoSets

(***************************************************************************)
(* Calls and callbacks come to rest: nobody waits for ever for a mutex, a  *)
(* report or a replay, even if the service dies or drops operations.       *)
(***************************************************************************)
HostSettles == <>[](alive => action = NoAction /\ restrictCall = "none"
                              /\ ~isBtSwitchProcessing /\ ~ReplayInFlight)
=============================================================================
