------------------------- MODULE BluetoothGattClient -------------------------
(***************************************************************************)
(* One GattClient of the client framework                                  *)
(* (frameworks/inner/src/bluetooth_gatt_client.cpp): a connection to a     *)
(* remote device, one request in flight, a discovery, and a copy of the    *)
(* remote device's services.  Application threads call it; the service     *)
(* process reports to one callback thread, in order.  The link comes and   *)
(* goes, the service process dies and starts again.                        *)
(*                                                                         *)
(* The calls that hold connStateMutex_ and requestInformation_.mutex_ from *)
(* their checks to their last assignment are one step.  Discovery and      *)
(* retrieval of the services wait or call the service with locks held and  *)
(* take several.  The copy of the services is represented by whether it is *)
(* what the remote device has now.                                         *)
(***************************************************************************)
EXTENDS Integers, Sequences, FiniteSets

CONSTANTS
  Clients,       \* threads of the application
  Getters,       \* those of them that retrieve services
  NoThread,      \* owner of a mutex that is free
  RequestType,   \* the types of requests that are sent
  MaxEvents      \* bound on the reports on their way to the callback thread

ASSUME GattClientAssumption ==
  /\ NoThread \notin Clients
  /\ Getters \subseteq Clients
  /\ RequestType \subseteq {"charRead", "charWrite", "descRead", "descWrite", "setNotify"}
  /\ MaxEvents \in Nat

\* the report with which the service answers a request
ReportOf(type) == IF type = "setNotify" THEN "descWrite" ELSE type
Reports == {ReportOf(type) : type \in RequestType}

VARIABLES
  serviceUp,             \* the service process runs
  wanted,                \* it knows the application and is to connect
  link,                  \* it has a connection to the remote device
  atService,             \* requests that it has accepted and not answered
  discovering,           \* it discovers services
  events,                \* reports on their way to the callback thread
  isGetServiceYet, isRegisterSucceeded, connectionState,
  gattServices,          \* the copy: "none", "old" or "latest"
  doing, type,           \* requestInformation_
  isDiscovering,         \* discoverInformation_
  connStateMutex, discoverMutex,
  thread,                \* where each application thread is
  callback,              \* where the callback thread is
  notifier,              \* the detached thread that reports SetNotifyCharacteristic
  gone,                  \* history: the service died or Close was called
  overtaken,             \* history: a late disconnection met newer requests
  raced                  \* history: a change was handled during a retrieval

serviceVars == <<serviceUp, wanted, link, atService, discovering>>
requestVars == <<doing, type>>
servicesVars == <<isGetServiceYet, gattServices>>
stateVars == <<isRegisterSucceeded, connectionState, isDiscovering>>
lockVars == <<connStateMutex, discoverMutex>>
historyVars == <<gone, overtaken, raced>>
vars == <<serviceVars, events, servicesVars, requestVars, stateVars, lockVars, thread,
          callback, notifier, historyVars>>

Init ==
  /\ serviceUp = TRUE /\ wanted = FALSE /\ link = FALSE
  /\ atService = <<>> /\ discovering = FALSE
  /\ events = <<>>
  /\ isGetServiceYet = FALSE /\ isRegisterSucceeded = FALSE
  /\ connectionState = "disconnected"
  /\ gattServices = "none"
  /\ doing = FALSE /\ type = "charRead"
  /\ isDiscovering = FALSE
  /\ connStateMutex = NoThread /\ discoverMutex = NoThread
  /\ thread = [t \in Clients |-> "idle"]
  /\ callback = "idle"
  /\ notifier = "none"
  /\ gone = FALSE /\ overtaken = FALSE /\ raced = FALSE

Pending(kinds) == \E i \in 1 .. Len(events) : events[i] \in kinds

\* the answers that are on their way back
Answers == {i \in 1 .. Len(events) : events[i] \in Reports}

\* a request is with the service, or its answer on the way back
RequestUnderway == atService # <<>> \/ Answers # {}

DiscoveryUnderway ==
  \/ discovering
  \/ Pending({"discovered"})
  \/ \E t \in Clients : thread[t] \in {"discover", "refused"}

(***************************************************************************)
(* The service process and the remote device (external)                    *)
(***************************************************************************)
Report(e) ==
  /\ Len(events) < MaxEvents
  /\ events' = Append(events, e)

clientVars == <<servicesVars, requestVars, stateVars, lockVars, thread, callback, notifier>>

LinkUp ==
  /\ serviceUp /\ wanted /\ ~link
  /\ link' = TRUE
  /\ Report("connected")
  /\ UNCHANGED <<serviceUp, wanted, atService, discovering, clientVars, historyVars>>

\* with isAutoConnect the service connects again, otherwise it gives up
LinkDown ==
  /\ link
  /\ link' = FALSE
  /\ wanted' \in {wanted, FALSE}
  /\ atService' = <<>> /\ discovering' = FALSE
  /\ Report("disconnected")
  /\ UNCHANGED <<serviceUp, clientVars, historyVars>>

Respond ==
  /\ atService # <<>>
  /\ atService' = Tail(atService)
  /\ Report(ReportOf(Head(atService)))
  /\ UNCHANGED <<serviceUp, wanted, link, discovering, clientVars, historyVars>>

Discovered ==
  /\ discovering
  /\ discovering' = FALSE
  /\ Report("discovered")
  /\ UNCHANGED <<serviceUp, wanted, link, atService, clientVars, historyVars>>

RemoteServicesChange ==
  /\ gattServices' = IF gattServices = "latest" THEN "old" ELSE gattServices
  /\ IF link THEN Report("changed") ELSE UNCHANGED events
  /\ UNCHANGED <<serviceVars, isGetServiceYet, requestVars, stateVars, lockVars, thread,
                 callback, notifier, historyVars>>

RemoteNotifies ==
  /\ link
  /\ Report("notification")
  /\ UNCHANGED <<serviceVars, clientVars, historyVars>>

\* nothing is reported; what is on its way still arrives
ServiceLosesClient ==
  /\ wanted' = FALSE /\ link' = FALSE
  /\ atService' = <<>> /\ discovering' = FALSE
  /\ gone' = TRUE /\ overtaken' = FALSE /\ raced' = FALSE

ServiceDies ==
  /\ serviceUp
  /\ serviceUp' = FALSE
  /\ ServiceLosesClient
  /\ UNCHANGED <<events, clientVars>>

\* the death is reported, and bluetoothTurnOffFunc run, before the next start
ServiceStarts ==
  /\ ~serviceUp
  /\ ~isRegisterSucceeded
  /\ serviceUp' = TRUE
  /\ UNCHANGED <<wanted, link, atService, discovering, events, clientVars, historyVars>>

\* bluetoothTurnOffFunc: only the registration is reset
TurnOff ==
  /\ ~serviceUp
  /\ isRegisterSucceeded
  /\ isRegisterSucceeded' = FALSE
  /\ UNCHANGED <<serviceVars, events, servicesVars, requestVars, connectionState,
                 isDiscovering, lockVars, thread, callback, notifier, historyVars>>

(***************************************************************************)
(* Connect, Disconnect, Close                                              *)
(***************************************************************************)
Connect ==
  /\ serviceUp
  /\ connStateMutex = NoThread
  /\ connectionState # "connected"
  /\ isRegisterSucceeded' = TRUE
  /\ wanted' = TRUE
  /\ UNCHANGED <<serviceUp, link, atService, discovering, events, servicesVars,
                 requestVars, connectionState, isDiscovering, lockVars, thread, callback,
                 notifier, historyVars>>

Disconnect ==
  /\ serviceUp
  /\ connStateMutex = NoThread
  /\ isRegisterSucceeded
  /\ wanted
  /\ wanted' = FALSE
  /\ IF link THEN Report("disconnecting") ELSE UNCHANGED events
  /\ UNCHANGED <<serviceUp, link, atService, discovering, clientVars, historyVars>>

\* no lock is taken, and connectionState_ is left as it is
Close ==
  /\ serviceUp
  /\ isRegisterSucceeded
  /\ isRegisterSucceeded' = FALSE
  /\ ServiceLosesClient
  /\ UNCHANGED <<serviceUp, events, servicesVars, requestVars, connectionState,
                 isDiscovering, lockVars, thread, callback, notifier>>

(***************************************************************************)
(* Requests: ReadCharacteristic, ReadCharacteristicByUuid, ReadDescriptor, *)
(* WriteCharacteristic, WriteDescriptor and, with a descriptor,            *)
(* SetNotifyCharacteristicInner.  The service accepts a request if it has  *)
(* a link for the application; a refused request changes nothing.          *)
(***************************************************************************)
RequestMutexFree == notifier \notin {"calling", "self"}

RequestAllowed ==
  /\ serviceUp
  /\ connStateMutex = NoThread
  /\ connectionState = "connected"
  /\ RequestMutexFree
  /\ ~doing

\* mutant: a request that is under way is not looked for
RequestWhileBusy(ty) ==
  /\ serviceUp /\ connStateMutex = NoThread /\ connectionState = "connected"
  /\ RequestMutexFree
  /\ link /\ isRegisterSucceeded
  /\ Len(atService) < 2
  /\ atService' = Append(atService, ty)
  /\ doing' = TRUE /\ type' = ty
  /\ UNCHANGED <<serviceUp, wanted, link, discovering, events, servicesVars,
                 stateVars, lockVars, thread, callback, notifier, historyVars>>

Request(ty) ==
  /\ RequestAllowed
  /\ link /\ isRegisterSucceeded
  /\ Len(atService) < 2
  /\ atService' = Append(atService, ty)
  /\ doing' = TRUE /\ type' = ty
  /\ UNCHANGED <<serviceUp, wanted, link, discovering, events, servicesVars,
                 stateVars, lockVars, thread, callback, notifier, historyVars>>

\* WriteCharacteristic without response, or refused by the service
WriteWithoutAnswer ==
  /\ RequestAllowed
  /\ type' = "charWrite"
  /\ UNCHANGED <<serviceVars, events, servicesVars, doing, stateVars, lockVars, thread,
                 callback, notifier, historyVars>>

(***************************************************************************)
(* A characteristic without the descriptor: a detached thread locks        *)
(* requestInformation_ again and, with the mutex held, tells the           *)
(* application of the success.  RequestNotification, with which the call   *)
(* begins, changes nothing here; it, the wait for requestInformation_ with *)
(* connStateMutex_ held, and the lock that the detached thread takes as    *)
(* soon as the call returns are one step.  One such thread at a time.      *)
(***************************************************************************)
SetNotifyWithoutDescriptor ==
  /\ RequestAllowed
  /\ link /\ isRegisterSucceeded
  /\ notifier = "none"
  /\ notifier' = "calling"
  /\ UNCHANGED <<serviceVars, events, servicesVars, requestVars, stateVars, lockVars,
                 thread, callback, historyVars>>

\* the callback returns, or sends a request and waits for its own mutex
NotifierReturns ==
  /\ notifier = "calling"
  /\ notifier' \in {"none", "self"}
  /\ UNCHANGED <<serviceVars, events, servicesVars, requestVars, stateVars, lockVars,
                 thread, callback, historyVars>>

(***************************************************************************)
(* DiscoverServices waits for connStateMutex_ and then, with the mutex     *)
(* held, until no discovery is under way, ten seconds at most.             *)
(***************************************************************************)
DiscoverServices(t) ==
  /\ thread[t] = "idle"
  /\ serviceUp
  /\ thread' = [thread EXCEPT ![t] = "lock"]
  /\ UNCHANGED <<serviceVars, events, servicesVars, requestVars, stateVars, lockVars,
                 callback, notifier, historyVars>>

DiscoverLock(t) ==
  /\ thread[t] = "lock"
  /\ connStateMutex = NoThread
  /\ IF connectionState = "connected" /\ serviceUp
       THEN connStateMutex' = t /\ thread' = [thread EXCEPT ![t] = "discoverWait"]
       ELSE thread' = [thread EXCEPT ![t] = "idle"] /\ UNCHANGED connStateMutex
  /\ UNCHANGED <<serviceVars, events, servicesVars, requestVars, stateVars, discoverMutex,
                 callback, notifier, historyVars>>

DiscoverStart(t) ==
  /\ thread[t] = "discoverWait"
  /\ discoverMutex = NoThread
  /\ ~isDiscovering
  /\ isDiscovering' = TRUE
  /\ thread' = [thread EXCEPT ![t] = "discover"]
  /\ UNCHANGED <<serviceVars, events, servicesVars, requestVars, isRegisterSucceeded,
                 connectionState, lockVars, callback, notifier, historyVars>>

\* mutant: the wait has no timeout
WaitForEver(t) == FALSE /\ UNCHANGED vars

WaitTimeout(t) ==
  /\ thread[t] \in {"discoverWait", "getWait"}
  /\ discoverMutex = NoThread
  /\ isDiscovering
  /\ thread' = [thread EXCEPT ![t] = "idle"]
  /\ connStateMutex' = IF connStateMutex = t THEN NoThread ELSE connStateMutex
  /\ UNCHANGED <<serviceVars, events, servicesVars, requestVars, stateVars, discoverMutex,
                 callback, notifier, historyVars>>

\* mutant: an error of the service leaves isDiscovering_ set
DiscoverErrorIgnored(t) ==
  /\ thread[t] = "discover"
  /\ \/ isRegisterSucceeded /\ serviceUp /\ link /\ discovering' = TRUE
     \/ UNCHANGED discovering
  /\ thread' = [thread EXCEPT ![t] = "idle"]
  /\ connStateMutex' = NoThread
  /\ UNCHANGED <<serviceUp, wanted, link, atService, events, servicesVars,
                 requestVars, stateVars, discoverMutex, callback, notifier, historyVars>>

(***************************************************************************)
(* The call of the service.  If the client is no longer registered, or     *)
(* there is no proxy, isDiscovering_ stays set.  A service without a link  *)
(* refuses, one that has it may refuse, and the call of a dead one fails.  *)
(***************************************************************************)
DiscoverCall(t) ==
  /\ thread[t] = "discover"
  /\ \/ /\ ~isRegisterSucceeded \/ ~serviceUp
        /\ thread' = [thread EXCEPT ![t] = "idle"]
        /\ connStateMutex' = NoThread
        /\ UNCHANGED discovering
     \/ /\ isRegisterSucceeded /\ serviceUp /\ link
        /\ discovering' = TRUE
        /\ thread' = [thread EXCEPT ![t] = "idle"]
        /\ connStateMutex' = NoThread
     \/ /\ isRegisterSucceeded
        /\ thread' = [thread EXCEPT ![t] = "refused"]
        /\ UNCHANGED <<discovering, connStateMutex>>
  /\ UNCHANGED <<serviceUp, wanted, link, atService, events, servicesVars,
                 requestVars, stateVars, discoverMutex, callback, notifier, historyVars>>

(***************************************************************************)
(* DiscoverComplete after a failed call: the application is told, unless a *)
(* disconnection has reset the flag, and connStateMutex_ is still held.    *)
(***************************************************************************)
DiscoverFails(t) ==
  /\ thread[t] = "refused"
  /\ discoverMutex = NoThread
  /\ isDiscovering' = FALSE
  /\ IF isDiscovering
       THEN thread' = [thread EXCEPT ![t] = "told"] /\ UNCHANGED connStateMutex
       ELSE thread' = [thread EXCEPT ![t] = "idle"] /\ connStateMutex' = NoThread
  /\ UNCHANGED <<serviceVars, events, servicesVars, requestVars, isRegisterSucceeded,
                 connectionState, discoverMutex, callback, notifier, historyVars>>

\* the callback returns, or calls the client and waits for its own mutex
DiscoverFailureReturns(t) ==
  /\ thread[t] = "told"
  /\ \/ thread' = [thread EXCEPT ![t] = "idle"] /\ connStateMutex' = NoThread
     \/ thread' = [thread EXCEPT ![t] = "self"] /\ UNCHANGED connStateMutex
  /\ UNCHANGED <<serviceVars, events, servicesVars, requestVars, stateVars, discoverMutex,
                 callback, notifier, historyVars>>

(***************************************************************************)
(* GetServices, called by GetService, holds discoverInformation_.mutex_    *)
(* from the wait until the copy is complete.                               *)
(***************************************************************************)
GetService(t) ==
  /\ thread[t] = "idle"
  /\ serviceUp
  /\ thread' = [thread EXCEPT ![t] = "getWait"]
  /\ UNCHANGED <<serviceVars, events, servicesVars, requestVars, stateVars, lockVars,
                 callback, notifier, historyVars>>

\* gattServicesMutex_ is held while the application is told of a notification
ServicesMutexFree == callback # "notifying"

GetServicesClear(t) ==
  /\ thread[t] = "getWait"
  /\ discoverMutex = NoThread
  /\ ~isDiscovering
  /\ IF isGetServiceYet \/ ~isRegisterSucceeded
       THEN /\ thread' = [thread EXCEPT ![t] = "idle"]
            /\ UNCHANGED <<gattServices, discoverMutex>>
       ELSE /\ ServicesMutexFree
            /\ discoverMutex' = t
            /\ gattServices' = "none"
            /\ thread' = [thread EXCEPT ![t] = "get"]
  /\ UNCHANGED <<serviceVars, events, isGetServiceYet, requestVars, stateVars,
                 connStateMutex, callback, notifier, historyVars>>

BuildServiceList(t) ==
  /\ thread[t] = "get"
  /\ ServicesMutexFree
  /\ gattServices' = IF serviceUp /\ link THEN "latest" ELSE "none"
  /\ thread' = [thread EXCEPT ![t] = "mark"]
  /\ UNCHANGED <<serviceVars, events, isGetServiceYet, requestVars, stateVars, lockVars,
                 callback, notifier, historyVars>>

MarkServices(t) ==
  /\ thread[t] = "mark"
  /\ isGetServiceYet' = (isGetServiceYet \/ gattServices # "none")
  /\ discoverMutex' = NoThread
  /\ thread' = [thread EXCEPT ![t] = "idle"]
  /\ UNCHANGED <<serviceVars, events, gattServices, requestVars, stateVars, connStateMutex,
                 callback, notifier, historyVars>>

(***************************************************************************)
(* The callback thread                                                     *)
(***************************************************************************)
NextReport(e) == callback = "idle" /\ events # <<>> /\ Head(events) = e

InvalidateServices ==
  /\ isGetServiceYet' = FALSE
  /\ raced' = (raced \/ (~gone /\ \E t \in Clients : thread[t] = "mark"))

\* mutant: a change does not invalidate the copy
ServicesChangedIgnored ==
  /\ NextReport("changed")
  /\ events' = Tail(events)
  /\ UNCHANGED <<serviceVars, servicesVars, requestVars, stateVars, lockVars, thread,
                 callback, notifier, historyVars>>

OnServicesChanged ==
  /\ NextReport("changed")
  /\ InvalidateServices
  /\ events' = Tail(events)
  /\ UNCHANGED <<serviceVars, gattServices, requestVars, stateVars, lockVars, thread,
                 callback, notifier, gone, overtaken>>

\* OnConnectionStateChanged for every state but DISCONNECTED
OnStateChanged ==
  /\ \E e \in {"connected", "disconnecting"} : NextReport(e) /\ connectionState' = e
  /\ connStateMutex = NoThread
  /\ events' = Tail(events)
  /\ UNCHANGED <<serviceVars, servicesVars, requestVars, isRegisterSucceeded, isDiscovering,
                 lockVars, thread, callback, notifier, historyVars>>

OnDisconnected ==
  /\ NextReport("disconnected")
  /\ InvalidateServices
  /\ events' = Tail(events)
  /\ callback' = "discoverComplete"
  /\ UNCHANGED <<serviceVars, gattServices, requestVars, stateVars, lockVars, thread,
                 notifier, gone, overtaken>>

\* CleanConnectionInfo, first half
CleanDiscovery ==
  /\ callback = "discoverComplete"
  /\ discoverMutex = NoThread
  /\ isDiscovering' = FALSE
  /\ overtaken' = (overtaken \/ (~gone /\ DiscoveryUnderway))
  /\ callback' = "requestReset"
  /\ UNCHANGED <<serviceVars, events, servicesVars, requestVars, isRegisterSucceeded,
                 connectionState, lockVars, thread, notifier, gone, raced>>

\* CleanConnectionInfo, second half
CleanRequest ==
  /\ callback = "requestReset"
  /\ RequestMutexFree
  /\ doing' = FALSE
  /\ overtaken' = (overtaken \/ (~gone /\ RequestUnderway))
  /\ callback' = "setState"
  /\ UNCHANGED <<serviceVars, events, servicesVars, type, stateVars, lockVars, thread,
                 notifier, gone, raced>>

SetDisconnected ==
  /\ callback = "setState"
  /\ connStateMutex = NoThread
  /\ connectionState' = "disconnected"
  /\ callback' = "idle"
  /\ UNCHANGED <<serviceVars, events, servicesVars, requestVars, isRegisterSucceeded,
                 isDiscovering, lockVars, thread, notifier, historyVars>>

(***************************************************************************)
(* OnCharacteristicRead and the three others.  The application is told     *)
(* only if the answer is of the type of the last request.                  *)
(***************************************************************************)
OnResponse ==
  /\ \E e \in Reports : NextReport(e)
  /\ RequestMutexFree
  /\ doing' = FALSE
  /\ events' = Tail(events)
  /\ UNCHANGED <<serviceVars, servicesVars, type, stateVars, lockVars, thread, callback,
                 notifier, historyVars>>

OnServicesDiscovered ==
  /\ NextReport("discovered")
  /\ discoverMutex = NoThread
  /\ isDiscovering' = FALSE
  /\ events' = Tail(events)
  /\ UNCHANGED <<serviceVars, servicesVars, requestVars, isRegisterSucceeded,
                 connectionState, lockVars, thread, callback, notifier, historyVars>>

\* the application is called with gattServicesMutex_ held, if the handle is known
OnCharacteristicChanged ==
  /\ NextReport("notification")
  /\ events' = Tail(events)
  /\ callback' = IF gattServices # "none" THEN "notifying" ELSE "idle"
  /\ UNCHANGED <<serviceVars, servicesVars, requestVars, stateVars, lockVars, thread,
                 notifier, historyVars>>

\* the callback returns, or asks for the services and waits for its own mutex
NotificationReturns ==
  /\ callback = "notifying"
  /\ callback' \in {"idle", "self"}
  /\ UNCHANGED <<serviceVars, events, servicesVars, requestVars, stateVars, lockVars,
                 thread, notifier, historyVars>>

(***************************************************************************)
(* The specification                                                       *)
(***************************************************************************)
Service ==
  \/ LinkUp \/ LinkDown \/ Respond \/ Discovered \/ RemoteServicesChange \/ RemoteNotifies
  \/ ServiceDies \/ ServiceStarts \/ TurnOff

Calls ==
  \/ Connect \/ Disconnect \/ Close
  \/ \E ty \in RequestType : Request(ty)
  \/ WriteWithoutAnswer \/ SetNotifyWithoutDescriptor
  \/ \E t \in Clients : DiscoverServices(t)
  \/ \E t \in Getters : GetService(t)

ThreadStep(t) ==
  \/ DiscoverLock(t) \/ DiscoverStart(t) \/ WaitTimeout(t)
  \/ DiscoverCall(t) \/ DiscoverFails(t) \/ DiscoverFailureReturns(t)
  \/ GetServicesClear(t) \/ BuildServiceList(t) \/ MarkServices(t)

CallbackStep ==
  \/ OnServicesChanged \/ OnStateChanged \/ OnDisconnected \/ CleanDiscovery \/ CleanRequest
  \/ SetDisconnected \/ OnResponse \/ OnServicesDiscovered \/ OnCharacteristicChanged
  \/ NotificationReturns

Next ==
  \/ Service \/ Calls \/ NotifierReturns \/ CallbackStep
  \/ \E t \in Clients : ThreadStep(t)

(***************************************************************************)
(* Threads run, waits end at the timeout, and the application's callbacks  *)
(* return.  A thread that waits for a mutex gets it if it is free again    *)
(* and again: without this two threads could pass it to each other while a *)
(* third one waits.                                                        *)
(***************************************************************************)
Fairness ==
  /\ \A t \in Clients : SF_vars(ThreadStep(t))
  /\ WF_vars(NotifierReturns)
  /\ SF_vars(CallbackStep)

Spec == Init /\ [][Next]_vars /\ Fairness

-----------------------------------------------------------------------------
\* a disconnection is reported and not fully handled
DisconnectionPending(stages) == Pending({"disconnected"}) \/ callback \in stages

(***************************************************************************)
(* At most one request is under way, and requestInformation_ knows it and  *)
(* its type, so that its answer is not dropped as unexpected; and what the *)
(* service discovers is reported to the application.  The exception is a   *)
(* disconnection that is handled so late that the link is back and newer   *)
(* requests were sent.                                                     *)
(***************************************************************************)
RequestTracked ==
  ~gone /\ ~overtaken =>
    /\ Cardinality(Answers) + Len(atService) <= 1
    /\ RequestUnderway => doing
    /\ \A i \in Answers : events[i] = ReportOf(type)
    /\ \A i \in 1 .. Len(atService) : ReportOf(atService[i]) = ReportOf(type)
    /\ discovering \/ Pending({"discovered"}) => isDiscovering

(***************************************************************************)
(* No flag is left behind: the client is busy, discovering or connected    *)
(* only if something that will reset the flag is still to come, until the  *)
(* service dies or Close is called.                                        *)
(***************************************************************************)
NoFlagLeftBehind ==
  ~gone =>
    /\ doing => RequestUnderway \/ DisconnectionPending({"discoverComplete", "requestReset"})
    /\ isDiscovering => DiscoveryUnderway \/ DisconnectionPending({"discoverComplete"})
    /\ connectionState = "connected" =>
         link \/ DisconnectionPending({"discoverComplete", "requestReset", "setState"})

(***************************************************************************)
(* While isGetServiceYet_ is set the copy is the latest, or the report     *)
(* that it is not is on its way.  The exception is a report that is        *)
(* handled between the retrieval and the setting of the flag.              *)
(***************************************************************************)
ServicesLatestUnlessRaced ==
  isGetServiceYet /\ ~gone /\ ~raced =>
    gattServices = "latest" \/ Pending({"changed", "disconnected"})

\* the application called back into the client from a callback made with a mutex held
SelfBlocked == "self" \in {callback, notifier} \cup {thread[t] : t \in Clients}

(***************************************************************************)
(* DiscoverServices waits with connStateMutex_ held and GetService calls   *)
(* the service with discoverInformation_.mutex_ held, which the callback   *)
(* thread needs: still no application thread and no report waits for ever, *)
(* whoever contends for the mutexes, unless the application calls back     *)
(* into the client from one of the three callbacks that are made with a    *)
(* mutex held: that of a notification, that of SetNotifyCharacteristic     *)
(* without the descriptor, and that of a discovery the service refuses.    *)
(***************************************************************************)
CallsReturn ==
  /\ \A t \in Clients : []<>(thread[t] = "idle" \/ SelfBlocked)
  /\ []<>(callback = "idle" \/ SelfBlocked)
=============================================================================
