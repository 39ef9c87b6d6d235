------------------------- MODULE BluetoothGattServer -------------------------
(***************************************************************************)
(* The GATT server of the client framework                                 *)
(* (frameworks/inner/src/bluetooth_gatt_server.cpp).  Remote devices       *)
(* connect and read or write the attributes of the application's services; *)
(* the service process relays this, in order, to the callback thread of    *)
(* the framework, which notes the request in requests_ and calls the       *)
(* application.  The application answers with SendResponse, from any       *)
(* thread, at any time.                                                    *)
(*                                                                         *)
(* A device is a pair of an address and a transport.  An attribute stands  *)
(* for the pointer that the code keeps to it: it dangles once the service  *)
(* the attribute belongs to is erased from gattServices_.                  *)
(***************************************************************************)
EXTENDS Integers, Sequences, FiniteSets

CONSTANTS
  Devices,        \* pairs <<address, transport>>
  Services,
  Handles,        \* handles of the attributes
  ServiceOf,      \* the service that each attribute belongs to
  Descriptors,    \* the attributes that are descriptors, not characteristics
  NoRequest,      \* a device that waits for no answer
  MaxEvents,      \* bound on the reports on their way to the callback thread
  MaxConnects,    \* bound on the connections
  MaxDeaths       \* bound on the deaths of the service process

ASSUME GattServerAssumption ==
  /\ Devices \subseteq Int \X Int
  /\ ServiceOf \in [Handles -> Services]
  /\ Descriptors \subseteq Handles
  /\ MaxEvents \in Nat /\ MaxConnects \in Nat /\ MaxDeaths \in Nat

RequestType == {"charRead", "charWrite", "descRead", "descWrite"}
ForDescriptor(type) == type \in {"descRead", "descWrite"}

\* an entry of requests_; the remote device and the application see the same
RequestInformation ==
  {r \in [type : RequestType, device : Devices, handle : Handles] :
     ForDescriptor(r.type) <=> r.handle \in Descriptors}

ASSUME NoRequestAssumption == NoRequest \notin RequestInformation

VARIABLES
  serviceUp,          \* the service process runs
  connected,          \* devices connected to the service
  asked,              \* the request each device waits for an answer to
  database,           \* services that the service process offers
  events,             \* reports on their way to the callback thread
  gattServices,
  requests,
  devices,            \* how often each device is in devices_
  isRegisterSucceeded,
  serviceListMutex,   \* who holds it: "none", "callback" or "self" (see below)
  told,               \* requests that the application still has to answer
  connects, deaths,   \* connections and deaths so far
  disturbed,          \* history: something befell the pending requests
  misanswered         \* history: an answer was not the one its device waited for

remoteVars == <<serviceUp, connected, asked, database>>
serverVars == <<gattServices, requests, devices, isRegisterSucceeded>>
countVars == <<connects, deaths>>
vars == <<remoteVars, events, serverVars, serviceListMutex, told, countVars,
          disturbed, misanswered>>

Init ==
  /\ serviceUp = TRUE
  /\ connected = {}
  /\ asked = [d \in Devices |-> NoRequest]
  /\ database = {}
  /\ events = <<>>
  /\ gattServices = {}
  /\ requests = {}
  /\ devices = [d \in Devices |-> 0]
  /\ isRegisterSucceeded = TRUE
  /\ serviceListMutex = "none"
  /\ told = {}
  /\ connects = 0 /\ deaths = 0
  /\ disturbed = FALSE
  /\ misanswered = FALSE

(***************************************************************************)
(* Remote devices and the service process (external)                       *)
(***************************************************************************)
Report(e) ==
  /\ Len(events) < MaxEvents
  /\ events' = Append(events, e)

RemoteConnects(d) ==
  /\ serviceUp /\ isRegisterSucceeded
  /\ d \notin connected
  /\ connects < MaxConnects
  /\ connects' = connects + 1
  /\ connected' = connected \cup {d}
  /\ Report([kind |-> "connected", device |-> d])
  /\ UNCHANGED <<serviceUp, asked, database, serverVars, serviceListMutex, told, deaths,
                 disturbed, misanswered>>

RemoteDisconnects(d) ==
  /\ d \in connected
  /\ connected' = connected \ {d}
  /\ asked' = [asked EXCEPT ![d] = NoRequest]
  /\ Report([kind |-> "disconnected", device |-> d])
  /\ disturbed' = (disturbed \/ asked[d] # NoRequest)
  /\ UNCHANGED <<serviceUp, database, serverVars, serviceListMutex, told, countVars,
                 misanswered>>

\* a device sends the next request only when it has the answer to the last one
RemoteRequests(r) ==
  /\ r.device \in connected
  /\ asked[r.device] = NoRequest
  /\ ServiceOf[r.handle] \in database
  /\ asked' = [asked EXCEPT ![r.device] = r]
  /\ Report([kind |-> "request", request |-> r, needRespones |-> TRUE])
  /\ UNCHANGED <<serviceUp, connected, database, serverVars, serviceListMutex, told,
                 countVars, disturbed, misanswered>>

\* a write without response may be sent at any time
RemoteWriteCommand(r) ==
  /\ r.type = "charWrite"
  /\ r.device \in connected
  /\ ServiceOf[r.handle] \in database
  /\ Report([kind |-> "request", request |-> r, needRespones |-> FALSE])
  /\ UNCHANGED <<remoteVars, serverVars, serviceListMutex, told, countVars, disturbed,
                 misanswered>>

ServiceDies ==
  /\ serviceUp
  /\ deaths < MaxDeaths
  /\ deaths' = deaths + 1
  /\ serviceUp' = FALSE
  /\ connected' = {}
  /\ asked' = [d \in Devices |-> NoRequest]
  /\ database' = {}
  /\ disturbed' = TRUE
  /\ UNCHANGED <<events, serverVars, serviceListMutex, told, connects, misanswered>>

(***************************************************************************)
(* The function that Init registered with the profile manager runs: the    *)
(* application is registered again, even after Close.  Services, devices   *)
(* and requests of the previous life are kept.  The registration is taken  *)
(* to succeed, here and in Init: one that fails leaves the flag as it was, *)
(* and nothing reaches the server, as if the service had not started.      *)
(***************************************************************************)
ServiceStarts ==
  /\ ~serviceUp
  /\ serviceUp' = TRUE
  /\ isRegisterSucceeded' = TRUE
  /\ UNCHANGED <<connected, asked, database, events, gattServices, requests, devices,
                 serviceListMutex, told, countVars, disturbed, misanswered>>

(***************************************************************************)
(* requests_ is a std::set ordered by operator<, which compares the        *)
(* addresses of requests of one type and transport and calls all others    *)
(* equivalent.                                                             *)
(***************************************************************************)
SameKind(r, s) == r.type = s.type /\ r.device[2] = s.device[2]
Less(r, s) == SameKind(r, s) /\ r.device[1] < s.device[1]
Equivalent(r, s) == ~Less(r, s) /\ ~Less(s, r)

\* mutant: a type that differs is compared before the address
EmplaceByType(r) ==
  IF \E s \in requests : s.type = r.type /\ s.device = r.device THEN requests
                                                              ELSE requests \cup {r}

\* set::emplace refuses an element that is equivalent to one on its search path
Emplace(r) == IF \E s \in requests : Equivalent(r, s) THEN requests ELSE requests \cup {r}

(***************************************************************************)
(* set::find returns the first element, in the order of the set, that is   *)
(* equivalent to the key: the entry itself, or the one with the lowest     *)
(* address if the key is of another kind.                                  *)
(***************************************************************************)
Find(type, device) ==
  LET key == [type |-> type, device |-> device]
      matches == {r \in requests : Equivalent(r, key)}
  IN  {r \in matches : \A s \in matches : ~Less(s, r)}

(***************************************************************************)
(* Callback thread.  serviceListMutex_ is held from the search for the     *)
(* attribute until the application's callback has returned.                *)
(***************************************************************************)
OnRequestNotFound ==
  /\ events # <<>> /\ Head(events).kind = "request"
  /\ serviceListMutex = "none"
  /\ ServiceOf[Head(events).request.handle] \notin gattServices
  /\ events' = Tail(events)
  /\ UNCHANGED <<remoteVars, serverVars, serviceListMutex, told, countVars, disturbed,
                 misanswered>>

OnRequest ==
  /\ events # <<>> /\ Head(events).kind = "request"
  /\ serviceListMutex = "none"
  /\ LET r == Head(events).request
     IN  /\ ServiceOf[r.handle] \in gattServices
         /\ IF Head(events).needRespones
              THEN /\ requests' = Emplace(r)
                   /\ told' = told \cup {r}
                   /\ disturbed' = (disturbed \/ \E s \in requests : ~SameKind(r, s))
              ELSE UNCHANGED <<requests, told, disturbed>>
  /\ serviceListMutex' = "callback"
  /\ events' = Tail(events)
  /\ UNCHANGED <<remoteVars, gattServices, devices, isRegisterSucceeded, countVars, misanswered>>

CallbackReturns ==
  /\ serviceListMutex = "callback"
  /\ serviceListMutex' = "none"
  /\ UNCHANGED <<remoteVars, events, serverVars, told, countVars, disturbed, misanswered>>

\* the application asks for a service from its callback: the thread waits for itself
CallbackCallsGetService ==
  /\ serviceListMutex = "callback"
  /\ serviceListMutex' = "self"
  /\ UNCHANGED <<remoteVars, events, serverVars, told, countVars, disturbed, misanswered>>

\* the requests of a device that is gone stay in requests_
OnConnectionStateChanged ==
  /\ events # <<>> /\ serviceListMutex = "none"
  /\ Head(events).kind \in {"connected", "disconnected"}
  /\ devices' = [devices EXCEPT ![Head(events).device] =
                   IF Head(events).kind = "connected" THEN @ + 1
                   ELSE IF @ = 0 THEN 0 ELSE @ - 1]
  /\ events' = Tail(events)
  /\ UNCHANGED <<remoteVars, gattServices, requests, isRegisterSucceeded,
                 serviceListMutex, told, countVars, disturbed, misanswered>>

\* mutant: the service is reported to the application but not kept
AddServiceNotKept ==
  /\ events # <<>> /\ Head(events).kind = "added"
  /\ serviceListMutex = "none"
  /\ events' = Tail(events)
  /\ UNCHANGED <<remoteVars, serverVars, serviceListMutex, told, countVars, disturbed,
                 misanswered>>

OnAddService ==
  /\ events # <<>> /\ Head(events).kind = "added"
  /\ serviceListMutex = "none"
  /\ gattServices' = IF Head(events).ret = "success"
                       THEN gattServices \cup {Head(events).service} ELSE gattServices
  /\ events' = Tail(events)
  /\ UNCHANGED <<remoteVars, requests, devices, isRegisterSucceeded, serviceListMutex,
                 told, countVars, disturbed, misanswered>>

(***************************************************************************)
(* The application's calls                                                 *)
(***************************************************************************)
AddService(s, ret) ==
  /\ serviceUp /\ isRegisterSucceeded
  /\ s \notin database
  /\ database' = IF ret = "success" THEN database \cup {s} ELSE database
  /\ Report([kind |-> "added", service |-> s, ret |-> ret])
  /\ UNCHANGED <<serviceUp, connected, asked, serverVars, serviceListMutex, told,
                 countVars, disturbed, misanswered>>

\* services are erased without serviceListMutex_, pending requests are kept
EraseServices(erased) ==
  /\ gattServices' = gattServices \ erased
  /\ database' = database \ erased
  /\ disturbed' = (disturbed \/ \E r \in requests \cup {asked[d] : d \in Devices} :
                                 r # NoRequest /\ ServiceOf[r.handle] \in erased)
  /\ UNCHANGED <<serviceUp, connected, asked, events, requests, devices,
                 isRegisterSucceeded, serviceListMutex, told, countVars, misanswered>>

RemoveGattService(s) ==
  /\ serviceUp
  /\ s \in gattServices
  /\ EraseServices({s})

ClearServices ==
  /\ serviceUp
  /\ database \cup gattServices # {}
  /\ EraseServices(database \cup gattServices)

\* mutant: the handle of the declaration, not of the value
HandleOffByOne(r, type) == {r.handle - 1}

(***************************************************************************)
(* The handle that the code reads from an entry for an answer of the given *)
(* type: anything, if the attribute is gone or is of the other kind.       *)
(***************************************************************************)
HandleRead(r, type) ==
  IF ServiceOf[r.handle] \in gattServices /\ (ForDescriptor(type) <=> r.handle \in Descriptors)
    THEN {r.handle} ELSE Handles

\* mutant: the request is erased before the answer is sent
EraseThenRespond(q) ==
  /\ serviceUp
  /\ q \in told
  /\ devices[q.device] > 0
  /\ \E r \in Find(q.type, q.device), ok \in BOOLEAN : \E handle \in HandleRead(r, q.type) :
       /\ ok => q.device \in connected
       /\ requests' = requests \ {r}
       /\ IF ok
            THEN /\ told' = told \ {q}
                 /\ misanswered' =
                      (misanswered \/ asked[q.device] # [q EXCEPT !.handle = handle])
                 /\ asked' = [asked EXCEPT ![q.device] = NoRequest]
            ELSE UNCHANGED <<told, misanswered, asked>>
  /\ UNCHANGED <<serviceUp, connected, database, events, gattServices, devices,
                 isRegisterSucceeded, serviceListMutex, countVars, disturbed>>

\* requestListMutex_ is held throughout; the service may refuse the answer
SendResponse(q) ==
  /\ serviceUp
  /\ q \in told
  /\ devices[q.device] > 0
  /\ \E r \in Find(q.type, q.device), ok \in BOOLEAN : \E handle \in HandleRead(r, q.type) :
       /\ ok => q.device \in connected
       /\ IF ok
            THEN /\ requests' = requests \ {r}
                 /\ told' = told \ {q}
                 /\ misanswered' =
                      (misanswered \/ asked[q.device] # [q EXCEPT !.handle = handle])
                 /\ asked' = [asked EXCEPT ![q.device] = NoRequest]
            ELSE UNCHANGED <<requests, told, misanswered, asked>>
  /\ UNCHANGED <<serviceUp, connected, database, events, gattServices, devices,
                 isRegisterSucceeded, serviceListMutex, countVars, disturbed>>

\* no connection, or no request that could be meant: an error is returned
SendResponseFails(q) ==
  /\ q \in told
  /\ ~serviceUp \/ devices[q.device] = 0 \/ Find(q.type, q.device) = {}
  /\ told' = told \ {q}
  /\ UNCHANGED <<remoteVars, events, serverVars, serviceListMutex, countVars, disturbed,
                 misanswered>>

\* GetService and GetServices lock serviceListMutex_ only to read
Close ==
  /\ serviceUp /\ isRegisterSucceeded
  /\ isRegisterSucceeded' = FALSE
  /\ connected' = {}
  /\ asked' = [d \in Devices |-> NoRequest]
  /\ database' = {}
  /\ disturbed' = TRUE
  /\ UNCHANGED <<serviceUp, events, gattServices, requests, devices, serviceListMutex,
                 told, countVars, misanswered>>

(***************************************************************************)
(* The specification                                                       *)
(***************************************************************************)
Remote ==
  \/ \E d \in Devices : RemoteConnects(d) \/ RemoteDisconnects(d)
  \/ \E r \in RequestInformation : RemoteRequests(r) \/ RemoteWriteCommand(r)
  \/ ServiceDies \/ ServiceStarts

CallbackStep ==
  OnRequestNotFound \/ OnRequest \/ OnConnectionStateChanged \/ OnAddService

Application ==
  \/ \E s \in Services : RemoveGattService(s) \/ \E ret \in {"success", "failure"} :
                           AddService(s, ret)
  \/ ClearServices \/ Close
  \/ \E q \in told : SendResponse(q) \/ SendResponseFails(q)

Next == Remote \/ CallbackStep \/ CallbackReturns \/ CallbackCallsGetService \/ Application

(***************************************************************************)
(* The callback thread runs, and the application's callbacks return.       *)
(***************************************************************************)
Fairness == WF_vars(CallbackStep) /\ WF_vars(CallbackReturns)

Spec == Init /\ [][Next]_vars /\ Fairness

-----------------------------------------------------------------------------
Event ==
  [kind : {"connected", "disconnected"}, device : Devices] \cup
  [kind : {"request"}, request : RequestInformation, needRespones : BOOLEAN] \cup
  [kind : {"added"}, service : Services, ret : {"success", "failure"}]

TypeOK ==
  /\ serviceUp \in BOOLEAN
  /\ connected \subseteq Devices
  /\ asked \in [Devices -> RequestInformation \cup {NoRequest}]
  /\ database \subseteq Services
  /\ events \in Seq(Event)
  /\ gattServices \subseteq Services
  /\ requests \subseteq RequestInformation
  /\ devices \in [Devices -> Nat]
  /\ isRegisterSucceeded \in BOOLEAN
  /\ serviceListMutex \in {"none", "callback", "self"}
  /\ told \subseteq RequestInformation
  /\ connects \in 0 .. MaxConnects /\ deaths \in 0 .. MaxDeaths
  /\ disturbed \in BOOLEAN /\ misanswered \in BOOLEAN

(***************************************************************************)
(* The ordering of requests_ is no strict weak ordering, yet the set stays *)
(* searchable: all its entries are of one kind, and on those the ordering  *)
(* is total.  Requests of a second kind are never noted while others are   *)
(* pending.                                                                *)
(***************************************************************************)
PendingOfOneKind == \A r, s \in requests : SameKind(r, s) /\ (r.device = s.device => r = s)

(***************************************************************************)
(* As long as requests of different kinds do not overlap, no device leaves *)
(* and no service is removed while a request is pending, and the service   *)
(* does not go away, the framework knows exactly the requests that the     *)
(* application has to answer.                                              *)
(***************************************************************************)
PendingAreTheUnanswered == ~disturbed => requests = told

(***************************************************************************)
(* Under the same conditions each answer that is sent carries the handle   *)
(* that its device waits for.                                              *)
(***************************************************************************)
AnswerFitsRequest == ~disturbed => ~misanswered

(***************************************************************************)
(* Under the same conditions each request that a device waits on reaches   *)
(* the application, unless the callback thread waits for itself:           *)
(* GetService, called from a callback, locks the serviceListMutex_ that    *)
(* the callback thread holds.                                              *)
(***************************************************************************)
RequestsReachApplication ==
  \A d \in Devices :
    asked[d] # NoRequest ~> \/ asked[d] \in told \cup {NoRequest}
                            \/ disturbed \/ serviceListMutex = "self"
=============================================================================
