---------------------- MODULE BluetoothGattServerProofs ----------------------
(***************************************************************************)
(* Proofs about the GATT server, for all devices, services and attributes  *)
(* and any number of reports, connections and deaths of the service.       *)
(***************************************************************************)
EXTENDS BluetoothGattServer, SequenceTheorems, TLAPS

ConnectionEvent(e, d) == e.kind \in {"connected", "disconnected"} /\ e.device = d
NeedsAnswer(e) == e.kind = "request" /\ e.needRespones

\* no report about a connection of d is behind the first k reports
NoConnectionEvent(d, k) == \A j \in 1 .. Len(events) : j > k => ~ConnectionEvent(events[j], d)

\* d is in devices_ when the reports on their way have been handled
KnownOnceHandled(d) ==
  \/ \E i \in 1 .. Len(events) :
       /\ events[i].kind = "connected" /\ events[i].device = d
       /\ NoConnectionEvent(d, i)
  \/ devices[d] > 0 /\ NoConnectionEvent(d, 0)

(***************************************************************************)
(* A connected device is known once its reports are handled, and only a    *)
(* connected device waits for an answer.                                   *)
(***************************************************************************)
RemoteInv ==
  /\ \A d \in connected : KnownOnceHandled(d)
  /\ \A d \in Devices : asked[d] # NoRequest => asked[d].device = d /\ d \in connected

(***************************************************************************)
(* The request r, the k-th report on its way, is the one its device waits  *)
(* on and the only one of that device anywhere.                            *)
(***************************************************************************)
Tracked(r, k) ==
  /\ asked[r.device] = r
  /\ NoConnectionEvent(r.device, k)
  /\ \A j \in 1 .. Len(events) :
       NeedsAnswer(events[j]) /\ events[j].request.device = r.device => j = k
  /\ \A s \in told : s.device # r.device

QueuedInv ==
  \A k \in 1 .. Len(events) : NeedsAnswer(events[k]) => Tracked(events[k].request, k)

(***************************************************************************)
(* A request that the application has to answer is the one its device      *)
(* waits on; the device is still known and the attribute still there.      *)
(***************************************************************************)
ToldInv ==
  \A r \in told : /\ asked[r.device] = r
                  /\ NoConnectionEvent(r.device, 0)
                  /\ ServiceOf[r.handle] \in gattServices

UndisturbedInv ==
  ~disturbed => /\ requests = told
                /\ ~misanswered
                /\ serviceUp
                /\ QueuedInv
                /\ ToldInv

\* the inductive invariant
AnswerInv == TypeOK /\ PendingOfOneKind /\ RemoteInv /\ UndisturbedInv

-----------------------------------------------------------------------------
(***************************************************************************)
(* What appending to and taking from the queue of reports does.            *)
(***************************************************************************)
LEMMA AppendElements ==
  ASSUME NEW S, NEW q \in Seq(S), NEW e \in S
  PROVE  /\ Append(q, e) \in Seq(S)
         /\ Len(Append(q, e)) = Len(q) + 1 /\ Len(q) \in Nat
         /\ \A i \in 1 .. Len(q) : Append(q, e)[i] = q[i]
         /\ Append(q, e)[Len(q) + 1] = e
OBVIOUS

LEMMA TailElements ==
  ASSUME NEW S, NEW q \in Seq(S), q # <<>>
  PROVE  /\ Tail(q) \in Seq(S)
         /\ Len(q) \in Nat \ {0} /\ Len(Tail(q)) = Len(q) - 1
         /\ Head(q) = q[1] /\ Head(q) \in S
         /\ \A i \in 1 .. Len(q) - 1 : Tail(q)[i] = q[i + 1]
OBVIOUS

(***************************************************************************)
(* Type correctness                                                        *)
(***************************************************************************)
LEMMA NobodyAsks ==
  [d \in Devices |-> NoRequest] \in [Devices -> RequestInformation \cup {NoRequest}]
OBVIOUS

LEMMA TypeInit == Init => TypeOK
<1>1. Init => asked \in [Devices -> RequestInformation \cup {NoRequest}]
  BY NobodyAsks DEF Init
<1>2. Init => /\ serviceUp \in BOOLEAN /\ connected \subseteq Devices
              /\ database \subseteq Services /\ events \in Seq(Event)
              /\ gattServices \subseteq Services /\ requests \subseteq RequestInformation
              /\ devices \in [Devices -> Nat] /\ isRegisterSucceeded \in BOOLEAN
              /\ serviceListMutex \in {"none", "callback", "self"}
              /\ told \subseteq RequestInformation
              /\ connects \in 0 .. MaxConnects /\ deaths \in 0 .. MaxDeaths
              /\ disturbed \in BOOLEAN /\ misanswered \in BOOLEAN
  <2>1. 0 \in 0 .. MaxConnects /\ 0 \in 0 .. MaxDeaths
    BY GattServerAssumption
  <2>2. Init => events \in Seq(Event)
    BY DEF Init
  <2>3. Init => devices \in [Devices -> Nat]
    BY DEF Init
  <2> QED
    BY <2>1, <2>2, <2>3, Zenon DEF Init
<1> QED
  BY <1>1, <1>2 DEF TypeOK

LEMMA ReportType ==
  ASSUME TypeOK, NEW e \in Event, Report(e)
  PROVE  events' \in Seq(Event)
BY AppendElements DEF TypeOK, Report

LEMMA TakeType ==
  ASSUME TypeOK, events # <<>>
  PROVE  Head(events) \in Event /\ Tail(events) \in Seq(Event)
BY TailElements DEF TypeOK

LEMMA EmplaceType ==
  ASSUME TypeOK, NEW r \in RequestInformation
  PROVE  Emplace(r) \subseteq RequestInformation
BY DEF TypeOK, Emplace

LEMMA TypeStep == TypeOK /\ [Next]_vars => TypeOK'
<1> SUFFICES ASSUME TypeOK, [Next]_vars PROVE TypeOK'
  OBVIOUS
<1> USE GattServerAssumption
<1>1. ASSUME NEW d \in Devices, RemoteConnects(d) PROVE TypeOK'
  <2>1. [kind |-> "connected", device |-> d] \in Event
    BY DEF Event
  <2>2. events' \in Seq(Event)
    BY <1>1, <2>1, ReportType DEF RemoteConnects
  <2> QED
    BY <1>1, <2>2 DEF TypeOK, RemoteConnects, serverVars
<1>2. ASSUME NEW d \in Devices, RemoteDisconnects(d) PROVE TypeOK'
  <2>1. [kind |-> "disconnected", device |-> d] \in Event
    BY DEF Event
  <2>2. events' \in Seq(Event)
    BY <1>2, <2>1, ReportType DEF RemoteDisconnects
  <2> QED
    BY <1>2, <2>2 DEF TypeOK, RemoteDisconnects, serverVars, countVars
<1>3. ASSUME NEW r \in RequestInformation, RemoteRequests(r) PROVE TypeOK'
  <2>1. [kind |-> "request", request |-> r, needRespones |-> TRUE] \in Event
    BY DEF Event
  <2>2. events' \in Seq(Event)
    BY <1>3, <2>1, ReportType DEF RemoteRequests
  <2>3. r.device \in Devices
    BY DEF RequestInformation
  <2> QED
    BY <1>3, <2>2, <2>3 DEF TypeOK, RemoteRequests, serverVars, countVars
<1>4. ASSUME NEW r \in RequestInformation, RemoteWriteCommand(r) PROVE TypeOK'
  <2>1. [kind |-> "request", request |-> r, needRespones |-> FALSE] \in Event
    BY DEF Event
  <2>2. events' \in Seq(Event)
    BY <1>4, <2>1, ReportType DEF RemoteWriteCommand
  <2> QED
    BY <1>4, <2>2 DEF TypeOK, RemoteWriteCommand, remoteVars, serverVars, countVars
<1>5. CASE ServiceDies
  <2>1. asked' \in [Devices -> RequestInformation \cup {NoRequest}]
    BY <1>5, NobodyAsks DEF ServiceDies
  <2>2. deaths < MaxDeaths /\ deaths' = deaths + 1
    BY <1>5 DEF ServiceDies
  <2>3. deaths' \in 0 .. MaxDeaths
    BY <2>2 DEF TypeOK
  <2>4. /\ serviceUp' = FALSE /\ connected' = {} /\ database' = {} /\ disturbed' = TRUE
        /\ UNCHANGED <<events, serverVars, serviceListMutex, told, connects, misanswered>>
    BY <1>5 DEF ServiceDies
  <2> QED
    BY <2>1, <2>3, <2>4 DEF TypeOK, serverVars
<1>6. CASE ServiceStarts
  BY <1>6 DEF TypeOK, ServiceStarts, countVars
<1>7. CASE OnRequestNotFound
  BY <1>7, TakeType DEF TypeOK, OnRequestNotFound, remoteVars, serverVars, countVars
<1>8. CASE OnRequest
  <2>1. events # <<>> /\ Head(events).kind = "request" /\ events' = Tail(events)
    BY <1>8 DEF OnRequest
  <2>2. Head(events) \in Event /\ events' \in Seq(Event)
    BY <2>1, TakeType
  <2>3. Head(events).request \in RequestInformation
    BY <2>1, <2>2 DEF Event
  <2>4. requests' \subseteq RequestInformation /\ told' \subseteq RequestInformation
    BY <1>8, <2>3, EmplaceType DEF OnRequest, TypeOK
  <2>5. disturbed' \in BOOLEAN
    BY <1>8 DEF OnRequest, TypeOK
  <2> QED
    BY <1>8, <2>2, <2>4, <2>5 DEF TypeOK, OnRequest, remoteVars, countVars
<1>9. CASE OnConnectionStateChanged
  <2>1. /\ events # <<>> /\ events' = Tail(events)
        /\ Head(events).kind \in {"connected", "disconnected"}
    BY <1>9 DEF OnConnectionStateChanged
  <2>2. Head(events) \in Event /\ events' \in Seq(Event)
    BY <2>1, TakeType
  <2>3. Head(events).device \in Devices
    BY <2>1, <2>2 DEF Event
  <2>4. devices' \in [Devices -> Nat]
    BY <1>9, <2>3 DEF OnConnectionStateChanged, TypeOK
  <2> QED
    BY <1>9, <2>2, <2>4 DEF TypeOK, OnConnectionStateChanged, remoteVars, countVars
<1>10. CASE OnAddService
  <2>1. events # <<>> /\ events' = Tail(events) /\ Head(events).kind = "added"
    BY <1>10 DEF OnAddService
  <2>2. Head(events) \in Event /\ events' \in Seq(Event)
    BY <2>1, TakeType
  <2>3. Head(events).service \in Services
    BY <2>1, <2>2 DEF Event
  <2> QED
    BY <1>10, <2>2, <2>3 DEF TypeOK, OnAddService, remoteVars, countVars
<1>11. CASE CallbackReturns
  BY <1>11 DEF TypeOK, CallbackReturns, remoteVars, serverVars, countVars
<1>12. CASE CallbackCallsGetService
  BY <1>12 DEF TypeOK, CallbackCallsGetService, remoteVars, serverVars, countVars
<1>13. ASSUME NEW s \in Services, NEW ret \in {"success", "failure"}, AddService(s, ret)
       PROVE  TypeOK'
  <2>1. [kind |-> "added", service |-> s, ret |-> ret] \in Event
    BY DEF Event
  <2>2. events' \in Seq(Event)
    BY <1>13, <2>1, ReportType DEF AddService
  <2> QED
    BY <1>13, <2>2 DEF TypeOK, AddService, serverVars, countVars
<1>14. ASSUME NEW erased, EraseServices(erased) PROVE TypeOK'
  BY <1>14 DEF TypeOK, EraseServices, countVars
<1>15. CASE Close
  BY <1>15 DEF TypeOK, Close, countVars
<1>16. ASSUME NEW q \in told, SendResponse(q) PROVE TypeOK'
  <2>1. q \in RequestInformation /\ q.device \in Devices
    BY DEF TypeOK, RequestInformation
  <2>2. requests' \subseteq requests /\ told' \subseteq told
    BY <1>16 DEF SendResponse
  <2>3. asked' \in [Devices -> RequestInformation \cup {NoRequest}]
    BY <1>16, <2>1 DEF SendResponse, TypeOK
  <2>4. misanswered' \in BOOLEAN
    BY <1>16 DEF SendResponse, TypeOK
  <2> QED
    BY <1>16, <2>2, <2>3, <2>4 DEF TypeOK, SendResponse, countVars
<1>17. ASSUME NEW q \in told, SendResponseFails(q) PROVE TypeOK'
  BY <1>17 DEF TypeOK, SendResponseFails, remoteVars, serverVars, countVars
<1>18. CASE UNCHANGED vars
  BY <1>18 DEF TypeOK, vars, remoteVars, serverVars, countVars
<1> QED
  BY <1>1, <1>2, <1>3, <1>4, <1>5, <1>6, <1>7, <1>8, <1>9, <1>10, <1>11, <1>12, <1>13,
     <1>14, <1>15, <1>16, <1>17, <1>18
     DEF Next, Remote, CallbackStep, Application, RemoveGattService, ClearServices

(***************************************************************************)
(* The state of the GATT server is well typed, for all devices, services,  *)
(* attributes and numbers of reports, connections and deaths.              *)
(***************************************************************************)
THEOREM TypeCorrect == Spec => []TypeOK
BY TypeInit, TypeStep, PTL DEF Spec
(***************************************************************************)
(* The ordering of requests_ on requests of one kind                       *)
(***************************************************************************)
LEMMA DeviceIsPair ==
  ASSUME NEW d \in Devices, NEW e \in Devices
  PROVE  d[1] \in Int /\ d[2] \in Int /\ (d[1] = e[1] /\ d[2] = e[2] => d = e)
BY GattServerAssumption

LEMMA RequestFields ==
  ASSUME NEW r \in RequestInformation
  PROVE  /\ r.type \in RequestType /\ r.device \in Devices /\ r.handle \in Handles
         /\ ForDescriptor(r.type) <=> r.handle \in Descriptors
BY DEF RequestInformation

LEMMA NotEquivalent ==
  ASSUME NEW r \in RequestInformation, NEW s \in RequestInformation, ~Equivalent(r, s)
  PROVE  SameKind(r, s) /\ SameKind(s, r) /\ r.device # s.device
BY RequestFields, DeviceIsPair DEF Equivalent, Less, SameKind

(***************************************************************************)
(* A request is noted only if those that are pending are of its kind.      *)
(***************************************************************************)
LEMMA EmplaceOneKind ==
  ASSUME TypeOK, PendingOfOneKind, NEW r \in RequestInformation
  PROVE  \A s, t \in Emplace(r) : SameKind(s, t) /\ (s.device = t.device => s = t)
<1>1. CASE \E s \in requests : Equivalent(r, s)
  BY <1>1 DEF Emplace, PendingOfOneKind
<1>2. CASE ~ \E s \in requests : Equivalent(r, s)
  <2>1. \A s \in requests : SameKind(r, s) /\ SameKind(s, r) /\ r.device # s.device
    BY <1>2, NotEquivalent DEF TypeOK
  <2>2. Emplace(r) = requests \cup {r}
    BY <1>2 DEF Emplace
  <2>3. SameKind(r, r)
    BY DEF SameKind
  <2> QED
    BY <2>1, <2>2, <2>3 DEF PendingOfOneKind
<1> QED
  BY <1>1, <1>2

(***************************************************************************)
(* The search for a request that is pending finds it, and nothing else.    *)
(***************************************************************************)
LEMMA FindFindsPending ==
  ASSUME TypeOK, PendingOfOneKind, NEW q \in requests
  PROVE  Find(q.type, q.device) = {q}
<1> DEFINE key == [type |-> q.type, device |-> q.device]
           matches == {r \in requests : Equivalent(r, key)}
<1>1. \A r \in requests : r \in RequestInformation /\ r.device \in Devices
  BY RequestFields DEF TypeOK
<1>2. ASSUME NEW r \in matches PROVE r = q
  <2>1. r \in requests /\ SameKind(r, q) /\ Equivalent(r, key)
    BY DEF PendingOfOneKind
  <2>2. r.type = key.type /\ r.device[2] = key.device[2] /\ key.device = q.device
    BY <2>1 DEF SameKind
  <2>3. ~(r.device[1] < q.device[1]) /\ ~(q.device[1] < r.device[1])
    BY <2>1, <2>2 DEF Equivalent, Less, SameKind
  <2>4. r.device[1] \in Int /\ q.device[1] \in Int
    BY <1>1, <2>1, DeviceIsPair
  <2>5. r.device[1] = q.device[1]
    BY <2>3, <2>4
  <2>6. r.device = q.device
    BY <1>1, <2>1, <2>2, <2>5, DeviceIsPair
  <2> QED
    BY <2>1, <2>6 DEF PendingOfOneKind
<1>3. ~Less(q, q)
  BY <1>1, DeviceIsPair DEF Less
<1>4. q \in matches
  BY <1>1, DeviceIsPair DEF Equivalent, Less, SameKind
<1>5. matches = {q}
  BY <1>2, <1>4
<1>6. Find(q.type, q.device) = {r \in matches : \A s \in matches : ~Less(s, r)}
  BY DEF Find
<1> QED
  BY <1>3, <1>5, <1>6

LEMMA OneKindInit == Init => PendingOfOneKind
BY DEF Init, PendingOfOneKind

LEMMA OneKindStep == TypeOK /\ PendingOfOneKind /\ [Next]_vars => PendingOfOneKind'
<1> SUFFICES ASSUME TypeOK, PendingOfOneKind, [Next]_vars PROVE PendingOfOneKind'
  OBVIOUS
<1>1. ASSUME requests' \subseteq requests PROVE PendingOfOneKind'
  BY <1>1 DEF PendingOfOneKind
<1>2. CASE OnRequest
  <2>1. events # <<>> /\ Head(events).kind = "request"
    BY <1>2 DEF OnRequest
  <2>2. Head(events).request \in RequestInformation
    BY <2>1, TakeType DEF Event
  <2>3. requests' = Emplace(Head(events).request) \/ requests' = requests
    BY <1>2 DEF OnRequest
  <2> QED
    BY <1>1, <2>2, <2>3, EmplaceOneKind DEF PendingOfOneKind
<1>3. ASSUME NEW q \in told, SendResponse(q) PROVE PendingOfOneKind'
  <2>1. requests' \subseteq requests
    BY <1>3 DEF SendResponse
  <2> QED
    BY <1>1, <2>1
<1>4. \/ requests' = requests
      \/ OnRequest
      \/ \E q \in told : SendResponse(q)
  <2>1. Remote => requests' = requests
    BY DEF Remote, RemoteConnects, RemoteDisconnects, RemoteRequests, RemoteWriteCommand,
           ServiceDies, ServiceStarts, serverVars
  <2>2. CallbackStep => requests' = requests \/ OnRequest
    BY DEF CallbackStep, OnRequestNotFound, OnConnectionStateChanged, OnAddService,
           serverVars
  <2>3. CallbackReturns \/ CallbackCallsGetService => requests' = requests
    BY DEF CallbackReturns, CallbackCallsGetService, serverVars
  <2>4. Application => requests' = requests \/ \E q \in told : SendResponse(q)
    BY DEF Application, AddService, RemoveGattService, ClearServices, EraseServices,
           Close, SendResponseFails, serverVars
  <2>5. UNCHANGED vars => requests' = requests
    BY DEF vars, serverVars
  <2> QED
    BY <2>1, <2>2, <2>3, <2>4, <2>5 DEF Next
<1> QED
  BY <1>1, <1>2, <1>3, <1>4

(***************************************************************************)
(* requests_ stays searchable although its ordering is none: entries of    *)
(* two kinds are never in it together, nor two entries of one device.      *)
(***************************************************************************)
THEOREM RequestsStaySearchable == Spec => []PendingOfOneKind
<1>1. Init => TypeOK /\ PendingOfOneKind
  BY TypeInit, OneKindInit
<1>2. (TypeOK /\ PendingOfOneKind) /\ [Next]_vars => (TypeOK /\ PendingOfOneKind)'
  BY TypeStep, OneKindStep
<1> QED
  BY <1>1, <1>2, PTL DEF Spec
-----------------------------------------------------------------------------
(***************************************************************************)
(* Reports in the queue                                                    *)
(***************************************************************************)
LEMMA EventRequest ==
  ASSUME NEW e \in Event, NeedsAnswer(e)
  PROVE  /\ e.request \in RequestInformation /\ e.request.device \in Devices
         /\ e.request # NoRequest
<1>1. e.request \in RequestInformation
  BY DEF NeedsAnswer, Event
<1> QED
  BY <1>1, RequestFields, NoRequestAssumption

LEMMA QueuedEvents ==
  ASSUME TypeOK
  PROVE  Len(events) \in Nat /\ \A k \in 1 .. Len(events) : events[k] \in Event
BY DEF TypeOK

LEMMA AppendKeepsNone ==
  ASSUME TypeOK, NEW e \in Event, events' = Append(events, e), NEW d, NEW k \in Nat,
         NoConnectionEvent(d, k), ~ConnectionEvent(e, d)
  PROVE  NoConnectionEvent(d, k)'
<1>1. /\ Len(events') = Len(events) + 1 /\ Len(events) \in Nat
      /\ \A i \in 1 .. Len(events) : events'[i] = events[i]
      /\ events'[Len(events) + 1] = e
  BY AppendElements DEF TypeOK
<1>2. ASSUME NEW j \in 1 .. Len(events'), j > k PROVE ~ConnectionEvent(events'[j], d)
  BY <1>1, <1>2 DEF NoConnectionEvent
<1> QED
  BY <1>2 DEF NoConnectionEvent

LEMMA TailKeepsNone ==
  ASSUME TypeOK, events # <<>>, events' = Tail(events), NEW d, NEW k \in Nat,
         NoConnectionEvent(d, k), NEW m \in Nat, m = k - 1 \/ m = k
  PROVE  NoConnectionEvent(d, m)'
<1>1. /\ Len(events) \in Nat /\ Len(events') = Len(events) - 1
      /\ \A i \in 1 .. Len(events) - 1 : events'[i] = events[i + 1]
  BY TailElements DEF TypeOK
<1>2. ASSUME NEW j \in 1 .. Len(events'), j > m PROVE ~ConnectionEvent(events'[j], d)
  <2>1. j + 1 \in 1 .. Len(events) /\ j + 1 > k /\ events'[j] = events[j + 1]
    BY <1>1, <1>2
  <2> QED
    BY <2>1 DEF NoConnectionEvent
<1> QED
  BY <1>2 DEF NoConnectionEvent

(***************************************************************************)
(* A connected device is in devices_ once its reports are handled.         *)
(***************************************************************************)
LEMMA KnownAppend ==
  ASSUME TypeOK, NEW e \in Event, events' = Append(events, e), NEW d,
         KnownOnceHandled(d), ~ConnectionEvent(e, d), devices' = devices
  PROVE  KnownOnceHandled(d)'
<1>1. /\ Len(events') = Len(events) + 1 /\ Len(events) \in Nat
      /\ \A i \in 1 .. Len(events) : events'[i] = events[i]
  BY AppendElements DEF TypeOK
<1>2. ASSUME NEW i \in 1 .. Len(events), events[i].kind = "connected", events[i].device = d,
             NoConnectionEvent(d, i)
      PROVE  KnownOnceHandled(d)'
  <2>1. NoConnectionEvent(d, i)'
    BY <1>2, AppendKeepsNone
  <2>2. i \in 1 .. Len(events') /\ events'[i] = events[i]
    BY <1>1
  <2> QED
    BY <1>2, <2>1, <2>2 DEF KnownOnceHandled
<1>3. ASSUME devices[d] > 0, NoConnectionEvent(d, 0) PROVE KnownOnceHandled(d)'
  BY <1>3, AppendKeepsNone DEF KnownOnceHandled
<1> QED
  BY <1>2, <1>3 DEF KnownOnceHandled

LEMMA KnownTail ==
  ASSUME TypeOK, events # <<>>, events' = Tail(events), NEW d, KnownOnceHandled(d),
         Head(events).kind = "connected" /\ Head(events).device = d => devices'[d] > 0,
         ~ConnectionEvent(Head(events), d) => devices'[d] = devices[d]
  PROVE  KnownOnceHandled(d)'
<1>1. /\ Len(events) \in Nat \ {0} /\ Len(events') = Len(events) - 1
      /\ Head(events) = events[1]
      /\ \A i \in 1 .. Len(events) - 1 : events'[i] = events[i + 1]
  BY TailElements DEF TypeOK
<1>2. ASSUME NEW i \in 1 .. Len(events), events[i].kind = "connected", events[i].device = d,
             NoConnectionEvent(d, i)
      PROVE  KnownOnceHandled(d)'
  <2>1. CASE i = 1
    <3>1. NoConnectionEvent(d, 0)'
      BY <1>2, <2>1, TailKeepsNone
    <3>2. devices'[d] > 0
      BY <1>1, <1>2, <2>1
    <3> QED
      BY <3>1, <3>2 DEF KnownOnceHandled
  <2>2. CASE i # 1
    <3>1. /\ i \in Nat /\ i - 1 \in Nat /\ i - 1 \in 1 .. Len(events')
          /\ events'[i - 1] = events[i]
      BY <1>1, <2>2
    <3>2. NoConnectionEvent(d, i - 1)'
      BY <1>2, <3>1, TailKeepsNone
    <3> QED
      BY <1>2, <3>1, <3>2 DEF KnownOnceHandled
  <2> QED
    BY <2>1, <2>2
<1>3. ASSUME devices[d] > 0, NoConnectionEvent(d, 0) PROVE KnownOnceHandled(d)'
  <2>1. NoConnectionEvent(d, 0)'
    BY <1>3, TailKeepsNone
  <2>2. ~ConnectionEvent(Head(events), d)
    BY <1>1, <1>3 DEF NoConnectionEvent
  <2> QED
    BY <1>3, <2>1, <2>2 DEF KnownOnceHandled
<1> QED
  BY <1>2, <1>3 DEF KnownOnceHandled

(***************************************************************************)
(* Requests in the queue and with the application                          *)
(***************************************************************************)
LEMMA AppendKeepsRequests ==
  ASSUME TypeOK, QueuedInv, ToldInv, NEW e \in Event, events' = Append(events, e),
         asked' = asked, told' = told, gattServices' = gattServices, ~NeedsAnswer(e),
         \A d \in Devices : ConnectionEvent(e, d) => asked[d] = NoRequest
  PROVE  QueuedInv' /\ ToldInv'
<1>1. /\ Len(events') = Len(events) + 1 /\ Len(events) \in Nat
      /\ \A i \in 1 .. Len(events) : events'[i] = events[i]
      /\ events'[Len(events) + 1] = e
  BY AppendElements DEF TypeOK
<1>2. ASSUME NEW k \in 1 .. Len(events'), NeedsAnswer(events'[k])
      PROVE  k \in 1 .. Len(events) /\ events'[k] = events[k]
  BY <1>1, <1>2
<1>3. ASSUME NEW k \in 1 .. Len(events'), NeedsAnswer(events'[k]), NEW r, r = events'[k].request
      PROVE  Tracked(r, k)'
  <2>1. /\ k \in 1 .. Len(events) /\ NeedsAnswer(events[k])
        /\ r = events[k].request /\ events[k] \in Event
    BY <1>2, <1>3, QueuedEvents
  <2>2. Tracked(r, k)
    BY <2>1 DEF QueuedInv
  <2>3. r.device \in Devices /\ r # NoRequest
    BY <2>1, EventRequest
  <2>4. NoConnectionEvent(r.device, k)'
    BY <2>1, <2>2, <2>3, AppendKeepsNone DEF Tracked
  <2>5. \A j \in 1 .. Len(events') :
          NeedsAnswer(events'[j]) /\ events'[j].request.device = r.device => j = k
    BY <1>2, <2>2 DEF Tracked
  <2> QED
    BY <2>2, <2>4, <2>5 DEF Tracked
<1>4. ASSUME NEW r \in told'
      PROVE  /\ asked'[r.device] = r /\ NoConnectionEvent(r.device, 0)'
             /\ ServiceOf[r.handle] \in gattServices'
  <2>1. r \in told /\ r.device \in Devices /\ r # NoRequest
    BY RequestFields, NoRequestAssumption DEF TypeOK
  <2>2. asked[r.device] = r /\ NoConnectionEvent(r.device, 0)
    BY <2>1 DEF ToldInv
  <2>3. NoConnectionEvent(r.device, 0)'
    BY <2>1, <2>2, AppendKeepsNone
  <2> QED
    BY <2>1, <2>2, <2>3 DEF ToldInv
<1>5. QueuedInv'
  BY <1>3 DEF QueuedInv, Tracked, NoConnectionEvent
<1>6. ToldInv'
  BY <1>4 DEF ToldInv, NoConnectionEvent
<1> QED
  BY <1>5, <1>6
LEMMA TailKeepsRequests ==
  ASSUME TypeOK, QueuedInv, ToldInv, events # <<>>, events' = Tail(events),
         asked' = asked, gattServices \subseteq gattServices',
         \/ told' = told
         \/ NeedsAnswer(Head(events)) /\ told' = told \cup {Head(events).request}
  PROVE  QueuedInv' /\ \A r \in told : asked'[r.device] = r /\ NoConnectionEvent(r.device, 0)'
                                       /\ ServiceOf[r.handle] \in gattServices'
<1>1. /\ Len(events) \in Nat \ {0} /\ Len(events') = Len(events) - 1
      /\ Head(events) = events[1]
      /\ \A i \in 1 .. Len(events) - 1 : events'[i] = events[i + 1]
  BY TailElements DEF TypeOK
<1>2. ASSUME NEW k \in 1 .. Len(events'), NeedsAnswer(events'[k]),
             NEW r, r = events'[k].request
      PROVE  Tracked(r, k)'
  <2>1. /\ k \in Nat /\ k + 1 \in 1 .. Len(events) /\ NeedsAnswer(events[k + 1])
        /\ r = events[k + 1].request /\ 1 \in 1 .. Len(events)
    BY <1>1, <1>2
  <2>2. Tracked(r, k + 1)
    BY <2>1 DEF QueuedInv
  <2>3. NoConnectionEvent(r.device, k)'
    BY <2>1, <2>2, TailKeepsNone DEF Tracked
  <2>4. ASSUME NEW j \in 1 .. Len(events'), NeedsAnswer(events'[j]),
               events'[j].request.device = r.device
        PROVE  j = k
    <3>1. j + 1 \in 1 .. Len(events) /\ events'[j] = events[j + 1]
      BY <1>1
    <3>2. j + 1 = k + 1
      BY <2>2, <2>4, <3>1 DEF Tracked
    <3> QED
      BY <3>2
  <2>5. NeedsAnswer(Head(events)) => Head(events).request.device # r.device
    BY <1>1, <2>1, <2>2 DEF Tracked
  <2>6. \A s \in told' : s.device # r.device
    BY <2>2, <2>5 DEF Tracked
  <2> QED
    BY <2>2, <2>3, <2>4, <2>6 DEF Tracked
<1>3. QueuedInv'
  BY <1>2 DEF QueuedInv, Tracked, NoConnectionEvent
<1>4. ASSUME NEW r \in told
      PROVE  /\ asked'[r.device] = r /\ NoConnectionEvent(r.device, 0)'
             /\ ServiceOf[r.handle] \in gattServices'
  <2>1. /\ asked[r.device] = r /\ NoConnectionEvent(r.device, 0)
        /\ ServiceOf[r.handle] \in gattServices
    BY DEF ToldInv
  <2>2. NoConnectionEvent(r.device, 0)'
    BY <2>1, TailKeepsNone
  <2> QED
    BY <2>1, <2>2
<1> QED
  BY <1>3, <1>4

(***************************************************************************)
(* The request that OnRequest hands to the application joins those that    *)
(* have to be answered, and is noted in requests_.                         *)
(***************************************************************************)
LEMMA OnRequestUndisturbed ==
  ASSUME AnswerInv, OnRequest
  PROVE  UndisturbedInv'
<1> SUFFICES ASSUME ~disturbed'
             PROVE  (requests = told /\ ~misanswered /\ serviceUp /\ QueuedInv /\ ToldInv)'
  BY DEF UndisturbedInv
<1> DEFINE r == Head(events).request
<1>1. /\ events # <<>> /\ Head(events).kind = "request" /\ events' = Tail(events)
      /\ asked' = asked /\ gattServices' = gattServices /\ serviceUp' = serviceUp
      /\ misanswered' = misanswered /\ ServiceOf[r.handle] \in gattServices
  BY DEF OnRequest, remoteVars
<1>2. ~disturbed
  BY DEF OnRequest, AnswerInv, TypeOK
<1>3. TypeOK /\ requests = told /\ ~misanswered /\ serviceUp /\ QueuedInv /\ ToldInv
  BY <1>2 DEF AnswerInv, UndisturbedInv
<1>4. CASE ~Head(events).needRespones
  <2>1. requests' = requests /\ told' = told
    BY <1>4 DEF OnRequest
  <2>2. QueuedInv' /\ ToldInv'
    BY <1>1, <1>3, <2>1, TailKeepsRequests DEF ToldInv, NoConnectionEvent
  <2> QED
    BY <1>1, <1>3, <2>1, <2>2
<1>5. CASE Head(events).needRespones
  <2>1. /\ requests' = Emplace(r) /\ told' = told \cup {r}
        /\ \A s \in requests : SameKind(r, s)
    BY <1>5 DEF OnRequest
  <2>2. NeedsAnswer(Head(events)) /\ Head(events) \in Event
    BY <1>1, <1>3, <1>5, TakeType DEF NeedsAnswer
  <2>3. r \in RequestInformation /\ r.device \in Devices
    BY <2>2, EventRequest
  <2>4. 1 \in 1 .. Len(events) /\ Head(events) = events[1]
    BY <1>1, <1>3, TailElements DEF TypeOK
  <2>5. Tracked(r, 1)
    BY <1>3, <2>2, <2>4 DEF QueuedInv
  <2>6. \A s \in requests : ~Equivalent(r, s)
    <3> SUFFICES ASSUME NEW s \in requests PROVE ~Equivalent(r, s)
      OBVIOUS
    <3>1. s.device # r.device /\ SameKind(r, s)
      BY <1>3, <2>1, <2>5 DEF Tracked
    <3>2. s.device \in Devices
      BY <1>3, RequestFields DEF TypeOK
    <3>3. r.device[1] # s.device[1] /\ r.device[1] \in Int /\ s.device[1] \in Int
      BY <2>3, <3>1, <3>2, DeviceIsPair DEF SameKind
    <3>4. r.device[1] < s.device[1] \/ s.device[1] < r.device[1]
      BY <3>3
    <3> QED
      BY <3>1, <3>4 DEF Equivalent, Less, SameKind
  <2>7. requests' = told'
    BY <1>3, <2>1, <2>6 DEF Emplace
  <2>8. /\ QueuedInv'
        /\ \A s \in told : asked'[s.device] = s /\ NoConnectionEvent(s.device, 0)'
                           /\ ServiceOf[s.handle] \in gattServices'
    BY <1>1, <1>3, <2>1, <2>2, TailKeepsRequests
  <2>9. PICK x : x = r
    OBVIOUS
  <2>10. NoConnectionEvent(x.device, 0)'
    BY <1>1, <1>3, <2>5, <2>9, TailKeepsNone DEF Tracked
  <2>11. asked'[x.device] = x /\ ServiceOf[x.handle] \in gattServices'
    BY <1>1, <2>5, <2>9 DEF Tracked
  <2>12. ToldInv'
    BY <2>1, <2>8, <2>9, <2>10, <2>11 DEF ToldInv, NoConnectionEvent
  <2> QED
    BY <1>1, <1>3, <2>7, <2>8, <2>12
<1> QED
  BY <1>4, <1>5

(***************************************************************************)
(* A device that sends a request waits for no other.                       *)
(***************************************************************************)
LEMMA RemoteRequestsUndisturbed ==
  ASSUME AnswerInv, NEW r \in RequestInformation, RemoteRequests(r)
  PROVE  UndisturbedInv'
<1> SUFFICES ASSUME ~disturbed'
             PROVE  (requests = told /\ ~misanswered /\ serviceUp /\ QueuedInv /\ ToldInv)'
  BY DEF UndisturbedInv
<1> DEFINE e == [kind |-> "request", request |-> r, needRespones |-> TRUE]
<1>1. /\ events' = Append(events, e) /\ asked[r.device] = NoRequest
      /\ asked' = [asked EXCEPT ![r.device] = r] /\ gattServices' = gattServices
      /\ serviceUp' = serviceUp /\ requests' = requests /\ told' = told
      /\ misanswered' = misanswered /\ disturbed' = disturbed
  BY DEF RemoteRequests, Report, serverVars
<1>2. TypeOK /\ requests = told /\ ~misanswered /\ serviceUp /\ QueuedInv /\ ToldInv
  BY <1>1 DEF AnswerInv, UndisturbedInv
<1>3. /\ e \in Event /\ NeedsAnswer(e) /\ e.request = r
      /\ \A d : ~ConnectionEvent(e, d)
  BY DEF Event, NeedsAnswer, ConnectionEvent
<1>4. r.device \in Devices /\ r # NoRequest
  BY RequestFields, NoRequestAssumption
<1>5. /\ asked'[r.device] = r
      /\ \A d \in Devices : d # r.device => asked'[d] = asked[d]
  BY <1>1, <1>2, <1>4 DEF TypeOK
<1>6. /\ Len(events') = Len(events) + 1 /\ Len(events) \in Nat
      /\ \A i \in 1 .. Len(events) : events'[i] = events[i] /\ events[i] \in Event
      /\ events'[Len(events) + 1] = e
  BY <1>1, <1>2, <1>3, AppendElements, QueuedEvents DEF TypeOK
<1>7. \A s \in told : /\ s.device \in Devices /\ s # NoRequest /\ asked[s.device] = s
                      /\ s.device # r.device
  BY <1>1, <1>2, RequestFields, NoRequestAssumption DEF TypeOK, ToldInv
<1>8. ASSUME NEW k \in 1 .. Len(events), NeedsAnswer(events[k])
      PROVE  /\ Tracked(events[k].request, k)
             /\ events[k].request.device \in Devices /\ events[k].request.device # r.device
  BY <1>1, <1>2, <1>6, <1>8, EventRequest DEF QueuedInv, Tracked
<1>9. ASSUME NEW k \in 1 .. Len(events'), NeedsAnswer(events'[k]),
             NEW q, q = events'[k].request
      PROVE  Tracked(q, k)'
  <2>1. CASE k = Len(events) + 1
    <3>1. q = r
      BY <1>3, <1>6, <1>9, <2>1
    <3>2. NoConnectionEvent(q.device, k)'
      BY <1>6, <2>1 DEF NoConnectionEvent
    <3>3. \A j \in 1 .. Len(events') :
            NeedsAnswer(events'[j]) /\ events'[j].request.device = q.device => j = k
      BY <1>6, <1>8, <2>1, <3>1
    <3> QED
      BY <1>1, <1>5, <1>7, <3>1, <3>2, <3>3 DEF Tracked
  <2>2. CASE k # Len(events) + 1
    <3>1. k \in Nat /\ k \in 1 .. Len(events) /\ events'[k] = events[k]
      BY <1>6, <2>2
    <3>2. /\ Tracked(q, k) /\ q.device \in Devices /\ q.device # r.device
      BY <1>8, <1>9, <3>1
    <3>3. NoConnectionEvent(q.device, k)'
      BY <1>1, <1>2, <1>3, <3>1, <3>2, AppendKeepsNone DEF Tracked
    <3>4. ASSUME NEW j \in 1 .. Len(events'), NeedsAnswer(events'[j]),
                 events'[j].request.device = q.device
          PROVE  j = k
      <4>1. j # Len(events) + 1
        BY <1>3, <1>6, <3>2, <3>4
      <4>2. j \in 1 .. Len(events) /\ events'[j] = events[j]
        BY <1>6, <4>1
      <4> QED
        BY <3>2, <3>4, <4>2 DEF Tracked
    <3> QED
      BY <1>1, <1>5, <3>2, <3>3, <3>4 DEF Tracked
  <2> QED
    BY <2>1, <2>2
<1>10. QueuedInv'
  BY <1>9 DEF QueuedInv, Tracked, NoConnectionEvent
<1>11. ASSUME NEW s \in told
       PROVE  /\ asked'[s.device] = s /\ NoConnectionEvent(s.device, 0)'
              /\ ServiceOf[s.handle] \in gattServices'
  <2>1. NoConnectionEvent(s.device, 0) /\ ServiceOf[s.handle] \in gattServices
    BY <1>2 DEF ToldInv
  <2>2. NoConnectionEvent(s.device, 0)'
    BY <1>1, <1>2, <1>3, <2>1, AppendKeepsNone
  <2> QED
    BY <1>1, <1>5, <1>7, <2>1, <2>2
<1>12. ToldInv'
  BY <1>1, <1>11 DEF ToldInv, NoConnectionEvent
<1> QED
  BY <1>1, <1>2, <1>10, <1>12
(***************************************************************************)
(* The answer goes to the device that waits for it, with the handle it     *)
(* asked for: the search finds the request, and its attribute exists.      *)
(***************************************************************************)
LEMMA SendResponseUndisturbed ==
  ASSUME AnswerInv, NEW q \in told, SendResponse(q)
  PROVE  UndisturbedInv'
<1> SUFFICES ASSUME ~disturbed'
             PROVE  (requests = told /\ ~misanswered /\ serviceUp /\ QueuedInv /\ ToldInv)'
  BY DEF UndisturbedInv
<1>1. /\ events' = events /\ gattServices' = gattServices /\ serviceUp' = serviceUp
      /\ disturbed' = disturbed
  BY DEF SendResponse
<1>2. /\ TypeOK /\ PendingOfOneKind /\ requests = told /\ ~misanswered /\ serviceUp
      /\ QueuedInv /\ ToldInv
  BY <1>1 DEF AnswerInv, UndisturbedInv
<1>3. /\ q \in RequestInformation /\ q.device \in Devices /\ q.handle \in Handles
      /\ ForDescriptor(q.type) <=> q.handle \in Descriptors
  BY <1>2, RequestFields DEF TypeOK
<1>4. Find(q.type, q.device) = {q}
  BY <1>2, FindFindsPending
<1>5. HandleRead(q, q.type) = {q.handle}
  BY <1>2, <1>3 DEF HandleRead, ToldInv
<1>6. asked[q.device] = q
  BY <1>2 DEF ToldInv
<1>7. [q EXCEPT !.handle = q.handle] = q
  BY <1>3 DEF RequestInformation
<1>8. \/ UNCHANGED <<requests, told, misanswered, asked>>
      \/ /\ requests' = requests \ {q} /\ told' = told \ {q} /\ ~misanswered'
         /\ asked' = [asked EXCEPT ![q.device] = NoRequest]
  BY <1>2, <1>4, <1>5, <1>6, <1>7 DEF SendResponse
<1>9. CASE UNCHANGED <<requests, told, misanswered, asked>>
  BY <1>1, <1>2, <1>9 DEF QueuedInv, Tracked, ToldInv, NoConnectionEvent
<1>10. CASE /\ requests' = requests \ {q} /\ told' = told \ {q} /\ ~misanswered'
            /\ asked' = [asked EXCEPT ![q.device] = NoRequest]
  <2>1. \A d \in Devices : d # q.device => asked'[d] = asked[d]
    BY <1>2, <1>10 DEF TypeOK
  <2>2. \A r \in told : r # q => r.device \in Devices /\ r.device # q.device
    BY <1>2, RequestFields DEF TypeOK, PendingOfOneKind
  <2>3. ToldInv'
    BY <1>1, <1>2, <1>10, <2>1, <2>2 DEF ToldInv, NoConnectionEvent
  <2>4. ASSUME NEW k \in 1 .. Len(events'), NeedsAnswer(events'[k]),
               NEW r, r = events'[k].request
        PROVE  Tracked(r, k)'
    <3>1. Tracked(r, k) /\ r.device \in Devices
      BY <1>1, <1>2, <2>4, EventRequest, QueuedEvents DEF QueuedInv
    <3>2. r.device # q.device
      BY <3>1 DEF Tracked
    <3> QED
      BY <1>1, <1>10, <2>1, <3>1, <3>2 DEF Tracked, NoConnectionEvent
  <2>5. QueuedInv'
    BY <2>4 DEF QueuedInv, Tracked, NoConnectionEvent
  <2> QED
    BY <1>1, <1>2, <1>10, <2>3, <2>5
<1> QED
  BY <1>8, <1>9, <1>10

(***************************************************************************)
(* An answer is not refused for want of a connection or of a request.      *)
(***************************************************************************)
LEMMA SendResponseFailsOnlyDisturbed ==
  ASSUME AnswerInv, NEW q \in told, SendResponseFails(q)
  PROVE  disturbed
<1> SUFFICES ASSUME ~disturbed PROVE FALSE
  OBVIOUS
<1>1. /\ TypeOK /\ PendingOfOneKind /\ RemoteInv /\ requests = told /\ serviceUp /\ ToldInv
  BY DEF AnswerInv, UndisturbedInv
<1>2. Find(q.type, q.device) = {q}
  BY <1>1, FindFindsPending
<1>3. q.device \in Devices /\ q # NoRequest
  BY <1>1, RequestFields, NoRequestAssumption DEF TypeOK
<1>4. asked[q.device] = q /\ NoConnectionEvent(q.device, 0)
  BY <1>1 DEF ToldInv
<1>5. KnownOnceHandled(q.device)
  BY <1>1, <1>3, <1>4 DEF RemoteInv
<1>6. \A i \in 1 .. Len(events) : i > 0
  BY <1>1, QueuedEvents
<1>7. devices[q.device] > 0
  BY <1>4, <1>5, <1>6 DEF KnownOnceHandled, NoConnectionEvent, ConnectionEvent
<1>8. devices[q.device] \in Nat
  BY <1>1, <1>3 DEF TypeOK
<1> QED
  BY <1>1, <1>2, <1>7, <1>8 DEF SendResponseFails

LEMMA UndisturbedStep == AnswerInv /\ [Next]_vars => UndisturbedInv'
<1> SUFFICES ASSUME AnswerInv, [Next]_vars PROVE UndisturbedInv'
  OBVIOUS
<1> DEFINE Good == requests = told /\ ~misanswered /\ serviceUp /\ QueuedInv /\ ToldInv
<1>a. TypeOK /\ RemoteInv /\ (~disturbed => Good)
  BY DEF AnswerInv, UndisturbedInv
<1>b. ASSUME disturbed' PROVE UndisturbedInv'
  BY <1>b DEF UndisturbedInv
<1>c. ASSUME disturbed, disturbed' = disturbed PROVE UndisturbedInv'
  BY <1>c DEF UndisturbedInv
<1>1. ASSUME NEW d \in Devices, RemoteConnects(d) PROVE UndisturbedInv'
  <2> DEFINE e == [kind |-> "connected", device |-> d]
  <2>1. e \in Event /\ ~NeedsAnswer(e) /\ \A c : ConnectionEvent(e, c) => c = d
    BY DEF Event, NeedsAnswer, ConnectionEvent
  <2>2. asked[d] = NoRequest
    BY <1>1, <1>a DEF RemoteConnects, RemoteInv
  <2>3. /\ events' = Append(events, e) /\ asked' = asked /\ told' = told
        /\ gattServices' = gattServices /\ requests' = requests
        /\ serviceUp' = serviceUp /\ misanswered' = misanswered /\ disturbed' = disturbed
    BY <1>1 DEF RemoteConnects, Report, serverVars
  <2>4. ~disturbed => QueuedInv' /\ ToldInv'
    BY <1>a, <2>1, <2>2, <2>3, AppendKeepsRequests
  <2> QED
    BY <1>a, <2>3, <2>4 DEF UndisturbedInv
<1>2. ASSUME NEW d \in Devices, RemoteDisconnects(d) PROVE UndisturbedInv'
  <2> DEFINE e == [kind |-> "disconnected", device |-> d]
  <2>1. e \in Event /\ ~NeedsAnswer(e) /\ \A c : ConnectionEvent(e, c) => c = d
    BY DEF Event, NeedsAnswer, ConnectionEvent
  <2>2. /\ events' = Append(events, e) /\ asked' = [asked EXCEPT ![d] = NoRequest]
        /\ told' = told /\ gattServices' = gattServices /\ requests' = requests
        /\ serviceUp' = serviceUp /\ misanswered' = misanswered
        /\ disturbed' = (disturbed \/ asked[d] # NoRequest)
    BY <1>2 DEF RemoteDisconnects, Report, serverVars
  <2>3. SUFFICES ASSUME ~disturbed' PROVE Good'
    BY DEF UndisturbedInv
  <2>4. ~disturbed /\ asked[d] = NoRequest
    BY <2>2, <2>3
  <2>5. asked' = asked
    BY <1>a, <2>2, <2>4 DEF TypeOK
  <2>6. QueuedInv' /\ ToldInv'
    BY <1>a, <2>1, <2>2, <2>4, <2>5, AppendKeepsRequests
  <2> QED
    BY <1>a, <2>2, <2>4, <2>6
<1>3. ASSUME NEW r \in RequestInformation, RemoteWriteCommand(r) PROVE UndisturbedInv'
  <2> DEFINE e == [kind |-> "request", request |-> r, needRespones |-> FALSE]
  <2>1. e \in Event /\ ~NeedsAnswer(e) /\ \A c : ~ConnectionEvent(e, c)
    BY DEF Event, NeedsAnswer, ConnectionEvent
  <2>2. /\ events' = Append(events, e) /\ asked' = asked /\ told' = told
        /\ gattServices' = gattServices /\ requests' = requests
        /\ serviceUp' = serviceUp /\ misanswered' = misanswered /\ disturbed' = disturbed
    BY <1>3 DEF RemoteWriteCommand, Report, serverVars, remoteVars
  <2>3. ~disturbed => QueuedInv' /\ ToldInv'
    BY <1>a, <2>1, <2>2, AppendKeepsRequests
  <2> QED
    BY <1>a, <2>2, <2>3 DEF UndisturbedInv
<1>4. CASE ServiceDies \/ Close
  BY <1>4, <1>b DEF ServiceDies, Close
<1>5. CASE ServiceStarts
  <2>1. /\ ~serviceUp /\ disturbed' = disturbed
    BY <1>5 DEF ServiceStarts
  <2> QED
    BY <1>a, <1>c, <2>1
<1>6. CASE OnRequestNotFound \/ OnConnectionStateChanged \/ OnAddService
  <2>1. /\ events # <<>> /\ events' = Tail(events) /\ asked' = asked /\ told' = told
        /\ gattServices \subseteq gattServices' /\ requests' = requests
        /\ serviceUp' = serviceUp /\ misanswered' = misanswered /\ disturbed' = disturbed
    BY <1>6 DEF OnRequestNotFound, OnConnectionStateChanged, OnAddService, remoteVars,
                serverVars
  <2>2. ~disturbed => QueuedInv' /\ ToldInv'
    BY <1>a, <2>1, TailKeepsRequests DEF ToldInv, NoConnectionEvent
  <2> QED
    BY <1>a, <2>1, <2>2 DEF UndisturbedInv
<1>7. ASSUME UNCHANGED <<events, asked, told, gattServices, requests, serviceUp,
                         misanswered, disturbed>>
      PROVE  UndisturbedInv'
  BY <1>7, <1>a DEF UndisturbedInv, QueuedInv, Tracked, ToldInv, NoConnectionEvent
<1>8. CASE CallbackReturns \/ CallbackCallsGetService \/ UNCHANGED vars
  BY <1>7, <1>8 DEF CallbackReturns, CallbackCallsGetService, vars, remoteVars, serverVars
<1>9. ASSUME NEW s \in Services, NEW ret \in {"success", "failure"}, AddService(s, ret)
      PROVE  UndisturbedInv'
  <2> DEFINE e == [kind |-> "added", service |-> s, ret |-> ret]
  <2>1. e \in Event /\ ~NeedsAnswer(e) /\ \A c : ~ConnectionEvent(e, c)
    BY DEF Event, NeedsAnswer, ConnectionEvent
  <2>2. /\ events' = Append(events, e) /\ asked' = asked /\ told' = told
        /\ gattServices' = gattServices /\ requests' = requests
        /\ serviceUp' = serviceUp /\ misanswered' = misanswered /\ disturbed' = disturbed
    BY <1>9 DEF AddService, Report, serverVars
  <2>3. ~disturbed => QueuedInv' /\ ToldInv'
    BY <1>a, <2>1, <2>2, AppendKeepsRequests
  <2> QED
    BY <1>a, <2>2, <2>3 DEF UndisturbedInv
<1>10. ASSUME NEW erased, EraseServices(erased) PROVE UndisturbedInv'
  <2>1. /\ events' = events /\ asked' = asked /\ told' = told
        /\ gattServices' = gattServices \ erased /\ requests' = requests
        /\ serviceUp' = serviceUp /\ misanswered' = misanswered
    BY <1>10 DEF EraseServices
  <2>2. SUFFICES ASSUME ~disturbed' PROVE Good'
    BY DEF UndisturbedInv
  <2>3. /\ ~disturbed
        /\ \A r \in requests : r # NoRequest => ServiceOf[r.handle] \notin erased
    BY <1>10, <2>2 DEF EraseServices
  <2>4. \A r \in told : r # NoRequest
    BY <1>a, NoRequestAssumption DEF TypeOK
  <2>5. ToldInv'
    BY <1>a, <2>1, <2>3, <2>4 DEF ToldInv, NoConnectionEvent
  <2>6. QueuedInv'
    BY <1>a, <2>1, <2>3 DEF QueuedInv, Tracked, NoConnectionEvent
  <2> QED
    BY <1>a, <2>1, <2>3, <2>5, <2>6
<1>11. ASSUME NEW q \in told, SendResponseFails(q) PROVE UndisturbedInv'
  <2>1. disturbed
    BY <1>11, SendResponseFailsOnlyDisturbed
  <2> QED
    BY <1>11, <1>c, <2>1 DEF SendResponseFails
<1> QED
  BY <1>1, <1>2, <1>3, <1>4, <1>5, <1>6, <1>8, <1>9, <1>10, <1>11, OnRequestUndisturbed,
     RemoteRequestsUndisturbed, SendResponseUndisturbed
     DEF Next, Remote, CallbackStep, Application, RemoveGattService, ClearServices
LEMMA RemoteStep == AnswerInv /\ [Next]_vars => RemoteInv'
<1> SUFFICES ASSUME AnswerInv, [Next]_vars PROVE RemoteInv'
  OBVIOUS
<1>a. TypeOK /\ RemoteInv /\ connected \subseteq Devices
  BY DEF AnswerInv, TypeOK
<1>1. ASSUME NEW d \in Devices, RemoteConnects(d) PROVE RemoteInv'
  <2> DEFINE e == [kind |-> "connected", device |-> d]
  <2>1. e \in Event /\ \A c : ConnectionEvent(e, c) => c = d
    BY DEF Event, ConnectionEvent
  <2>2. /\ events' = Append(events, e) /\ devices' = devices /\ asked' = asked
        /\ connected' = connected \cup {d}
    BY <1>1 DEF RemoteConnects, Report, serverVars
  <2>3. \A c \in connected : c # d => KnownOnceHandled(c)'
    BY <1>a, <2>1, <2>2, KnownAppend DEF RemoteInv
  <2>4. KnownOnceHandled(d)'
    <3>1. /\ Len(events') = Len(events) + 1 /\ Len(events) \in Nat
          /\ events'[Len(events) + 1] = e
      BY <1>a, <2>1, <2>2, AppendElements DEF TypeOK
    <3> DEFINE i == Len(events')
    <3>2. i \in 1 .. Len(events') /\ events'[i].kind = "connected" /\ events'[i].device = d
      BY <3>1
    <3>3. \A j \in 1 .. Len(events') : ~(j > i)
      BY <3>1
    <3> QED
      BY <3>2, <3>3 DEF KnownOnceHandled, NoConnectionEvent
  <2>5. \A c \in connected' : KnownOnceHandled(c)'
    BY <2>2, <2>3, <2>4
  <2> QED
    BY <1>a, <2>2, <2>5 DEF RemoteInv, KnownOnceHandled, NoConnectionEvent
<1>2. ASSUME NEW d \in Devices, RemoteDisconnects(d) PROVE RemoteInv'
  <2> DEFINE e == [kind |-> "disconnected", device |-> d]
  <2>1. e \in Event /\ \A c : ConnectionEvent(e, c) => c = d
    BY DEF Event, ConnectionEvent
  <2>2. /\ events' = Append(events, e) /\ devices' = devices
        /\ connected' = connected \ {d} /\ asked' = [asked EXCEPT ![d] = NoRequest]
    BY <1>2 DEF RemoteDisconnects, Report, serverVars
  <2>3. \A c \in connected' : KnownOnceHandled(c)'
    BY <1>a, <2>1, <2>2, KnownAppend DEF RemoteInv
  <2>4. \A c \in Devices : asked'[c] # NoRequest => asked'[c].device = c /\ c \in connected'
    BY <1>a, <2>2 DEF RemoteInv, TypeOK
  <2> QED
    BY <2>3, <2>4 DEF RemoteInv, KnownOnceHandled, NoConnectionEvent
<1>3. ASSUME NEW r \in RequestInformation, RemoteRequests(r) PROVE RemoteInv'
  <2> DEFINE e == [kind |-> "request", request |-> r, needRespones |-> TRUE]
  <2>1. e \in Event /\ \A c : ~ConnectionEvent(e, c)
    BY DEF Event, ConnectionEvent
  <2>2. /\ events' = Append(events, e) /\ devices' = devices /\ connected' = connected
        /\ asked' = [asked EXCEPT ![r.device] = r] /\ r.device \in connected
    BY <1>3 DEF RemoteRequests, Report, serverVars
  <2>3. \A c \in connected' : KnownOnceHandled(c)'
    BY <1>a, <2>1, <2>2, KnownAppend DEF RemoteInv
  <2>4. \A c \in Devices : asked'[c] # NoRequest => asked'[c].device = c /\ c \in connected'
    BY <1>a, <2>2 DEF RemoteInv, TypeOK
  <2> QED
    BY <2>3, <2>4 DEF RemoteInv, KnownOnceHandled, NoConnectionEvent
<1>4. ASSUME NEW e \in Event, \A c : ~ConnectionEvent(e, c), Report(e),
             UNCHANGED <<devices, connected, asked>>
      PROVE  RemoteInv'
  <2>1. \A c \in connected' : KnownOnceHandled(c)'
    BY <1>a, <1>4, KnownAppend DEF RemoteInv, Report
  <2> QED
    BY <1>a, <1>4, <2>1 DEF RemoteInv, KnownOnceHandled, NoConnectionEvent
<1>5. ASSUME NEW r \in RequestInformation, RemoteWriteCommand(r) PROVE RemoteInv'
  <2> DEFINE e == [kind |-> "request", request |-> r, needRespones |-> FALSE]
  <2>1. e \in Event /\ \A c : ~ConnectionEvent(e, c)
    BY DEF Event, ConnectionEvent
  <2> QED
    BY <1>4, <1>5, <2>1 DEF RemoteWriteCommand, remoteVars, serverVars
<1>6. ASSUME NEW s \in Services, NEW ret \in {"success", "failure"}, AddService(s, ret)
      PROVE  RemoteInv'
  <2> DEFINE e == [kind |-> "added", service |-> s, ret |-> ret]
  <2>1. e \in Event /\ \A c : ~ConnectionEvent(e, c)
    BY DEF Event, ConnectionEvent
  <2> QED
    BY <1>4, <1>6, <2>1 DEF AddService, serverVars
<1>7. CASE ServiceDies \/ Close
  <2>1. connected' = {} /\ asked' = [d \in Devices |-> NoRequest]
    BY <1>7 DEF ServiceDies, Close
  <2> QED
    BY <2>1 DEF RemoteInv
<1>8. ASSUME events # <<>>, events' = Tail(events), UNCHANGED <<connected, asked>>,
             \A c \in connected :
               /\ Head(events).kind = "connected" /\ Head(events).device = c
                    => devices'[c] > 0
               /\ ~ConnectionEvent(Head(events), c) => devices'[c] = devices[c]
      PROVE  RemoteInv'
  <2>1. \A c \in connected' : KnownOnceHandled(c)'
    BY <1>a, <1>8, KnownTail DEF RemoteInv
  <2> QED
    BY <1>a, <1>8, <2>1 DEF RemoteInv, KnownOnceHandled, NoConnectionEvent
<1>9. CASE OnRequestNotFound \/ OnRequest \/ OnAddService
  <2>1. /\ events # <<>> /\ events' = Tail(events)
        /\ UNCHANGED <<connected, asked, devices>>
        /\ Head(events).kind \notin {"connected", "disconnected"}
    BY <1>9 DEF OnRequestNotFound, OnRequest, OnAddService, remoteVars, serverVars
  <2> QED
    BY <1>8, <2>1
<1>10. CASE OnConnectionStateChanged
  <2> DEFINE h == Head(events)
  <2>1. /\ events # <<>> /\ events' = Tail(events) /\ UNCHANGED <<connected, asked>>
        /\ h.kind \in {"connected", "disconnected"}
        /\ devices' = [devices EXCEPT ![h.device] =
                        IF h.kind = "connected" THEN @ + 1 ELSE IF @ = 0 THEN 0 ELSE @ - 1]
    BY <1>10 DEF OnConnectionStateChanged, remoteVars
  <2>2. h \in Event /\ devices \in [Devices -> Nat]
    BY <1>a, <2>1, TakeType DEF TypeOK
  <2>3. h.device \in Devices
    BY <2>1, <2>2 DEF Event
  <2>4. h.kind = "connected" => devices'[h.device] > 0
    BY <2>1, <2>2, <2>3
  <2>5. \A c \in connected : ~ConnectionEvent(h, c) => devices'[c] = devices[c]
    BY <1>a, <2>1, <2>2 DEF ConnectionEvent
  <2> QED
    BY <1>8, <2>1, <2>4, <2>5
<1>11. ASSUME UNCHANGED <<events, devices, connected, asked>> PROVE RemoteInv'
  BY <1>a, <1>11 DEF RemoteInv, KnownOnceHandled, NoConnectionEvent
<1>12. CASE ServiceStarts \/ CallbackReturns \/ CallbackCallsGetService \/ UNCHANGED vars
  BY <1>11, <1>12 DEF ServiceStarts, CallbackReturns, CallbackCallsGetService, vars,
                      remoteVars, serverVars
<1>13. ASSUME NEW erased, EraseServices(erased) PROVE RemoteInv'
  BY <1>11, <1>13 DEF EraseServices
<1>14. ASSUME NEW q \in told, SendResponseFails(q) PROVE RemoteInv'
  BY <1>11, <1>14 DEF SendResponseFails, remoteVars, serverVars
<1>15. ASSUME NEW q \in told, SendResponse(q) PROVE RemoteInv'
  <2>1. UNCHANGED <<events, devices, connected>>
    BY <1>15 DEF SendResponse
  <2>2. asked' = asked \/ asked' = [asked EXCEPT ![q.device] = NoRequest]
    BY <1>15 DEF SendResponse
  <2>3. \A c \in Devices : asked'[c] # NoRequest => asked'[c] = asked[c]
    BY <1>a, <2>2 DEF TypeOK
  <2> QED
    BY <1>a, <2>1, <2>3 DEF RemoteInv, KnownOnceHandled, NoConnectionEvent
<1> QED
  BY <1>1, <1>2, <1>3, <1>5, <1>6, <1>7, <1>9, <1>10, <1>12, <1>13, <1>14, <1>15
     DEF Next, Remote, CallbackStep, Application, RemoveGattService, ClearServices

LEMMA AnswerInvariant == Spec => []AnswerInv
<1>1. Init => AnswerInv
  <2>1. Init => RemoteInv
    BY DEF Init, RemoteInv
  <2>2. Init => UndisturbedInv
    <3>1. Init => Len(events) = 0
      BY DEF Init
    <3> QED
      BY <3>1 DEF Init, UndisturbedInv, QueuedInv, ToldInv
  <2> QED
    BY <2>1, <2>2, TypeInit, OneKindInit DEF AnswerInv
<1>2. AnswerInv /\ [Next]_vars => AnswerInv'
  BY TypeStep, OneKindStep, RemoteStep, UndisturbedStep DEF AnswerInv
<1> QED
  BY <1>1, <1>2, PTL DEF Spec

(***************************************************************************)
(* As long as nothing befalls the pending requests, requests_ holds        *)
(* exactly those that the application has to answer.                       *)
(***************************************************************************)
THEOREM PendingRequestsKnown == Spec => []PendingAreTheUnanswered
<1>1. AnswerInv => PendingAreTheUnanswered
  BY DEF AnswerInv, UndisturbedInv, PendingAreTheUnanswered
<1> QED
  BY <1>1, AnswerInvariant, PTL

(***************************************************************************)
(* Under the same conditions every answer carries the handle that its      *)
(* device waits for.                                                       *)
(***************************************************************************)
THEOREM AnswersAlwaysFit == Spec => []AnswerFitsRequest
<1>1. AnswerInv => AnswerFitsRequest
  BY DEF AnswerInv, UndisturbedInv, AnswerFitsRequest
<1> QED
  BY <1>1, AnswerInvariant, PTL
=============================================================================
