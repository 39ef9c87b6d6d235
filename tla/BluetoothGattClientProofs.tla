---------------------- MODULE BluetoothGattClientProofs ----------------------
(***************************************************************************)
(* Proofs about the GATT client: for every set of application threads and  *)
(* request types, every number of reports under way and of changes of the  *)
(* remote services, the request under way is the one the client knows of,  *)
(* no flag is left behind, and the copy of the services is the latest.     *)
(***************************************************************************)
EXTENDS BluetoothGattClient, FiniteSetTheorems, TLAPS

-----------------------------------------------------------------------------
(***************************************************************************)
(* The inductive invariant                                                 *)
(***************************************************************************)
AnswerKinds == {"charRead", "charWrite", "descRead", "descWrite"}
Kinds == AnswerKinds \cup {"connected", "disconnected", "disconnecting", "discovered",
                           "changed", "notification"}

TypeOK ==
  /\ serviceUp \in BOOLEAN /\ wanted \in BOOLEAN /\ link \in BOOLEAN
  /\ atService \in Seq(RequestType)
  /\ discovering \in BOOLEAN
  /\ events \in Seq(Kinds)
  /\ isGetServiceYet \in BOOLEAN /\ isRegisterSucceeded \in BOOLEAN
  /\ connectionState \in {"disconnected", "connected", "disconnecting"}
  /\ gattServices \in {"none", "old", "latest"}
  /\ doing \in BOOLEAN /\ type \in RequestType \cup {"charRead", "charWrite"}
  /\ isDiscovering \in BOOLEAN
  /\ connStateMutex \in Clients \cup {NoThread}
  /\ discoverMutex \in Clients \cup {NoThread}
  /\ thread \in [Clients -> {"idle", "lock", "discoverWait", "discover", "refused", "told",
                             "self", "getWait", "get", "mark"}]
  /\ callback \in {"idle", "discoverComplete", "requestReset", "setState", "notifying",
                   "self"}
  /\ notifier \in {"none", "calling", "self"}
  /\ gone \in BOOLEAN /\ overtaken \in BOOLEAN /\ raced \in BOOLEAN

\* connStateMutex_ is held through a discovery, discoverInformation_.mutex_
\* through a retrieval, which starts only while there is no copy
LockInv ==
  \A t \in Clients :
    /\ thread[t] \in {"discoverWait", "discover", "refused", "told", "self"} <=>
         connStateMutex = t
    /\ thread[t] \in {"get", "mark"} <=> discoverMutex = t
    /\ thread[t] \in {"get", "mark"} => ~isGetServiceYet

\* until the service dies or Close is called the client stays registered once
\* it was; before that nothing happens
RegisteredInv ==
  ~gone =>
    /\ serviceUp
    /\ ~isRegisterSucceeded =>
         /\ ~wanted /\ ~link /\ ~discovering
         /\ atService = <<>> /\ events = <<>>
         /\ connectionState = "disconnected"
         /\ connStateMutex \notin Clients

\* a report of a connection that is lost is followed by the report of the loss
LossReported ==
  \A i \in 1 .. Len(events) : events[i] = "connected" =>
    link \/ \E j \in i + 1 .. Len(events) : events[j] = "disconnected"

LinkInv ==
  ~gone =>
    /\ LossReported
    /\ connectionState = "connected" =>
         link \/ DisconnectionPending({"discoverComplete", "requestReset", "setState"})

\* at most one request is under way, and it is the one that is known
RequestInv ==
  ~gone /\ ~overtaken =>
    /\ RequestUnderway => doing
    /\ \A i \in Answers : events[i] = ReportOf(type)
    /\ \A i \in 1 .. Len(atService) : ReportOf(atService[i]) = ReportOf(type)
    /\ \A i, j \in Answers : i = j
    /\ Answers # {} => atService = <<>>
    /\ Len(atService) <= 1

\* at most one discovery is under way: with a thread, with the service, or reported
DiscoveryInv ==
  ~gone /\ ~overtaken =>
    /\ DiscoveryUnderway => isDiscovering
    /\ discovering => ~Pending({"discovered"})
    /\ discovering \/ Pending({"discovered"}) =>
         \A t \in Clients : thread[t] \notin {"discover", "refused"}
    /\ \A i, j \in 1 .. Len(events) :
         events[i] = "discovered" /\ events[j] = "discovered" => i = j

FlagInv ==
  ~gone =>
    /\ doing => RequestUnderway \/ DisconnectionPending({"discoverComplete",
                                                         "requestReset"})
    /\ isDiscovering => DiscoveryUnderway \/ DisconnectionPending({"discoverComplete"})

\* the copy is complete, or about to be marked so
HasCopy == isGetServiceYet \/ (gattServices # "none" /\ \E t \in Clients : thread[t] = "mark")

CopyInv ==
  ~gone /\ ~raced /\ HasCopy =>
    /\ gattServices = "latest" \/ Pending({"changed", "disconnected"})
    /\ link \/ Pending({"disconnected"})

IInv == /\ TypeOK /\ LockInv /\ RegisteredInv /\ LinkInv /\ RequestInv
        /\ DiscoveryInv /\ FlagInv /\ CopyInv

-----------------------------------------------------------------------------
(***************************************************************************)
(* Reports that are sent and handled                                       *)
(***************************************************************************)
Appended(e) ==
  /\ events' \in Seq(Kinds)
  /\ Len(events) \in Nat /\ Len(events') = Len(events) + 1
  /\ events'[Len(events) + 1] = e
  /\ \A i \in 1 .. Len(events) : events'[i] = events[i]
  /\ \A kinds : Pending(kinds)' <=> Pending(kinds) \/ e \in kinds

Handled(e) ==
  /\ events' \in Seq(Kinds)
  /\ Len(events) \in Nat \ {0} /\ Len(events') = Len(events) - 1
  /\ events[1] = e
  /\ \A i \in 1 .. Len(events') : events'[i] = events[i + 1]
  /\ \A kinds : Pending(kinds) <=> Pending(kinds)' \/ e \in kinds

LEMMA ReportEffect ==
  ASSUME TypeOK, NEW e \in Kinds, Report(e)
  PROVE  Appended(e)
<1>1. events \in Seq(Kinds) /\ events' = Append(events, e)
  BY DEF TypeOK, Report
<1>2. /\ events' \in Seq(Kinds)
      /\ Len(events) \in Nat /\ Len(events') = Len(events) + 1
      /\ events'[Len(events) + 1] = e
      /\ \A i \in 1 .. Len(events) : events'[i] = events[i]
  BY <1>1
<1>3. ASSUME NEW kinds
      PROVE  Pending(kinds)' <=> Pending(kinds) \/ e \in kinds
  BY <1>2 DEF Pending
<1>. QED BY <1>2, <1>3 DEF Appended

LEMMA HandleEffect ==
  ASSUME TypeOK, NEW e, NextReport(e), events' = Tail(events)
  PROVE  Handled(e)
<1>1. events \in Seq(Kinds) /\ events # <<>> /\ e = Head(events)
  BY DEF TypeOK, NextReport
<1>2. /\ events' \in Seq(Kinds)
      /\ Len(events) \in Nat \ {0} /\ Len(events') = Len(events) - 1
      /\ events[1] = e
      /\ \A i \in 1 .. Len(events') : events'[i] = events[i + 1]
  BY <1>1
<1>3. ASSUME NEW kinds, Pending(kinds)
      PROVE  Pending(kinds)' \/ e \in kinds
  <2>1. PICK i \in 1 .. Len(events) : events[i] \in kinds
    BY <1>3 DEF Pending
  <2>2. CASE i = 1
    BY <1>2, <2>1, <2>2
  <2>3. CASE i # 1
    <3>1. i - 1 \in 1 .. Len(events') /\ events'[i - 1] = events[i]
      BY <1>2, <2>3
    <3>. QED BY <2>1, <3>1 DEF Pending
  <2>. QED BY <2>2, <2>3
<1>4. ASSUME NEW kinds, Pending(kinds)' \/ e \in kinds
      PROVE  Pending(kinds)
  BY <1>2, <1>4 DEF Pending
<1>. QED BY <1>2, <1>3, <1>4 DEF Handled

\* reports of answers are told from the others
LEMMA ReportKinds ==
  /\ Reports \subseteq AnswerKinds
  /\ AnswerKinds \subseteq Kinds
  /\ \A ty \in RequestType : ReportOf(ty) \in Reports
BY GattClientAssumption DEF Reports, ReportOf, AnswerKinds, Kinds

\* the order of connections and losses survives
LEMMA AppendedLoss ==
  ASSUME NEW e, Appended(e), LossReported, link' = link, e = "connected" => link
  PROVE  LossReported'
<1>. SUFFICES ASSUME NEW i \in 1 .. Len(events'), events'[i] = "connected", ~link
              PROVE  \E j \in i + 1 .. Len(events') : events'[j] = "disconnected"
  BY DEF LossReported
<1>1. i \in 1 .. Len(events) /\ events[i] = "connected"
  BY DEF Appended
<1>2. PICK j \in i + 1 .. Len(events) : events[j] = "disconnected"
  BY <1>1 DEF LossReported
<1>3. j \in 1 .. Len(events) /\ j \in i + 1 .. Len(events')
  BY <1>1, <1>2 DEF Appended
<1>. QED BY <1>2, <1>3 DEF Appended

LEMMA HandledLoss ==
  ASSUME NEW e, Handled(e), LossReported, link' = link
  PROVE  /\ LossReported'
         /\ e = "connected" => link \/ Pending({"disconnected"})'
<1>1. ASSUME NEW i \in 1 .. Len(events), events[i] = "connected", ~link
      PROVE  \E j \in 1 .. Len(events') : j >= i /\ events'[j] = "disconnected"
  <2>1. PICK j \in i + 1 .. Len(events) : events[j] = "disconnected"
    BY <1>1 DEF LossReported
  <2>2. j - 1 \in 1 .. Len(events') /\ j - 1 >= i /\ (j - 1) + 1 = j
    BY <1>1, <2>1 DEF Handled
  <2>. QED BY <2>1, <2>2 DEF Handled
<1>2. ASSUME NEW i \in 1 .. Len(events'), events'[i] = "connected", ~link
      PROVE  \E j \in i + 1 .. Len(events') : events'[j] = "disconnected"
  <2>1. i + 1 \in 1 .. Len(events) /\ events[i + 1] = "connected"
    BY <1>2 DEF Handled
  <2>. QED BY <1>1, <1>2, <2>1
<1>3. ASSUME e = "connected", ~link
      PROVE  Pending({"disconnected"})'
  <2>1. 1 \in 1 .. Len(events) /\ events[1] = "connected"
    BY <1>3 DEF Handled
  <2>. QED BY <1>1, <1>3, <2>1 DEF Pending
<1>. QED BY <1>2, <1>3 DEF LossReported

LEMMA UnderwayIsPending ==
  /\ RequestUnderway <=> atService # <<>> \/ Pending(Reports)
  /\ RequestUnderway' <=> atService' # <<>> \/ Pending(Reports)'
BY DEF RequestUnderway, Answers, Pending

LEMMA NoThreadIsNone == NoThread \notin Clients
BY GattClientAssumption

-----------------------------------------------------------------------------
(***************************************************************************)
(* The service and the remote device                                       *)
(***************************************************************************)
LEMMA LinkUpStep ==
  ASSUME IInv, LinkUp
  PROVE  IInv'
<1>. USE NoThreadIsNone DEF IInv
<1>1. Appended("connected")
  BY ReportEffect DEF LinkUp, Kinds
<1>. USE <1>1
<1>2. TypeOK'
  BY DEF TypeOK, LinkUp, Appended, serviceVars, clientVars, servicesVars, requestVars,
       stateVars, lockVars, historyVars
<1>3. LockInv'
  BY DEF LockInv, TypeOK, LinkUp, serviceVars, clientVars, servicesVars, requestVars,
       stateVars, lockVars, historyVars
<1>4. RegisteredInv'
  BY DEF RegisteredInv, TypeOK, LinkUp, Appended, serviceVars, clientVars, servicesVars,
       requestVars, stateVars, lockVars, historyVars
<1>5. LinkInv'
  BY DEF LinkInv, LossReported, LinkUp
<1>6. RequestInv'
  BY ReportKinds DEF RequestInv, RequestUnderway, Answers, AnswerKinds, LinkUp, Appended,
       serviceVars, clientVars, servicesVars, requestVars, stateVars, lockVars,
       historyVars
<1>7. DiscoveryInv'
  BY ReportKinds DEF DiscoveryInv, DiscoveryUnderway, AnswerKinds, LinkUp, Appended,
       serviceVars, clientVars, servicesVars, requestVars, stateVars, lockVars,
       historyVars
<1>8. FlagInv'
  BY ReportKinds, UnderwayIsPending DEF FlagInv, AnswerKinds, DiscoveryUnderway,
       DisconnectionPending, LinkUp, Appended, serviceVars, clientVars, servicesVars,
       requestVars, stateVars, lockVars, historyVars
<1>9. CopyInv'
  BY ReportKinds DEF CopyInv, HasCopy, AnswerKinds, LinkUp, Appended, serviceVars,
       clientVars, servicesVars, requestVars, stateVars, lockVars, historyVars
<1>. QED BY <1>2, <1>3, <1>4, <1>5, <1>6, <1>7, <1>8, <1>9

LEMMA LinkDownStep ==
  ASSUME IInv, LinkDown
  PROVE  IInv'
<1>. USE NoThreadIsNone DEF IInv
<1>1. Appended("disconnected")
  BY ReportEffect DEF LinkDown, Kinds
<1>. USE <1>1
<1>2. TypeOK'
  <2>1. UNCHANGED <<serviceUp, isGetServiceYet, gattServices, doing, type,
                    isRegisterSucceeded, connectionState, isDiscovering,
                    connStateMutex, discoverMutex, thread, callback, notifier, gone,
                    overtaken, raced>>
    BY DEF LinkDown, serviceVars, clientVars, servicesVars, requestVars, stateVars,
         lockVars, historyVars
  <2>2. atService' \in Seq(RequestType)
    BY DEF LinkDown
  <2>3. wanted' \in BOOLEAN /\ link' \in BOOLEAN /\ discovering' \in BOOLEAN
    BY DEF LinkDown, TypeOK
  <2>4. events' \in Seq(Kinds)
    BY DEF Appended
  <2>. QED BY <2>1, <2>2, <2>3, <2>4 DEF TypeOK
<1>3. LockInv'
  BY DEF LockInv, TypeOK, LinkDown, serviceVars, clientVars, servicesVars, requestVars,
       stateVars, lockVars, historyVars
<1>4. RegisteredInv'
  BY DEF RegisteredInv, TypeOK, LinkDown, Appended, serviceVars, clientVars, servicesVars,
       requestVars, stateVars, lockVars, historyVars
<1>5. LinkInv'
  <2>1. LossReported'
    <3>. SUFFICES ASSUME NEW i \in 1 .. Len(events'), events'[i] = "connected"
                  PROVE  \E j \in i + 1 .. Len(events') : events'[j] = "disconnected"
      BY DEF LossReported
    <3>1. i # Len(events) + 1 /\ i \in Nat
      BY DEF Appended
    <3>2. Len(events) + 1 \in i + 1 .. Len(events')
      BY <3>1 DEF Appended
    <3>. QED BY <3>2 DEF Appended
  <2>. QED BY <2>1 DEF LinkInv, DisconnectionPending, Appended
<1>6. RequestInv'
  BY ReportKinds DEF RequestInv, RequestUnderway, Answers, AnswerKinds, LinkDown,
       Appended, serviceVars, clientVars, servicesVars, requestVars, stateVars, lockVars,
       historyVars
<1>7. DiscoveryInv'
  BY ReportKinds DEF DiscoveryInv, DiscoveryUnderway, AnswerKinds, LinkDown, Appended,
       serviceVars, clientVars, servicesVars, requestVars, stateVars, lockVars,
       historyVars
<1>8. FlagInv'
  BY ReportKinds, UnderwayIsPending DEF FlagInv, AnswerKinds, DiscoveryUnderway,
       DisconnectionPending, LinkDown, Appended, serviceVars, clientVars, servicesVars,
       requestVars, stateVars, lockVars, historyVars
<1>9. CopyInv'
  BY ReportKinds DEF CopyInv, HasCopy, AnswerKinds, LinkDown, Appended, serviceVars,
       clientVars, servicesVars, requestVars, stateVars, lockVars, historyVars
<1>. QED BY <1>2, <1>3, <1>4, <1>5, <1>6, <1>7, <1>8, <1>9

LEMMA RespondStep ==
  ASSUME IInv, Respond
  PROVE  IInv'
<1>. USE NoThreadIsNone DEF IInv
<1>1. Appended(ReportOf(Head(atService))) /\ ReportOf(Head(atService)) \in Reports
  BY ReportEffect, ReportKinds DEF Respond, TypeOK
<1>. USE <1>1
<1>2. TypeOK'
  BY DEF TypeOK, Respond, Appended, serviceVars, clientVars, servicesVars, requestVars,
       stateVars, lockVars, historyVars
<1>3. LockInv'
  BY DEF LockInv, TypeOK, Respond, serviceVars, clientVars, servicesVars, requestVars,
       stateVars, lockVars, historyVars
<1>4. RegisteredInv'
  BY DEF RegisteredInv, TypeOK, Respond, Appended, serviceVars, clientVars, servicesVars,
       requestVars, stateVars, lockVars, historyVars
<1>5. LinkInv'
  <2>1. ReportOf(Head(atService)) # "connected"
    BY ReportKinds DEF AnswerKinds
  <2>. QED BY <2>1, AppendedLoss DEF LinkInv, DisconnectionPending, Appended, Respond,
       clientVars, stateVars, historyVars
<1>6. RequestInv'
  <2>. SUFFICES ASSUME ~gone, ~overtaken
                PROVE  RequestInv'
    BY DEF RequestInv, Respond, historyVars
  <2>1. atService \in Seq(RequestType) /\ atService # <<>> /\ Len(atService) <= 1
    BY DEF RequestInv, Respond, TypeOK
  <2>2. /\ atService' = <<>> /\ 1 \in 1 .. Len(atService)
        /\ Head(atService) = atService[1]
    BY <2>1 DEF Respond
  <2>3. Answers = {} /\ doing /\ ReportOf(Head(atService)) = ReportOf(type)
    BY <2>1, <2>2 DEF RequestInv, RequestUnderway
  <2>4. Answers' = {Len(events) + 1} /\ events'[Len(events) + 1] = ReportOf(type)
    BY <2>3 DEF Answers, Appended
  <2>5. UNCHANGED <<doing, type>>
    BY DEF Respond, clientVars, requestVars
  <2>. QED BY <2>2, <2>3, <2>4, <2>5 DEF RequestInv
<1>7. DiscoveryInv'
  BY ReportKinds DEF DiscoveryInv, DiscoveryUnderway, AnswerKinds, Respond, Appended,
       serviceVars, clientVars, servicesVars, requestVars, stateVars, lockVars,
       historyVars
<1>8. FlagInv'
  BY ReportKinds, UnderwayIsPending DEF FlagInv, AnswerKinds, DiscoveryUnderway,
       DisconnectionPending, Respond, Appended, serviceVars, clientVars, servicesVars,
       requestVars, stateVars, lockVars, historyVars
<1>9. CopyInv'
  BY ReportKinds DEF CopyInv, HasCopy, AnswerKinds, Respond, Appended, serviceVars,
       clientVars, servicesVars, requestVars, stateVars, lockVars, historyVars
<1>. QED BY <1>2, <1>3, <1>4, <1>5, <1>6, <1>7, <1>8, <1>9

LEMMA DiscoveredStep ==
  ASSUME IInv, Discovered
  PROVE  IInv'
<1>. USE NoThreadIsNone DEF IInv
<1>1. Appended("discovered")
  BY ReportEffect DEF Discovered, Kinds
<1>. USE <1>1
<1>2. TypeOK'
  <2>1. UNCHANGED <<serviceUp, wanted, link, atService, isGetServiceYet,
                    gattServices, doing, type, isRegisterSucceeded, connectionState,
                    isDiscovering, connStateMutex, discoverMutex, thread, callback,
                    notifier, gone, overtaken, raced>>
    BY DEF Discovered, serviceVars, clientVars, servicesVars, requestVars, stateVars,
         lockVars, historyVars
  <2>2. discovering' \in BOOLEAN
    BY DEF Discovered
  <2>3. events' \in Seq(Kinds)
    BY DEF Appended
  <2>. QED BY <2>1, <2>2, <2>3 DEF TypeOK
<1>3. LockInv'
  BY DEF LockInv, TypeOK, Discovered, serviceVars, clientVars, servicesVars, requestVars,
       stateVars, lockVars, historyVars
<1>4. RegisteredInv'
  BY DEF RegisteredInv, TypeOK, Discovered, Appended, serviceVars, clientVars,
       servicesVars, requestVars, stateVars, lockVars, historyVars
<1>5. LinkInv'
  BY AppendedLoss DEF LinkInv, DisconnectionPending, Discovered, Appended, serviceVars,
       clientVars, servicesVars, requestVars, stateVars, lockVars, historyVars
<1>6. RequestInv'
  BY ReportKinds DEF RequestInv, RequestUnderway, Answers, AnswerKinds, Discovered,
       Appended, serviceVars, clientVars, servicesVars, requestVars, stateVars, lockVars,
       historyVars
<1>7. DiscoveryInv'
  <2>. SUFFICES ASSUME ~gone, ~overtaken
                PROVE  DiscoveryInv'
    BY DEF DiscoveryInv, Discovered, historyVars
  <2>1. discovering /\ ~discovering' /\ UNCHANGED <<thread, isDiscovering>>
    BY DEF Discovered, clientVars, stateVars
  <2>2. /\ isDiscovering /\ ~Pending({"discovered"})
        /\ \A t \in Clients : thread[t] \notin {"discover", "refused"}
    BY <2>1 DEF DiscoveryInv, DiscoveryUnderway
  <2>3. \A i \in 1 .. Len(events') : events'[i] = "discovered" => i = Len(events) + 1
    BY <2>2 DEF Appended, Pending
  <2>. QED BY <2>1, <2>2, <2>3 DEF DiscoveryInv, DiscoveryUnderway
<1>8. FlagInv'
  BY ReportKinds, UnderwayIsPending DEF FlagInv, AnswerKinds, DiscoveryUnderway,
       DisconnectionPending, Discovered, Appended, serviceVars, clientVars, servicesVars,
       requestVars, stateVars, lockVars, historyVars
<1>9. CopyInv'
  BY ReportKinds DEF CopyInv, HasCopy, AnswerKinds, Discovered, Appended, serviceVars,
       clientVars, servicesVars, requestVars, stateVars, lockVars, historyVars
<1>. QED BY <1>2, <1>3, <1>4, <1>5, <1>6, <1>7, <1>8, <1>9

LEMMA RemoteServicesChangeStep ==
  ASSUME IInv, RemoteServicesChange
  PROVE  IInv'
<1>. USE NoThreadIsNone DEF IInv
<1>1. (Appended("changed") /\ link) \/ (UNCHANGED events /\ ~link)
  BY ReportEffect DEF RemoteServicesChange, Kinds, TypeOK
<1>. USE <1>1
<1>2. TypeOK'
  BY DEF TypeOK, RemoteServicesChange, Appended, serviceVars, clientVars, servicesVars,
       requestVars, stateVars, lockVars, historyVars
<1>3. LockInv'
  BY DEF LockInv, TypeOK, RemoteServicesChange, serviceVars, clientVars, servicesVars,
       requestVars, stateVars, lockVars, historyVars
<1>4. RegisteredInv'
  BY DEF RegisteredInv, TypeOK, RemoteServicesChange, Appended, serviceVars, clientVars,
       servicesVars, requestVars, stateVars, lockVars, historyVars
<1>5. LinkInv'
  BY DEF LinkInv, DisconnectionPending, RemoteServicesChange, Appended, Pending,
       LossReported, serviceVars, clientVars, servicesVars, requestVars, stateVars,
       lockVars, historyVars
<1>6. RequestInv'
  BY ReportKinds DEF RequestInv, RequestUnderway, Answers, AnswerKinds,
       RemoteServicesChange, Appended, serviceVars, clientVars, servicesVars, requestVars,
       stateVars, lockVars, historyVars
<1>7. DiscoveryInv'
  BY ReportKinds DEF DiscoveryInv, DiscoveryUnderway, AnswerKinds, RemoteServicesChange,
       Appended, Pending, LossReported, serviceVars, clientVars, servicesVars,
       requestVars, stateVars, lockVars, historyVars
<1>8. FlagInv'
  BY ReportKinds, UnderwayIsPending DEF FlagInv, AnswerKinds, DiscoveryUnderway,
       DisconnectionPending, RemoteServicesChange, Appended, Pending, LossReported,
       serviceVars, clientVars, servicesVars, requestVars, stateVars, lockVars,
       historyVars
<1>9. CopyInv'
  BY ReportKinds DEF CopyInv, HasCopy, AnswerKinds, RemoteServicesChange, Appended,
       Pending, LossReported, serviceVars, clientVars, servicesVars, requestVars,
       stateVars, lockVars, historyVars
<1>. QED BY <1>2, <1>3, <1>4, <1>5, <1>6, <1>7, <1>8, <1>9

LEMMA RemoteNotifiesStep ==
  ASSUME IInv, RemoteNotifies
  PROVE  IInv'
<1>. USE NoThreadIsNone DEF IInv
<1>1. Appended("notification")
  BY ReportEffect DEF RemoteNotifies, Kinds
<1>. USE <1>1
<1>2. TypeOK'
  BY DEF TypeOK, RemoteNotifies, Appended, serviceVars, clientVars, servicesVars,
       requestVars, stateVars, lockVars, historyVars
<1>3. LockInv'
  BY DEF LockInv, TypeOK, RemoteNotifies, serviceVars, clientVars, servicesVars,
       requestVars, stateVars, lockVars, historyVars
<1>4. RegisteredInv'
  BY DEF RegisteredInv, TypeOK, RemoteNotifies, Appended, serviceVars, clientVars,
       servicesVars, requestVars, stateVars, lockVars, historyVars
<1>5. LinkInv'
  BY AppendedLoss DEF LinkInv, DisconnectionPending, RemoteNotifies, Appended,
       serviceVars, clientVars, servicesVars, requestVars, stateVars, lockVars,
       historyVars
<1>6. RequestInv'
  BY ReportKinds DEF RequestInv, RequestUnderway, Answers, AnswerKinds, RemoteNotifies,
       Appended, serviceVars, clientVars, servicesVars, requestVars, stateVars, lockVars,
       historyVars
<1>7. DiscoveryInv'
  BY ReportKinds DEF DiscoveryInv, DiscoveryUnderway, AnswerKinds, RemoteNotifies,
       Appended, serviceVars, clientVars, servicesVars, requestVars, stateVars, lockVars,
       historyVars
<1>8. FlagInv'
  BY ReportKinds, UnderwayIsPending DEF FlagInv, AnswerKinds, DiscoveryUnderway,
       DisconnectionPending, RemoteNotifies, Appended, serviceVars, clientVars,
       servicesVars, requestVars, stateVars, lockVars, historyVars
<1>9. CopyInv'
  BY ReportKinds DEF CopyInv, HasCopy, AnswerKinds, RemoteNotifies, Appended, serviceVars,
       clientVars, servicesVars, requestVars, stateVars, lockVars, historyVars
<1>. QED BY <1>2, <1>3, <1>4, <1>5, <1>6, <1>7, <1>8, <1>9

LEMMA ServiceDiesStep ==
  ASSUME IInv, ServiceDies
  PROVE  IInv'
<1>. USE NoThreadIsNone DEF IInv
<1>2. TypeOK'
  <2>1. UNCHANGED <<events, isGetServiceYet, gattServices, doing, type,
                    isRegisterSucceeded, connectionState, isDiscovering,
                    connStateMutex, discoverMutex, thread, callback, notifier>>
    BY DEF ServiceDies, ServiceLosesClient, serviceVars, clientVars, servicesVars,
         requestVars, stateVars, lockVars, historyVars
  <2>2. atService' \in Seq(RequestType)
    BY DEF ServiceDies, ServiceLosesClient
  <2>3. /\ wanted' \in BOOLEAN /\ link' \in BOOLEAN /\ discovering' \in BOOLEAN
        /\ gone' \in BOOLEAN /\ overtaken' \in BOOLEAN /\ raced' \in BOOLEAN
    BY DEF ServiceDies, ServiceLosesClient
  <2>4. serviceUp' \in BOOLEAN
    BY DEF ServiceDies
  <2>. QED BY <2>1, <2>2, <2>3, <2>4 DEF TypeOK
<1>3. LockInv'
  BY DEF LockInv, TypeOK, ServiceDies, ServiceLosesClient, serviceVars, clientVars,
       servicesVars, requestVars, stateVars, lockVars, historyVars
<1>4. RegisteredInv'
  BY DEF RegisteredInv, TypeOK, ServiceDies, ServiceLosesClient, serviceVars, clientVars,
       servicesVars, requestVars, stateVars, lockVars, historyVars
<1>5. LinkInv'
  BY DEF LinkInv, DisconnectionPending, ServiceDies, ServiceLosesClient, Pending,
       LossReported, serviceVars, clientVars, servicesVars, requestVars, stateVars,
       lockVars, historyVars
<1>6. RequestInv'
  BY DEF RequestInv, RequestUnderway, Answers, AnswerKinds, ServiceDies,
       ServiceLosesClient, serviceVars, clientVars, servicesVars, requestVars, stateVars,
       lockVars, historyVars
<1>7. DiscoveryInv'
  BY DEF DiscoveryInv, DiscoveryUnderway, AnswerKinds, ServiceDies, ServiceLosesClient,
       Pending, LossReported, serviceVars, clientVars, servicesVars, requestVars,
       stateVars, lockVars, historyVars
<1>8. FlagInv'
  BY UnderwayIsPending DEF FlagInv, AnswerKinds, DiscoveryUnderway, DisconnectionPending,
       ServiceDies, ServiceLosesClient, Pending, LossReported, serviceVars, clientVars,
       servicesVars, requestVars, stateVars, lockVars, historyVars
<1>9. CopyInv'
  BY DEF CopyInv, HasCopy, AnswerKinds, ServiceDies, ServiceLosesClient, Pending,
       LossReported, serviceVars, clientVars, servicesVars, requestVars, stateVars,
       lockVars, historyVars
<1>. QED BY <1>2, <1>3, <1>4, <1>5, <1>6, <1>7, <1>8, <1>9

LEMMA ServiceStartsStep ==
  ASSUME IInv, ServiceStarts
  PROVE  IInv'
<1>. USE NoThreadIsNone DEF IInv
<1>2. TypeOK'
  BY DEF TypeOK, ServiceStarts, serviceVars, clientVars, servicesVars, requestVars,
       stateVars, lockVars, historyVars
<1>3. LockInv'
  BY DEF LockInv, TypeOK, ServiceStarts, serviceVars, clientVars, servicesVars,
       requestVars, stateVars, lockVars, historyVars
<1>4. RegisteredInv'
  BY DEF RegisteredInv, TypeOK, ServiceStarts, serviceVars, clientVars, servicesVars,
       requestVars, stateVars, lockVars, historyVars
<1>5. LinkInv'
  BY DEF LinkInv, DisconnectionPending, ServiceStarts, Pending, LossReported, serviceVars,
       clientVars, servicesVars, requestVars, stateVars, lockVars, historyVars
<1>6. RequestInv'
  BY DEF RequestInv, RequestUnderway, Answers, AnswerKinds, ServiceStarts, serviceVars,
       clientVars, servicesVars, requestVars, stateVars, lockVars, historyVars
<1>7. DiscoveryInv'
  BY DEF DiscoveryInv, DiscoveryUnderway, AnswerKinds, ServiceStarts, Pending,
       LossReported, serviceVars, clientVars, servicesVars, requestVars, stateVars,
       lockVars, historyVars
<1>8. FlagInv'
  BY UnderwayIsPending DEF FlagInv, AnswerKinds, DiscoveryUnderway, DisconnectionPending,
       ServiceStarts, Pending, LossReported, serviceVars, clientVars, servicesVars,
       requestVars, stateVars, lockVars, historyVars
<1>9. CopyInv'
  BY DEF CopyInv, HasCopy, AnswerKinds, ServiceStarts, Pending, LossReported, serviceVars,
       clientVars, servicesVars, requestVars, stateVars, lockVars, historyVars
<1>. QED BY <1>2, <1>3, <1>4, <1>5, <1>6, <1>7, <1>8, <1>9

LEMMA TurnOffStep ==
  ASSUME IInv, TurnOff
  PROVE  IInv'
<1>. USE NoThreadIsNone DEF IInv
<1>2. TypeOK'
  <2>1. UNCHANGED <<serviceUp, wanted, link, atService, discovering, events,
                    isGetServiceYet, gattServices, doing, type, connectionState,
                    isDiscovering, connStateMutex, discoverMutex, thread, callback,
                    notifier, gone, overtaken, raced>>
    BY DEF TurnOff, serviceVars, clientVars, servicesVars, requestVars, stateVars,
         lockVars, historyVars
  <2>2. isRegisterSucceeded' \in BOOLEAN
    BY DEF TurnOff
  <2>. QED BY <2>1, <2>2 DEF TypeOK
<1>3. LockInv'
  BY DEF LockInv, TypeOK, TurnOff, serviceVars, clientVars, servicesVars, requestVars,
       stateVars, lockVars, historyVars
<1>4. RegisteredInv'
  BY DEF RegisteredInv, TypeOK, TurnOff, serviceVars, clientVars, servicesVars,
       requestVars, stateVars, lockVars, historyVars
<1>5. LinkInv'
  BY DEF LinkInv, DisconnectionPending, TurnOff, Pending, LossReported, serviceVars,
       clientVars, servicesVars, requestVars, stateVars, lockVars, historyVars
<1>6. RequestInv'
  BY DEF RequestInv, RequestUnderway, Answers, AnswerKinds, TurnOff, serviceVars,
       clientVars, servicesVars, requestVars, stateVars, lockVars, historyVars
<1>7. DiscoveryInv'
  BY DEF DiscoveryInv, DiscoveryUnderway, AnswerKinds, TurnOff, Pending, LossReported,
       serviceVars, clientVars, servicesVars, requestVars, stateVars, lockVars,
       historyVars
<1>8. FlagInv'
  BY UnderwayIsPending DEF FlagInv, AnswerKinds, DiscoveryUnderway, DisconnectionPending,
       TurnOff, Pending, LossReported, serviceVars, clientVars, servicesVars, requestVars,
       stateVars, lockVars, historyVars
<1>9. CopyInv'
  BY DEF CopyInv, HasCopy, AnswerKinds, TurnOff, Pending, LossReported, serviceVars,
       clientVars, servicesVars, requestVars, stateVars, lockVars, historyVars
<1>. QED BY <1>2, <1>3, <1>4, <1>5, <1>6, <1>7, <1>8, <1>9

-----------------------------------------------------------------------------
(***************************************************************************)
(* Calls of the application                                                *)
(***************************************************************************)
LEMMA ConnectStep ==
  ASSUME IInv, Connect
  PROVE  IInv'
<1>. USE NoThreadIsNone DEF IInv
<1>2. TypeOK'
  BY DEF TypeOK, Connect, serviceVars, clientVars, servicesVars, requestVars, stateVars,
       lockVars, historyVars
<1>3. LockInv'
  BY DEF LockInv, TypeOK, Connect, serviceVars, clientVars, servicesVars, requestVars,
       stateVars, lockVars, historyVars
<1>4. RegisteredInv'
  BY DEF RegisteredInv, TypeOK, Connect, serviceVars, clientVars, servicesVars,
       requestVars, stateVars, lockVars, historyVars
<1>5. LinkInv'
  BY DEF LinkInv, DisconnectionPending, Connect, Pending, LossReported, serviceVars,
       clientVars, servicesVars, requestVars, stateVars, lockVars, historyVars
<1>6. RequestInv'
  BY DEF RequestInv, RequestUnderway, Answers, AnswerKinds, Connect, serviceVars,
       clientVars, servicesVars, requestVars, stateVars, lockVars, historyVars
<1>7. DiscoveryInv'
  BY DEF DiscoveryInv, DiscoveryUnderway, AnswerKinds, Connect, Pending, LossReported,
       serviceVars, clientVars, servicesVars, requestVars, stateVars, lockVars,
       historyVars
<1>8. FlagInv'
  BY UnderwayIsPending DEF FlagInv, AnswerKinds, DiscoveryUnderway, DisconnectionPending,
       Connect, Pending, LossReported, serviceVars, clientVars, servicesVars, requestVars,
       stateVars, lockVars, historyVars
<1>9. CopyInv'
  BY DEF CopyInv, HasCopy, AnswerKinds, Connect, Pending, LossReported, serviceVars,
       clientVars, servicesVars, requestVars, stateVars, lockVars, historyVars
<1>. QED BY <1>2, <1>3, <1>4, <1>5, <1>6, <1>7, <1>8, <1>9

LEMMA DisconnectStep ==
  ASSUME IInv, Disconnect
  PROVE  IInv'
<1>. USE NoThreadIsNone DEF IInv
<1>1. (Appended("disconnecting") /\ link) \/ (UNCHANGED events /\ ~link)
  BY ReportEffect DEF Disconnect, Kinds, TypeOK
<1>. USE <1>1
<1>2. TypeOK'
  <2>1. UNCHANGED <<serviceUp, link, atService, discovering, isGetServiceYet,
                    gattServices, doing, type, isRegisterSucceeded, connectionState,
                    isDiscovering, connStateMutex, discoverMutex, thread, callback,
                    notifier, gone, overtaken, raced>>
    BY DEF Disconnect, serviceVars, clientVars, servicesVars, requestVars, stateVars,
         lockVars, historyVars
  <2>2. wanted' \in BOOLEAN
    BY DEF Disconnect
  <2>3. events' \in Seq(Kinds)
    BY DEF Appended, TypeOK
  <2>. QED BY <2>1, <2>2, <2>3 DEF TypeOK
<1>3. LockInv'
  BY DEF LockInv, TypeOK, Disconnect, serviceVars, clientVars, servicesVars, requestVars,
       stateVars, lockVars, historyVars
<1>4. RegisteredInv'
  BY DEF RegisteredInv, TypeOK, Disconnect, Appended, serviceVars, clientVars,
       servicesVars, requestVars, stateVars, lockVars, historyVars
<1>5. LinkInv'
  BY DEF LinkInv, DisconnectionPending, Disconnect, Appended, Pending, LossReported,
       serviceVars, clientVars, servicesVars, requestVars, stateVars, lockVars,
       historyVars
<1>6. RequestInv'
  BY ReportKinds DEF RequestInv, RequestUnderway, Answers, AnswerKinds, Disconnect,
       Appended, serviceVars, clientVars, servicesVars, requestVars, stateVars, lockVars,
       historyVars
<1>7. DiscoveryInv'
  <2>1. CASE Appended("disconnecting")
    BY <2>1, ReportKinds DEF DiscoveryInv, DiscoveryUnderway, AnswerKinds, Disconnect,
         Appended, serviceVars, clientVars, servicesVars, requestVars, stateVars,
         lockVars, historyVars
  <2>2. CASE UNCHANGED events
    BY <2>2 DEF DiscoveryInv, DiscoveryUnderway, Disconnect, Pending, serviceVars,
         clientVars, servicesVars, requestVars, stateVars, lockVars, historyVars
  <2>. QED BY <2>1, <2>2
<1>8. FlagInv'
  BY ReportKinds, UnderwayIsPending DEF FlagInv, AnswerKinds, DiscoveryUnderway,
       DisconnectionPending, Disconnect, Appended, Pending, LossReported, serviceVars,
       clientVars, servicesVars, requestVars, stateVars, lockVars, historyVars
<1>9. CopyInv'
  BY ReportKinds DEF CopyInv, HasCopy, AnswerKinds, Disconnect, Appended, Pending,
       LossReported, serviceVars, clientVars, servicesVars, requestVars, stateVars,
       lockVars, historyVars
<1>. QED BY <1>2, <1>3, <1>4, <1>5, <1>6, <1>7, <1>8, <1>9

LEMMA CloseStep ==
  ASSUME IInv, Close
  PROVE  IInv'
<1>. USE NoThreadIsNone DEF IInv
<1>2. TypeOK'
  <2>1. UNCHANGED <<serviceUp, events, isGetServiceYet, gattServices, doing,
                    type, connectionState, isDiscovering, connStateMutex,
                    discoverMutex, thread, callback, notifier>>
    BY DEF Close, ServiceLosesClient, serviceVars, clientVars, servicesVars, requestVars,
         stateVars, lockVars, historyVars
  <2>2. atService' \in Seq(RequestType)
    BY DEF Close, ServiceLosesClient
  <2>3. /\ wanted' \in BOOLEAN /\ link' \in BOOLEAN /\ discovering' \in BOOLEAN
        /\ gone' \in BOOLEAN /\ overtaken' \in BOOLEAN /\ raced' \in BOOLEAN
    BY DEF Close, ServiceLosesClient
  <2>4. isRegisterSucceeded' \in BOOLEAN
    BY DEF Close
  <2>. QED BY <2>1, <2>2, <2>3, <2>4 DEF TypeOK
<1>3. LockInv'
  BY DEF LockInv, TypeOK, Close, ServiceLosesClient, serviceVars, clientVars,
       servicesVars, requestVars, stateVars, lockVars, historyVars
<1>4. RegisteredInv'
  BY DEF RegisteredInv, TypeOK, Close, ServiceLosesClient, serviceVars, clientVars,
       servicesVars, requestVars, stateVars, lockVars, historyVars
<1>5. LinkInv'
  BY DEF LinkInv, DisconnectionPending, Close, ServiceLosesClient, Pending, LossReported,
       serviceVars, clientVars, servicesVars, requestVars, stateVars, lockVars,
       historyVars
<1>6. RequestInv'
  BY DEF RequestInv, RequestUnderway, Answers, AnswerKinds, Close, ServiceLosesClient,
       serviceVars, clientVars, servicesVars, requestVars, stateVars, lockVars,
       historyVars
<1>7. DiscoveryInv'
  BY DEF DiscoveryInv, DiscoveryUnderway, AnswerKinds, Close, ServiceLosesClient, Pending,
       LossReported, serviceVars, clientVars, servicesVars, requestVars, stateVars,
       lockVars, historyVars
<1>8. FlagInv'
  BY UnderwayIsPending DEF FlagInv, AnswerKinds, DiscoveryUnderway, DisconnectionPending,
       Close, ServiceLosesClient, Pending, LossReported, serviceVars, clientVars,
       servicesVars, requestVars, stateVars, lockVars, historyVars
<1>9. CopyInv'
  BY DEF CopyInv, HasCopy, AnswerKinds, Close, ServiceLosesClient, Pending, LossReported,
       serviceVars, clientVars, servicesVars, requestVars, stateVars, lockVars,
       historyVars
<1>. QED BY <1>2, <1>3, <1>4, <1>5, <1>6, <1>7, <1>8, <1>9

LEMMA RequestStep ==
  ASSUME IInv, NEW ty \in RequestType, Request(ty)
  PROVE  IInv'
<1>. USE NoThreadIsNone DEF IInv
<1>2. TypeOK'
  BY DEF TypeOK, Request, RequestAllowed, serviceVars, clientVars, servicesVars,
       requestVars, stateVars, lockVars, historyVars
<1>3. LockInv'
  BY DEF LockInv, TypeOK, Request, RequestAllowed, serviceVars, clientVars, servicesVars,
       requestVars, stateVars, lockVars, historyVars
<1>4. RegisteredInv'
  BY DEF RegisteredInv, TypeOK, Request, RequestAllowed, serviceVars, clientVars,
       servicesVars, requestVars, stateVars, lockVars, historyVars
<1>5. LinkInv'
  BY DEF LinkInv, DisconnectionPending, Request, RequestAllowed, Pending, LossReported,
       serviceVars, clientVars, servicesVars, requestVars, stateVars, lockVars,
       historyVars
<1>6. RequestInv'
  BY DEF RequestInv, RequestUnderway, Answers, AnswerKinds, Request, RequestAllowed,
       serviceVars, clientVars, servicesVars, requestVars, stateVars, lockVars,
       historyVars
<1>7. DiscoveryInv'
  BY DEF DiscoveryInv, DiscoveryUnderway, AnswerKinds, Request, RequestAllowed, Pending,
       LossReported, TypeOK, serviceVars, clientVars, servicesVars, requestVars,
       stateVars, lockVars, historyVars
<1>8. FlagInv'
  BY UnderwayIsPending DEF FlagInv, AnswerKinds, DiscoveryUnderway, DisconnectionPending,
       Request, RequestAllowed, Pending, LossReported, TypeOK, serviceVars, clientVars,
       servicesVars, requestVars, stateVars, lockVars, historyVars
<1>9. CopyInv'
  BY DEF CopyInv, HasCopy, AnswerKinds, Request, RequestAllowed, Pending, LossReported,
       TypeOK, serviceVars, clientVars, servicesVars, requestVars, stateVars, lockVars,
       historyVars
<1>. QED BY <1>2, <1>3, <1>4, <1>5, <1>6, <1>7, <1>8, <1>9

LEMMA WriteWithoutAnswerStep ==
  ASSUME IInv, WriteWithoutAnswer
  PROVE  IInv'
<1>. USE NoThreadIsNone DEF IInv
<1>2. TypeOK'
  BY DEF TypeOK, WriteWithoutAnswer, RequestAllowed, serviceVars, clientVars,
       servicesVars, requestVars, stateVars, lockVars, historyVars
<1>3. LockInv'
  BY DEF LockInv, TypeOK, WriteWithoutAnswer, RequestAllowed, serviceVars, clientVars,
       servicesVars, requestVars, stateVars, lockVars, historyVars
<1>4. RegisteredInv'
  BY DEF RegisteredInv, TypeOK, WriteWithoutAnswer, RequestAllowed, serviceVars,
       clientVars, servicesVars, requestVars, stateVars, lockVars, historyVars
<1>5. LinkInv'
  BY DEF LinkInv, DisconnectionPending, WriteWithoutAnswer, RequestAllowed, Pending,
       LossReported, serviceVars, clientVars, servicesVars, requestVars, stateVars,
       lockVars, historyVars
<1>6. RequestInv'
  BY DEF RequestInv, RequestUnderway, Answers, AnswerKinds, WriteWithoutAnswer,
       RequestAllowed, serviceVars, clientVars, servicesVars, requestVars, stateVars,
       lockVars, historyVars
<1>7. DiscoveryInv'
  BY DEF DiscoveryInv, DiscoveryUnderway, AnswerKinds, WriteWithoutAnswer, RequestAllowed,
       Pending, LossReported, serviceVars, clientVars, servicesVars, requestVars,
       stateVars, lockVars, historyVars
<1>8. FlagInv'
  BY UnderwayIsPending DEF FlagInv, AnswerKinds, DiscoveryUnderway, DisconnectionPending,
       WriteWithoutAnswer, RequestAllowed, Pending, LossReported, serviceVars, clientVars,
       servicesVars, requestVars, stateVars, lockVars, historyVars
<1>9. CopyInv'
  BY DEF CopyInv, HasCopy, AnswerKinds, WriteWithoutAnswer, RequestAllowed, Pending,
       LossReported, serviceVars, clientVars, servicesVars, requestVars, stateVars,
       lockVars, historyVars
<1>. QED BY <1>2, <1>3, <1>4, <1>5, <1>6, <1>7, <1>8, <1>9

LEMMA SetNotifyWithoutDescriptorStep ==
  ASSUME IInv, SetNotifyWithoutDescriptor
  PROVE  IInv'
<1>. USE NoThreadIsNone DEF IInv
<1>2. TypeOK'
  BY DEF TypeOK, SetNotifyWithoutDescriptor, serviceVars, clientVars, servicesVars,
       requestVars, stateVars, lockVars, historyVars
<1>3. LockInv'
  BY DEF LockInv, TypeOK, SetNotifyWithoutDescriptor, serviceVars, clientVars,
       servicesVars, requestVars, stateVars, lockVars, historyVars
<1>4. RegisteredInv'
  BY DEF RegisteredInv, TypeOK, SetNotifyWithoutDescriptor, serviceVars, clientVars,
       servicesVars, requestVars, stateVars, lockVars, historyVars
<1>5. LinkInv'
  BY DEF LinkInv, DisconnectionPending, SetNotifyWithoutDescriptor, Pending, LossReported,
       serviceVars, clientVars, servicesVars, requestVars, stateVars, lockVars,
       historyVars
<1>6. RequestInv'
  BY DEF RequestInv, RequestUnderway, Answers, AnswerKinds, SetNotifyWithoutDescriptor,
       serviceVars, clientVars, servicesVars, requestVars, stateVars, lockVars,
       historyVars
<1>7. DiscoveryInv'
  BY DEF DiscoveryInv, DiscoveryUnderway, AnswerKinds, SetNotifyWithoutDescriptor,
       Pending, LossReported, serviceVars, clientVars, servicesVars, requestVars,
       stateVars, lockVars, historyVars
<1>8. FlagInv'
  BY UnderwayIsPending DEF FlagInv, AnswerKinds, DiscoveryUnderway, DisconnectionPending,
       SetNotifyWithoutDescriptor, Pending, LossReported, serviceVars, clientVars,
       servicesVars, requestVars, stateVars, lockVars, historyVars
<1>9. CopyInv'
  BY DEF CopyInv, HasCopy, AnswerKinds, SetNotifyWithoutDescriptor, Pending, LossReported,
       serviceVars, clientVars, servicesVars, requestVars, stateVars, lockVars,
       historyVars
<1>. QED BY <1>2, <1>3, <1>4, <1>5, <1>6, <1>7, <1>8, <1>9

LEMMA NotifierReturnsStep ==
  ASSUME IInv, NotifierReturns
  PROVE  IInv'
<1>. USE NoThreadIsNone DEF IInv
<1>2. TypeOK'
  BY DEF TypeOK, NotifierReturns, serviceVars, clientVars, servicesVars, requestVars,
       stateVars, lockVars, historyVars
<1>3. LockInv'
  BY DEF LockInv, TypeOK, NotifierReturns, serviceVars, clientVars, servicesVars,
       requestVars, stateVars, lockVars, historyVars
<1>4. RegisteredInv'
  BY DEF RegisteredInv, TypeOK, NotifierReturns, serviceVars, clientVars, servicesVars,
       requestVars, stateVars, lockVars, historyVars
<1>5. LinkInv'
  BY DEF LinkInv, DisconnectionPending, NotifierReturns, Pending, LossReported,
       serviceVars, clientVars, servicesVars, requestVars, stateVars, lockVars,
       historyVars
<1>6. RequestInv'
  BY DEF RequestInv, RequestUnderway, Answers, AnswerKinds, NotifierReturns, serviceVars,
       clientVars, servicesVars, requestVars, stateVars, lockVars, historyVars
<1>7. DiscoveryInv'
  BY DEF DiscoveryInv, DiscoveryUnderway, AnswerKinds, NotifierReturns, Pending,
       LossReported, serviceVars, clientVars, servicesVars, requestVars, stateVars,
       lockVars, historyVars
<1>8. FlagInv'
  BY UnderwayIsPending DEF FlagInv, AnswerKinds, DiscoveryUnderway, DisconnectionPending,
       NotifierReturns, Pending, LossReported, serviceVars, clientVars, servicesVars,
       requestVars, stateVars, lockVars, historyVars
<1>9. CopyInv'
  BY DEF CopyInv, HasCopy, AnswerKinds, NotifierReturns, Pending, LossReported,
       serviceVars, clientVars, servicesVars, requestVars, stateVars, lockVars,
       historyVars
<1>. QED BY <1>2, <1>3, <1>4, <1>5, <1>6, <1>7, <1>8, <1>9

-----------------------------------------------------------------------------
(***************************************************************************)
(* Discovery and retrieval                                                 *)
(***************************************************************************)
LEMMA DiscoverServicesStep ==
  ASSUME IInv, NEW t \in Clients, DiscoverServices(t)
  PROVE  IInv'
<1>. USE NoThreadIsNone DEF IInv
<1>2. TypeOK'
  BY DEF TypeOK, DiscoverServices, serviceVars, clientVars, servicesVars, requestVars,
       stateVars, lockVars, historyVars
<1>3. LockInv'
  BY DEF LockInv, TypeOK, DiscoverServices, serviceVars, clientVars, servicesVars,
       requestVars, stateVars, lockVars, historyVars
<1>4. RegisteredInv'
  BY DEF RegisteredInv, TypeOK, DiscoverServices, serviceVars, clientVars, servicesVars,
       requestVars, stateVars, lockVars, historyVars
<1>5. LinkInv'
  BY DEF LinkInv, DisconnectionPending, DiscoverServices, Pending, LossReported,
       serviceVars, clientVars, servicesVars, requestVars, stateVars, lockVars,
       historyVars
<1>6. RequestInv'
  BY DEF RequestInv, RequestUnderway, Answers, AnswerKinds, DiscoverServices, serviceVars,
       clientVars, servicesVars, requestVars, stateVars, lockVars, historyVars
<1>7. DiscoveryInv'
  BY DEF DiscoveryInv, DiscoveryUnderway, AnswerKinds, DiscoverServices, Pending,
       LossReported, TypeOK, serviceVars, clientVars, servicesVars, requestVars,
       stateVars, lockVars, historyVars
<1>8. FlagInv'
  BY UnderwayIsPending DEF FlagInv, AnswerKinds, DiscoveryUnderway, DisconnectionPending,
       DiscoverServices, Pending, LossReported, TypeOK, serviceVars, clientVars,
       servicesVars, requestVars, stateVars, lockVars, historyVars
<1>9. CopyInv'
  BY DEF CopyInv, HasCopy, AnswerKinds, DiscoverServices, Pending, LossReported, TypeOK,
       serviceVars, clientVars, servicesVars, requestVars, stateVars, lockVars,
       historyVars
<1>. QED BY <1>2, <1>3, <1>4, <1>5, <1>6, <1>7, <1>8, <1>9

LEMMA DiscoverLockStep ==
  ASSUME IInv, NEW t \in Clients, DiscoverLock(t)
  PROVE  IInv'
<1>. USE NoThreadIsNone DEF IInv
<1>2. TypeOK'
  BY DEF TypeOK, DiscoverLock, serviceVars, clientVars, servicesVars, requestVars,
       stateVars, lockVars, historyVars
<1>3. LockInv'
  BY DEF LockInv, TypeOK, DiscoverLock, serviceVars, clientVars, servicesVars,
       requestVars, stateVars, lockVars, historyVars
<1>4. RegisteredInv'
  BY DEF RegisteredInv, TypeOK, DiscoverLock, serviceVars, clientVars, servicesVars,
       requestVars, stateVars, lockVars, historyVars
<1>5. LinkInv'
  BY DEF LinkInv, DisconnectionPending, DiscoverLock, Pending, LossReported, serviceVars,
       clientVars, servicesVars, requestVars, stateVars, lockVars, historyVars
<1>6. RequestInv'
  BY DEF RequestInv, RequestUnderway, Answers, AnswerKinds, DiscoverLock, serviceVars,
       clientVars, servicesVars, requestVars, stateVars, lockVars, historyVars
<1>7. DiscoveryInv'
  BY DEF DiscoveryInv, DiscoveryUnderway, AnswerKinds, DiscoverLock, Pending,
       LossReported, TypeOK, serviceVars, clientVars, servicesVars, requestVars,
       stateVars, lockVars, historyVars
<1>8. FlagInv'
  BY UnderwayIsPending DEF FlagInv, AnswerKinds, DiscoveryUnderway, DisconnectionPending,
       DiscoverLock, Pending, LossReported, TypeOK, serviceVars, clientVars,
       servicesVars, requestVars, stateVars, lockVars, historyVars
<1>9. CopyInv'
  BY DEF CopyInv, HasCopy, AnswerKinds, DiscoverLock, Pending, LossReported, TypeOK,
       serviceVars, clientVars, servicesVars, requestVars, stateVars, lockVars,
       historyVars
<1>. QED BY <1>2, <1>3, <1>4, <1>5, <1>6, <1>7, <1>8, <1>9

LEMMA DiscoverStartStep ==
  ASSUME IInv, NEW t \in Clients, DiscoverStart(t)
  PROVE  IInv'
<1>. USE NoThreadIsNone DEF IInv
<1>2. TypeOK'
  BY DEF TypeOK, DiscoverStart, serviceVars, clientVars, servicesVars, requestVars,
       stateVars, lockVars, historyVars
<1>3. LockInv'
  BY DEF LockInv, TypeOK, DiscoverStart, serviceVars, clientVars, servicesVars,
       requestVars, stateVars, lockVars, historyVars
<1>4. RegisteredInv'
  BY DEF RegisteredInv, TypeOK, DiscoverStart, serviceVars, clientVars, servicesVars,
       requestVars, stateVars, lockVars, historyVars
<1>5. LinkInv'
  BY DEF LinkInv, DisconnectionPending, DiscoverStart, Pending, LossReported, serviceVars,
       clientVars, servicesVars, requestVars, stateVars, lockVars, historyVars
<1>6. RequestInv'
  BY DEF RequestInv, RequestUnderway, Answers, AnswerKinds, DiscoverStart, serviceVars,
       clientVars, servicesVars, requestVars, stateVars, lockVars, historyVars
<1>7. DiscoveryInv'
  BY DEF DiscoveryInv, DiscoveryUnderway, AnswerKinds, DiscoverStart, Pending,
       LossReported, TypeOK, serviceVars, clientVars, servicesVars, requestVars,
       stateVars, lockVars, historyVars
<1>8. FlagInv'
  BY UnderwayIsPending DEF FlagInv, AnswerKinds, DiscoveryUnderway, DisconnectionPending,
       DiscoverStart, Pending, LossReported, TypeOK, serviceVars, clientVars,
       servicesVars, requestVars, stateVars, lockVars, historyVars
<1>9. CopyInv'
  BY DEF CopyInv, HasCopy, AnswerKinds, DiscoverStart, Pending, LossReported, TypeOK,
       serviceVars, clientVars, servicesVars, requestVars, stateVars, lockVars,
       historyVars
<1>. QED BY <1>2, <1>3, <1>4, <1>5, <1>6, <1>7, <1>8, <1>9

LEMMA DiscoverCallStep ==
  ASSUME IInv, NEW t \in Clients, DiscoverCall(t)
  PROVE  IInv'
<1>. USE NoThreadIsNone DEF IInv
<1>1. UNCHANGED <<serviceUp, wanted, link, atService, events, isGetServiceYet,
                  gattServices, doing, type, isRegisterSucceeded, connectionState,
                  isDiscovering, discoverMutex, callback, notifier, gone, overtaken, raced>>
  BY DEF DiscoverCall, serviceVars, servicesVars, requestVars, stateVars, historyVars
<1>a. /\ thread[t] = "discover" /\ discovering' \in BOOLEAN
      /\ \/ /\ ~isRegisterSucceeded \/ ~serviceUp
            /\ UNCHANGED discovering
            /\ thread' = [thread EXCEPT ![t] = "idle"] /\ connStateMutex' = NoThread
         \/ /\ discovering'
            /\ isRegisterSucceeded
            /\ thread' = [thread EXCEPT ![t] = "idle"] /\ connStateMutex' = NoThread
         \/ /\ isRegisterSucceeded
            /\ UNCHANGED <<discovering, connStateMutex>>
            /\ thread' = [thread EXCEPT ![t] = "refused"]
  BY DEF DiscoverCall, TypeOK
<1>2. TypeOK'
  BY <1>1, <1>a DEF TypeOK
<1>3. LockInv'
  BY <1>1, <1>a DEF LockInv, TypeOK
<1>4. RegisteredInv'
  <2>1. connStateMutex = t
    BY <1>a DEF LockInv
  <2>. QED BY <1>1, <1>a, <2>1 DEF RegisteredInv
<1>5. LinkInv'
  BY <1>1 DEF LinkInv, DisconnectionPending, Pending, LossReported
<1>6. RequestInv'
  BY <1>1 DEF RequestInv, RequestUnderway, Answers
<1>7. DiscoveryInv'
  <2>. SUFFICES ASSUME ~gone, ~overtaken
                PROVE  DiscoveryInv'
    BY <1>1 DEF DiscoveryInv
  <2>1. isDiscovering /\ ~discovering /\ ~Pending({"discovered"})
    BY <1>a DEF DiscoveryInv, DiscoveryUnderway
  <2>2. ~Pending({"discovered"})' /\ \A i \in 1 .. Len(events) : events[i] # "discovered"
    BY <1>1, <2>1 DEF Pending
  <2>3. discovering' => \A u \in Clients : thread'[u] \notin {"discover", "refused"}
    <3>1. \A u \in Clients \ {t} : thread[u] \notin {"discover", "refused"}
      BY <1>a DEF LockInv
    <3>. QED BY <1>a, <2>1, <3>1 DEF TypeOK
  <2>. QED BY <1>1, <2>1, <2>2, <2>3 DEF DiscoveryInv
<1>8. FlagInv'
  <2>. SUFFICES ASSUME ~gone
                PROVE  FlagInv'
    BY <1>1 DEF FlagInv
  <2>1. isRegisterSucceeded /\ serviceUp
    <3>1. connStateMutex = t
      BY <1>a DEF LockInv
    <3>. QED BY <3>1 DEF RegisteredInv
  <2>2. discovering' \/ thread'[t] = "refused"
    BY <1>a, <2>1 DEF TypeOK
  <2>3. DiscoveryUnderway'
    BY <2>2 DEF DiscoveryUnderway
  <2>. QED BY <1>1, <2>3 DEF FlagInv, RequestUnderway, Answers, DisconnectionPending,
       Pending
<1>9. CopyInv'
  <2>1. \A u \in Clients : thread'[u] = "mark" <=> thread[u] = "mark"
    BY <1>a DEF TypeOK
  <2>. QED BY <1>1, <2>1 DEF CopyInv, HasCopy, Pending
<1>. QED BY <1>2, <1>3, <1>4, <1>5, <1>6, <1>7, <1>8, <1>9

LEMMA DiscoverFailsStep ==
  ASSUME IInv, NEW t \in Clients, DiscoverFails(t)
  PROVE  IInv'
<1>. USE NoThreadIsNone DEF IInv
<1>1. UNCHANGED <<serviceUp, wanted, link, atService, events, isGetServiceYet,
                  gattServices, doing, type, isRegisterSucceeded, connectionState,
                  discovering, discoverMutex, callback, notifier, gone, overtaken, raced>>
  BY DEF DiscoverFails, serviceVars, servicesVars, requestVars, stateVars, historyVars
<1>a. /\ thread[t] = "refused" /\ ~isDiscovering'
      /\ \/ /\ thread' = [thread EXCEPT ![t] = "told"] /\ UNCHANGED connStateMutex
         \/ /\ thread' = [thread EXCEPT ![t] = "idle"] /\ connStateMutex' = NoThread
  BY DEF DiscoverFails
<1>2. TypeOK'
  <2>1. isDiscovering' \in BOOLEAN
    BY DEF DiscoverFails
  <2>. QED BY <1>1, <1>a, <2>1 DEF TypeOK
<1>3. LockInv'
  BY <1>1, <1>a DEF LockInv, TypeOK
<1>4. RegisteredInv'
  BY <1>1, <1>a DEF RegisteredInv, TypeOK
<1>5. LinkInv'
  BY <1>1 DEF LinkInv, DisconnectionPending, Pending, LossReported
<1>6. RequestInv'
  BY <1>1 DEF RequestInv, RequestUnderway, Answers
<1>7. DiscoveryInv'
  <2>. SUFFICES ASSUME ~gone, ~overtaken
                PROVE  DiscoveryInv'
    BY <1>1 DEF DiscoveryInv
  <2>1. ~discovering /\ ~Pending({"discovered"})
    BY <1>a DEF DiscoveryInv
  <2>2. ~Pending({"discovered"})' /\ \A i \in 1 .. Len(events) : events[i] # "discovered"
    BY <1>1, <2>1 DEF Pending
  <2>3. \A u \in Clients : thread'[u] \notin {"discover", "refused"}
    <3>1. \A u \in Clients \ {t} : thread[u] \notin {"discover", "refused"}
      BY <1>a DEF LockInv
    <3>. QED BY <1>a, <3>1 DEF TypeOK
  <2>. QED BY <1>1, <2>1, <2>2, <2>3 DEF DiscoveryInv, DiscoveryUnderway
<1>8. FlagInv'
  BY <1>1, <1>a DEF FlagInv, RequestUnderway, Answers, DisconnectionPending, Pending
<1>9. CopyInv'
  <2>1. \A u \in Clients : thread'[u] = "mark" <=> thread[u] = "mark"
    BY <1>a DEF TypeOK
  <2>. QED BY <1>1, <2>1 DEF CopyInv, HasCopy, Pending
<1>. QED BY <1>2, <1>3, <1>4, <1>5, <1>6, <1>7, <1>8, <1>9

LEMMA DiscoverFailureReturnsStep ==
  ASSUME IInv, NEW t \in Clients, DiscoverFailureReturns(t)
  PROVE  IInv'
<1>. USE NoThreadIsNone DEF IInv
<1>2. TypeOK'
  BY DEF TypeOK, DiscoverFailureReturns, serviceVars, clientVars, servicesVars, requestVars,
       stateVars, lockVars, historyVars
<1>3. LockInv'
  BY DEF LockInv, TypeOK, DiscoverFailureReturns, serviceVars, clientVars, servicesVars,
       requestVars, stateVars, lockVars, historyVars
<1>4. RegisteredInv'
  BY DEF RegisteredInv, TypeOK, DiscoverFailureReturns, serviceVars, clientVars, servicesVars,
       requestVars, stateVars, lockVars, historyVars
<1>5. LinkInv'
  BY DEF LinkInv, DisconnectionPending, DiscoverFailureReturns, Pending, LossReported, serviceVars,
       clientVars, servicesVars, requestVars, stateVars, lockVars, historyVars
<1>6. RequestInv'
  BY DEF RequestInv, RequestUnderway, Answers, AnswerKinds, DiscoverFailureReturns, serviceVars,
       clientVars, servicesVars, requestVars, stateVars, lockVars, historyVars
<1>7. DiscoveryInv'
  BY DEF DiscoveryInv, DiscoveryUnderway, AnswerKinds, DiscoverFailureReturns, Pending,
       LossReported, TypeOK, serviceVars, clientVars, servicesVars, requestVars,
       stateVars, lockVars, historyVars
<1>8. FlagInv'
  BY UnderwayIsPending DEF FlagInv, AnswerKinds, DiscoveryUnderway, DisconnectionPending,
       DiscoverFailureReturns, Pending, LossReported, TypeOK, serviceVars, clientVars,
       servicesVars, requestVars, stateVars, lockVars, historyVars
<1>9. CopyInv'
  BY DEF CopyInv, HasCopy, AnswerKinds, DiscoverFailureReturns, Pending, LossReported, TypeOK,
       serviceVars, clientVars, servicesVars, requestVars, stateVars, lockVars,
       historyVars
<1>. QED BY <1>2, <1>3, <1>4, <1>5, <1>6, <1>7, <1>8, <1>9

LEMMA WaitTimeoutStep ==
  ASSUME IInv, NEW t \in Clients, WaitTimeout(t)
  PROVE  IInv'
<1>. USE NoThreadIsNone DEF IInv
<1>2. TypeOK'
  BY DEF TypeOK, WaitTimeout, serviceVars, clientVars, servicesVars, requestVars,
       stateVars, lockVars, historyVars
<1>3. LockInv'
  BY DEF LockInv, TypeOK, WaitTimeout, serviceVars, clientVars, servicesVars, requestVars,
       stateVars, lockVars, historyVars
<1>4. RegisteredInv'
  BY DEF RegisteredInv, TypeOK, WaitTimeout, serviceVars, clientVars, servicesVars,
       requestVars, stateVars, lockVars, historyVars
<1>5. LinkInv'
  BY DEF LinkInv, DisconnectionPending, WaitTimeout, Pending, LossReported, serviceVars,
       clientVars, servicesVars, requestVars, stateVars, lockVars, historyVars
<1>6. RequestInv'
  BY DEF RequestInv, RequestUnderway, Answers, AnswerKinds, WaitTimeout, serviceVars,
       clientVars, servicesVars, requestVars, stateVars, lockVars, historyVars
<1>7. DiscoveryInv'
  BY DEF DiscoveryInv, DiscoveryUnderway, AnswerKinds, WaitTimeout, Pending, LossReported,
       TypeOK, serviceVars, clientVars, servicesVars, requestVars, stateVars, lockVars,
       historyVars
<1>8. FlagInv'
  BY UnderwayIsPending DEF FlagInv, AnswerKinds, DiscoveryUnderway, DisconnectionPending,
       WaitTimeout, Pending, LossReported, TypeOK, serviceVars, clientVars, servicesVars,
       requestVars, stateVars, lockVars, historyVars
<1>9. CopyInv'
  BY DEF CopyInv, HasCopy, AnswerKinds, WaitTimeout, Pending, LossReported, TypeOK,
       serviceVars, clientVars, servicesVars, requestVars, stateVars, lockVars,
       historyVars
<1>. QED BY <1>2, <1>3, <1>4, <1>5, <1>6, <1>7, <1>8, <1>9

LEMMA GetServiceStep ==
  ASSUME IInv, NEW t \in Clients, GetService(t)
  PROVE  IInv'
<1>. USE NoThreadIsNone DEF IInv
<1>2. TypeOK'
  BY DEF TypeOK, GetService, serviceVars, clientVars, servicesVars, requestVars,
       stateVars, lockVars, historyVars
<1>3. LockInv'
  BY DEF LockInv, TypeOK, GetService, serviceVars, clientVars, servicesVars, requestVars,
       stateVars, lockVars, historyVars
<1>4. RegisteredInv'
  BY DEF RegisteredInv, TypeOK, GetService, serviceVars, clientVars, servicesVars,
       requestVars, stateVars, lockVars, historyVars
<1>5. LinkInv'
  BY DEF LinkInv, DisconnectionPending, GetService, Pending, LossReported, serviceVars,
       clientVars, servicesVars, requestVars, stateVars, lockVars, historyVars
<1>6. RequestInv'
  BY DEF RequestInv, RequestUnderway, Answers, AnswerKinds, GetService, serviceVars,
       clientVars, servicesVars, requestVars, stateVars, lockVars, historyVars
<1>7. DiscoveryInv'
  BY DEF DiscoveryInv, DiscoveryUnderway, AnswerKinds, GetService, Pending, LossReported,
       TypeOK, serviceVars, clientVars, servicesVars, requestVars, stateVars, lockVars,
       historyVars
<1>8. FlagInv'
  BY UnderwayIsPending DEF FlagInv, AnswerKinds, DiscoveryUnderway, DisconnectionPending,
       GetService, Pending, LossReported, TypeOK, serviceVars, clientVars, servicesVars,
       requestVars, stateVars, lockVars, historyVars
<1>9. CopyInv'
  BY DEF CopyInv, HasCopy, AnswerKinds, GetService, Pending, LossReported, TypeOK,
       serviceVars, clientVars, servicesVars, requestVars, stateVars, lockVars,
       historyVars
<1>. QED BY <1>2, <1>3, <1>4, <1>5, <1>6, <1>7, <1>8, <1>9

LEMMA GetServicesClearStep ==
  ASSUME IInv, NEW t \in Clients, GetServicesClear(t)
  PROVE  IInv'
<1>. USE NoThreadIsNone DEF IInv
<1>2. TypeOK'
  BY DEF TypeOK, GetServicesClear, serviceVars, clientVars, servicesVars, requestVars,
       stateVars, lockVars, historyVars
<1>3. LockInv'
  BY DEF LockInv, TypeOK, GetServicesClear, serviceVars, clientVars, servicesVars,
       requestVars, stateVars, lockVars, historyVars
<1>4. RegisteredInv'
  BY DEF RegisteredInv, TypeOK, GetServicesClear, serviceVars, clientVars, servicesVars,
       requestVars, stateVars, lockVars, historyVars
<1>5. LinkInv'
  BY DEF LinkInv, DisconnectionPending, GetServicesClear, Pending, LossReported,
       serviceVars, clientVars, servicesVars, requestVars, stateVars, lockVars,
       historyVars
<1>6. RequestInv'
  BY DEF RequestInv, RequestUnderway, Answers, AnswerKinds, GetServicesClear, serviceVars,
       clientVars, servicesVars, requestVars, stateVars, lockVars, historyVars
<1>7. DiscoveryInv'
  BY DEF DiscoveryInv, DiscoveryUnderway, AnswerKinds, GetServicesClear, Pending,
       LossReported, TypeOK, serviceVars, clientVars, servicesVars, requestVars,
       stateVars, lockVars, historyVars
<1>8. FlagInv'
  BY UnderwayIsPending DEF FlagInv, AnswerKinds, DiscoveryUnderway, DisconnectionPending,
       GetServicesClear, Pending, LossReported, TypeOK, serviceVars, clientVars,
       servicesVars, requestVars, stateVars, lockVars, historyVars
<1>9. CopyInv'
  BY DEF CopyInv, HasCopy, AnswerKinds, GetServicesClear, Pending, LossReported, TypeOK,
       serviceVars, clientVars, servicesVars, requestVars, stateVars, lockVars,
       historyVars
<1>. QED BY <1>2, <1>3, <1>4, <1>5, <1>6, <1>7, <1>8, <1>9

LEMMA BuildServiceListStep ==
  ASSUME IInv, NEW t \in Clients, BuildServiceList(t)
  PROVE  IInv'
<1>. USE NoThreadIsNone DEF IInv
<1>2. TypeOK'
  BY DEF TypeOK, BuildServiceList, serviceVars, clientVars, servicesVars, requestVars,
       stateVars, lockVars, historyVars
<1>3. LockInv'
  BY DEF LockInv, TypeOK, BuildServiceList, serviceVars, clientVars, servicesVars,
       requestVars, stateVars, lockVars, historyVars
<1>4. RegisteredInv'
  BY DEF RegisteredInv, TypeOK, BuildServiceList, serviceVars, clientVars, servicesVars,
       requestVars, stateVars, lockVars, historyVars
<1>5. LinkInv'
  BY DEF LinkInv, DisconnectionPending, BuildServiceList, Pending, LossReported,
       serviceVars, clientVars, servicesVars, requestVars, stateVars, lockVars,
       historyVars
<1>6. RequestInv'
  BY DEF RequestInv, RequestUnderway, Answers, AnswerKinds, BuildServiceList, serviceVars,
       clientVars, servicesVars, requestVars, stateVars, lockVars, historyVars
<1>7. DiscoveryInv'
  BY DEF DiscoveryInv, DiscoveryUnderway, AnswerKinds, BuildServiceList, Pending,
       LossReported, TypeOK, serviceVars, clientVars, servicesVars, requestVars,
       stateVars, lockVars, historyVars
<1>8. FlagInv'
  BY UnderwayIsPending DEF FlagInv, AnswerKinds, DiscoveryUnderway, DisconnectionPending,
       BuildServiceList, Pending, LossReported, TypeOK, serviceVars, clientVars,
       servicesVars, requestVars, stateVars, lockVars, historyVars
<1>9. CopyInv'
  BY DEF CopyInv, HasCopy, BuildServiceList, Pending, LockInv, TypeOK, serviceVars,
       stateVars, historyVars
<1>. QED BY <1>2, <1>3, <1>4, <1>5, <1>6, <1>7, <1>8, <1>9

LEMMA MarkServicesStep ==
  ASSUME IInv, NEW t \in Clients, MarkServices(t)
  PROVE  IInv'
<1>. USE NoThreadIsNone DEF IInv
<1>2. TypeOK'
  BY DEF TypeOK, MarkServices, serviceVars, clientVars, servicesVars, requestVars,
       stateVars, lockVars, historyVars
<1>3. LockInv'
  BY DEF LockInv, TypeOK, MarkServices, serviceVars, clientVars, servicesVars,
       requestVars, stateVars, lockVars, historyVars
<1>4. RegisteredInv'
  BY DEF RegisteredInv, TypeOK, MarkServices, serviceVars, clientVars, servicesVars,
       requestVars, stateVars, lockVars, historyVars
<1>5. LinkInv'
  BY DEF LinkInv, DisconnectionPending, MarkServices, Pending, LossReported, serviceVars,
       clientVars, servicesVars, requestVars, stateVars, lockVars, historyVars
<1>6. RequestInv'
  BY DEF RequestInv, RequestUnderway, Answers, AnswerKinds, MarkServices, serviceVars,
       clientVars, servicesVars, requestVars, stateVars, lockVars, historyVars
<1>7. DiscoveryInv'
  BY DEF DiscoveryInv, DiscoveryUnderway, AnswerKinds, MarkServices, Pending,
       LossReported, TypeOK, serviceVars, clientVars, servicesVars, requestVars,
       stateVars, lockVars, historyVars
<1>8. FlagInv'
  BY UnderwayIsPending DEF FlagInv, AnswerKinds, DiscoveryUnderway, DisconnectionPending,
       MarkServices, Pending, LossReported, TypeOK, serviceVars, clientVars, servicesVars,
       requestVars, stateVars, lockVars, historyVars
<1>9. CopyInv'
  BY DEF CopyInv, HasCopy, AnswerKinds, MarkServices, Pending, LossReported, TypeOK,
       serviceVars, clientVars, servicesVars, requestVars, stateVars, lockVars,
       historyVars
<1>. QED BY <1>2, <1>3, <1>4, <1>5, <1>6, <1>7, <1>8, <1>9

-----------------------------------------------------------------------------
(***************************************************************************)
(* The callback thread                                                     *)
(***************************************************************************)
LEMMA OnServicesChangedStep ==
  ASSUME IInv, OnServicesChanged
  PROVE  IInv'
<1>. USE NoThreadIsNone DEF IInv
<1>1. Handled("changed")
  BY HandleEffect DEF OnServicesChanged
<1>. USE <1>1
<1>2. TypeOK'
  <2>1. UNCHANGED <<serviceUp, wanted, link, atService, discovering,
                    gattServices, doing, type, isRegisterSucceeded, connectionState,
                    isDiscovering, connStateMutex, discoverMutex, thread, callback,
                    notifier, gone, overtaken>>
    BY DEF OnServicesChanged, InvalidateServices, serviceVars, clientVars, servicesVars,
         requestVars, stateVars, lockVars, historyVars
  <2>2. raced' \in BOOLEAN
    BY DEF OnServicesChanged, InvalidateServices
  <2>3. isGetServiceYet' \in BOOLEAN
    BY DEF OnServicesChanged, InvalidateServices
  <2>4. events' \in Seq(Kinds)
    BY DEF Handled
  <2>. QED BY <2>1, <2>2, <2>3, <2>4 DEF TypeOK
<1>3. LockInv'
  BY DEF LockInv, TypeOK, OnServicesChanged, InvalidateServices, NextReport, serviceVars,
       clientVars, servicesVars, requestVars, stateVars, lockVars, historyVars
<1>4. RegisteredInv'
  BY DEF RegisteredInv, TypeOK, OnServicesChanged, InvalidateServices, NextReport,
       Handled, serviceVars, clientVars, servicesVars, requestVars, stateVars, lockVars,
       historyVars
<1>5. LinkInv'
  BY HandledLoss DEF LinkInv, DisconnectionPending, OnServicesChanged, InvalidateServices,
       NextReport, Handled, serviceVars, clientVars, servicesVars, requestVars, stateVars,
       lockVars, historyVars
<1>6. RequestInv'
  BY ReportKinds DEF RequestInv, RequestUnderway, Answers, AnswerKinds, OnServicesChanged,
       InvalidateServices, NextReport, Handled, serviceVars, clientVars, servicesVars,
       requestVars, stateVars, lockVars, historyVars
<1>7. DiscoveryInv'
  BY ReportKinds DEF DiscoveryInv, DiscoveryUnderway, AnswerKinds, OnServicesChanged,
       InvalidateServices, NextReport, Handled, serviceVars, clientVars, servicesVars,
       requestVars, stateVars, lockVars, historyVars
<1>8. FlagInv'
  BY ReportKinds, UnderwayIsPending DEF FlagInv, AnswerKinds, DiscoveryUnderway,
       DisconnectionPending, OnServicesChanged, InvalidateServices, NextReport, Handled,
       serviceVars, clientVars, servicesVars, requestVars, stateVars, lockVars,
       historyVars
<1>9. CopyInv'
  BY ReportKinds DEF CopyInv, HasCopy, AnswerKinds, OnServicesChanged, InvalidateServices,
       NextReport, Handled, serviceVars, clientVars, servicesVars, requestVars, stateVars,
       lockVars, historyVars
<1>. QED BY <1>2, <1>3, <1>4, <1>5, <1>6, <1>7, <1>8, <1>9

LEMMA OnStateChangedStep ==
  ASSUME IInv, OnStateChanged
  PROVE  IInv'
<1>. USE NoThreadIsNone DEF IInv
<1>1. PICK e \in {"connected", "disconnecting"} : NextReport(e) /\ Handled(e)
  BY HandleEffect DEF OnStateChanged
<1>. USE <1>1
<1>2. TypeOK'
  BY DEF TypeOK, OnStateChanged, NextReport, Handled, serviceVars, clientVars,
       servicesVars, requestVars, stateVars, lockVars, historyVars
<1>3. LockInv'
  BY DEF LockInv, TypeOK, OnStateChanged, NextReport, serviceVars, clientVars,
       servicesVars, requestVars, stateVars, lockVars, historyVars
<1>4. RegisteredInv'
  BY DEF RegisteredInv, TypeOK, OnStateChanged, NextReport, Handled, serviceVars,
       clientVars, servicesVars, requestVars, stateVars, lockVars, historyVars
<1>5. LinkInv'
  BY HandledLoss DEF LinkInv, DisconnectionPending, OnStateChanged, NextReport, Handled,
       serviceVars, clientVars, servicesVars, requestVars, stateVars, lockVars,
       historyVars
<1>6. RequestInv'
  BY ReportKinds DEF RequestInv, RequestUnderway, Answers, AnswerKinds, OnStateChanged,
       NextReport, Handled, serviceVars, clientVars, servicesVars, requestVars, stateVars,
       lockVars, historyVars
<1>7. DiscoveryInv'
  BY ReportKinds DEF DiscoveryInv, DiscoveryUnderway, AnswerKinds, OnStateChanged,
       NextReport, Handled, serviceVars, clientVars, servicesVars, requestVars, stateVars,
       lockVars, historyVars
<1>8. FlagInv'
  BY ReportKinds, UnderwayIsPending DEF FlagInv, AnswerKinds, DiscoveryUnderway,
       DisconnectionPending, OnStateChanged, NextReport, Handled, serviceVars, clientVars,
       servicesVars, requestVars, stateVars, lockVars, historyVars
<1>9. CopyInv'
  BY ReportKinds DEF CopyInv, HasCopy, AnswerKinds, OnStateChanged, NextReport, Handled,
       serviceVars, clientVars, servicesVars, requestVars, stateVars, lockVars,
       historyVars
<1>. QED BY <1>2, <1>3, <1>4, <1>5, <1>6, <1>7, <1>8, <1>9

LEMMA OnDisconnectedStep ==
  ASSUME IInv, OnDisconnected
  PROVE  IInv'
<1>. USE NoThreadIsNone DEF IInv
<1>1. Handled("disconnected")
  BY HandleEffect DEF OnDisconnected
<1>. USE <1>1
<1>2. TypeOK'
  <2>1. UNCHANGED <<serviceUp, wanted, link, atService, discovering,
                    gattServices, doing, type, isRegisterSucceeded, connectionState,
                    isDiscovering, connStateMutex, discoverMutex, thread, notifier, gone,
                    overtaken>>
    BY DEF OnDisconnected, InvalidateServices, serviceVars, clientVars, servicesVars,
         requestVars, stateVars, lockVars, historyVars
  <2>2. raced' \in BOOLEAN
    BY DEF OnDisconnected, InvalidateServices
  <2>3. isGetServiceYet' \in BOOLEAN
    BY DEF OnDisconnected, InvalidateServices
  <2>4. callback' = "discoverComplete"
    BY DEF OnDisconnected
  <2>5. events' \in Seq(Kinds)
    BY DEF Handled
  <2>. QED BY <2>1, <2>2, <2>3, <2>4, <2>5 DEF TypeOK
<1>3. LockInv'
  BY DEF LockInv, TypeOK, OnDisconnected, InvalidateServices, NextReport, serviceVars,
       clientVars, servicesVars, requestVars, stateVars, lockVars, historyVars
<1>4. RegisteredInv'
  BY DEF RegisteredInv, TypeOK, OnDisconnected, InvalidateServices, NextReport, Handled,
       serviceVars, clientVars, servicesVars, requestVars, stateVars, lockVars,
       historyVars
<1>5. LinkInv'
  BY HandledLoss DEF LinkInv, DisconnectionPending, OnDisconnected, InvalidateServices,
       NextReport, Handled, serviceVars, clientVars, servicesVars, requestVars, stateVars,
       lockVars, historyVars
<1>6. RequestInv'
  BY ReportKinds DEF RequestInv, RequestUnderway, Answers, AnswerKinds, OnDisconnected,
       InvalidateServices, NextReport, Handled, serviceVars, clientVars, servicesVars,
       requestVars, stateVars, lockVars, historyVars
<1>7. DiscoveryInv'
  BY ReportKinds DEF DiscoveryInv, DiscoveryUnderway, AnswerKinds, OnDisconnected,
       InvalidateServices, NextReport, Handled, serviceVars, clientVars, servicesVars,
       requestVars, stateVars, lockVars, historyVars
<1>8. FlagInv'
  BY ReportKinds, UnderwayIsPending DEF FlagInv, AnswerKinds, DiscoveryUnderway,
       DisconnectionPending, OnDisconnected, InvalidateServices, NextReport, Handled,
       serviceVars, clientVars, servicesVars, requestVars, stateVars, lockVars,
       historyVars
<1>9. CopyInv'
  BY ReportKinds DEF CopyInv, HasCopy, AnswerKinds, OnDisconnected, InvalidateServices,
       NextReport, Handled, serviceVars, clientVars, servicesVars, requestVars, stateVars,
       lockVars, historyVars
<1>. QED BY <1>2, <1>3, <1>4, <1>5, <1>6, <1>7, <1>8, <1>9

LEMMA CleanDiscoveryStep ==
  ASSUME IInv, CleanDiscovery
  PROVE  IInv'
<1>. USE NoThreadIsNone DEF IInv
<1>2. TypeOK'
  <2>1. UNCHANGED <<serviceUp, wanted, link, atService, discovering, events,
                    isGetServiceYet, gattServices, doing, type, isRegisterSucceeded,
                    connectionState, connStateMutex, discoverMutex, thread, notifier, gone,
                    raced>>
    BY DEF CleanDiscovery, serviceVars, clientVars, servicesVars, requestVars, stateVars,
         lockVars, historyVars
  <2>2. overtaken' \in BOOLEAN
    BY DEF CleanDiscovery
  <2>3. isDiscovering' \in BOOLEAN
    BY DEF CleanDiscovery
  <2>4. callback' = "requestReset"
    BY DEF CleanDiscovery
  <2>. QED BY <2>1, <2>2, <2>3, <2>4 DEF TypeOK
<1>3. LockInv'
  BY DEF LockInv, TypeOK, CleanDiscovery, serviceVars, clientVars, servicesVars,
       requestVars, stateVars, lockVars, historyVars
<1>4. RegisteredInv'
  BY DEF RegisteredInv, TypeOK, CleanDiscovery, serviceVars, clientVars, servicesVars,
       requestVars, stateVars, lockVars, historyVars
<1>5. LinkInv'
  BY DEF LinkInv, DisconnectionPending, CleanDiscovery, Pending, LossReported,
       serviceVars, clientVars, servicesVars, requestVars, stateVars, lockVars,
       historyVars
<1>6. RequestInv'
  BY DEF RequestInv, RequestUnderway, Answers, AnswerKinds, CleanDiscovery, serviceVars,
       clientVars, servicesVars, requestVars, stateVars, lockVars, historyVars
<1>7. DiscoveryInv'
  BY DEF DiscoveryInv, DiscoveryUnderway, AnswerKinds, CleanDiscovery, Pending,
       LossReported, serviceVars, clientVars, servicesVars, requestVars, stateVars,
       lockVars, historyVars
<1>8. FlagInv'
  BY UnderwayIsPending DEF FlagInv, AnswerKinds, DiscoveryUnderway, DisconnectionPending,
       CleanDiscovery, Pending, LossReported, serviceVars, clientVars, servicesVars,
       requestVars, stateVars, lockVars, historyVars
<1>9. CopyInv'
  BY DEF CopyInv, HasCopy, AnswerKinds, CleanDiscovery, Pending, LossReported,
       serviceVars, clientVars, servicesVars, requestVars, stateVars, lockVars,
       historyVars
<1>. QED BY <1>2, <1>3, <1>4, <1>5, <1>6, <1>7, <1>8, <1>9

LEMMA CleanRequestStep ==
  ASSUME IInv, CleanRequest
  PROVE  IInv'
<1>. USE NoThreadIsNone DEF IInv
<1>2. TypeOK'
  <2>1. UNCHANGED <<serviceUp, wanted, link, atService, discovering, events,
                    isGetServiceYet, gattServices, type, isRegisterSucceeded,
                    connectionState, isDiscovering, connStateMutex, discoverMutex, thread,
                    notifier, gone, raced>>
    BY DEF CleanRequest, serviceVars, clientVars, servicesVars, requestVars, stateVars,
         lockVars, historyVars
  <2>2. overtaken' \in BOOLEAN
    BY DEF CleanRequest
  <2>3. doing' \in BOOLEAN
    BY DEF CleanRequest
  <2>4. callback' = "setState"
    BY DEF CleanRequest
  <2>. QED BY <2>1, <2>2, <2>3, <2>4 DEF TypeOK
<1>3. LockInv'
  BY DEF LockInv, TypeOK, CleanRequest, serviceVars, clientVars, servicesVars,
       requestVars, stateVars, lockVars, historyVars
<1>4. RegisteredInv'
  BY DEF RegisteredInv, TypeOK, CleanRequest, serviceVars, clientVars, servicesVars,
       requestVars, stateVars, lockVars, historyVars
<1>5. LinkInv'
  BY DEF LinkInv, DisconnectionPending, CleanRequest, Pending, LossReported, serviceVars,
       clientVars, servicesVars, requestVars, stateVars, lockVars, historyVars
<1>6. RequestInv'
  BY DEF RequestInv, RequestUnderway, Answers, AnswerKinds, CleanRequest, serviceVars,
       clientVars, servicesVars, requestVars, stateVars, lockVars, historyVars
<1>7. DiscoveryInv'
  BY DEF DiscoveryInv, DiscoveryUnderway, AnswerKinds, CleanRequest, Pending,
       LossReported, serviceVars, clientVars, servicesVars, requestVars, stateVars,
       lockVars, historyVars
<1>8. FlagInv'
  BY UnderwayIsPending DEF FlagInv, AnswerKinds, DiscoveryUnderway, DisconnectionPending,
       CleanRequest, Pending, LossReported, serviceVars, clientVars, servicesVars,
       requestVars, stateVars, lockVars, historyVars
<1>9. CopyInv'
  BY DEF CopyInv, HasCopy, AnswerKinds, CleanRequest, Pending, LossReported, serviceVars,
       clientVars, servicesVars, requestVars, stateVars, lockVars, historyVars
<1>. QED BY <1>2, <1>3, <1>4, <1>5, <1>6, <1>7, <1>8, <1>9

LEMMA SetDisconnectedStep ==
  ASSUME IInv, SetDisconnected
  PROVE  IInv'
<1>. USE NoThreadIsNone DEF IInv
<1>2. TypeOK'
  BY DEF TypeOK, SetDisconnected, serviceVars, clientVars, servicesVars, requestVars,
       stateVars, lockVars, historyVars
<1>3. LockInv'
  BY DEF LockInv, TypeOK, SetDisconnected, serviceVars, clientVars, servicesVars,
       requestVars, stateVars, lockVars, historyVars
<1>4. RegisteredInv'
  BY DEF RegisteredInv, TypeOK, SetDisconnected, serviceVars, clientVars, servicesVars,
       requestVars, stateVars, lockVars, historyVars
<1>5. LinkInv'
  BY DEF LinkInv, DisconnectionPending, SetDisconnected, Pending, LossReported,
       serviceVars, clientVars, servicesVars, requestVars, stateVars, lockVars,
       historyVars
<1>6. RequestInv'
  BY DEF RequestInv, RequestUnderway, Answers, AnswerKinds, SetDisconnected, serviceVars,
       clientVars, servicesVars, requestVars, stateVars, lockVars, historyVars
<1>7. DiscoveryInv'
  BY DEF DiscoveryInv, DiscoveryUnderway, AnswerKinds, SetDisconnected, Pending,
       LossReported, serviceVars, clientVars, servicesVars, requestVars, stateVars,
       lockVars, historyVars
<1>8. FlagInv'
  BY UnderwayIsPending DEF FlagInv, AnswerKinds, DiscoveryUnderway, DisconnectionPending,
       SetDisconnected, Pending, LossReported, serviceVars, clientVars, servicesVars,
       requestVars, stateVars, lockVars, historyVars
<1>9. CopyInv'
  BY DEF CopyInv, HasCopy, AnswerKinds, SetDisconnected, Pending, LossReported,
       serviceVars, clientVars, servicesVars, requestVars, stateVars, lockVars,
       historyVars
<1>. QED BY <1>2, <1>3, <1>4, <1>5, <1>6, <1>7, <1>8, <1>9

LEMMA OnResponseStep ==
  ASSUME IInv, OnResponse
  PROVE  IInv'
<1>. USE NoThreadIsNone DEF IInv
<1>1. PICK e \in Reports : NextReport(e) /\ Handled(e)
  BY HandleEffect DEF OnResponse
<1>. USE <1>1
<1>2. TypeOK'
  <2>1. UNCHANGED <<serviceUp, wanted, link, atService, discovering,
                    isGetServiceYet, gattServices, type, isRegisterSucceeded,
                    connectionState, isDiscovering, connStateMutex, discoverMutex, thread,
                    callback, notifier, gone, overtaken, raced>>
    BY DEF OnResponse, serviceVars, clientVars, servicesVars, requestVars, stateVars,
         lockVars, historyVars
  <2>2. doing' \in BOOLEAN
    BY DEF OnResponse
  <2>3. events' \in Seq(Kinds)
    BY DEF Handled
  <2>. QED BY <2>1, <2>2, <2>3 DEF TypeOK
<1>3. LockInv'
  BY DEF LockInv, TypeOK, OnResponse, NextReport, serviceVars, clientVars, servicesVars,
       requestVars, stateVars, lockVars, historyVars
<1>4. RegisteredInv'
  BY DEF RegisteredInv, TypeOK, OnResponse, NextReport, Handled, serviceVars, clientVars,
       servicesVars, requestVars, stateVars, lockVars, historyVars
<1>5. LinkInv'
  <2>1. e # "connected" /\ e # "disconnected"
    BY ReportKinds DEF AnswerKinds
  <2>. QED BY <2>1, HandledLoss DEF LinkInv, DisconnectionPending, OnResponse, Handled,
       serviceVars, stateVars, historyVars
<1>6. RequestInv'
  BY ReportKinds DEF RequestInv, RequestUnderway, Answers, AnswerKinds, OnResponse,
       NextReport, Handled, serviceVars, clientVars, servicesVars, requestVars, stateVars,
       lockVars, historyVars
<1>7. DiscoveryInv'
  BY ReportKinds DEF DiscoveryInv, DiscoveryUnderway, AnswerKinds, OnResponse, NextReport,
       Handled, serviceVars, clientVars, servicesVars, requestVars, stateVars, lockVars,
       historyVars
<1>8. FlagInv'
  BY ReportKinds, UnderwayIsPending DEF FlagInv, AnswerKinds, DiscoveryUnderway,
       DisconnectionPending, OnResponse, NextReport, Handled, serviceVars, clientVars,
       servicesVars, requestVars, stateVars, lockVars, historyVars
<1>9. CopyInv'
  BY ReportKinds DEF CopyInv, HasCopy, AnswerKinds, OnResponse, NextReport, Handled,
       serviceVars, clientVars, servicesVars, requestVars, stateVars, lockVars,
       historyVars
<1>. QED BY <1>2, <1>3, <1>4, <1>5, <1>6, <1>7, <1>8, <1>9

LEMMA OnServicesDiscoveredStep ==
  ASSUME IInv, OnServicesDiscovered
  PROVE  IInv'
<1>. USE NoThreadIsNone DEF IInv
<1>1. Handled("discovered")
  BY HandleEffect DEF OnServicesDiscovered
<1>. USE <1>1
<1>2. TypeOK'
  <2>1. UNCHANGED <<serviceUp, wanted, link, atService, discovering,
                    isGetServiceYet, gattServices, doing, type, isRegisterSucceeded,
                    connectionState, connStateMutex, discoverMutex, thread, callback,
                    notifier, gone, overtaken, raced>>
    BY DEF OnServicesDiscovered, serviceVars, clientVars, servicesVars, requestVars,
         stateVars, lockVars, historyVars
  <2>2. isDiscovering' \in BOOLEAN
    BY DEF OnServicesDiscovered
  <2>3. events' \in Seq(Kinds)
    BY DEF Handled
  <2>. QED BY <2>1, <2>2, <2>3 DEF TypeOK
<1>3. LockInv'
  BY DEF LockInv, TypeOK, OnServicesDiscovered, NextReport, serviceVars, clientVars,
       servicesVars, requestVars, stateVars, lockVars, historyVars
<1>4. RegisteredInv'
  BY DEF RegisteredInv, TypeOK, OnServicesDiscovered, NextReport, Handled, serviceVars,
       clientVars, servicesVars, requestVars, stateVars, lockVars, historyVars
<1>5. LinkInv'
  BY HandledLoss DEF LinkInv, DisconnectionPending, OnServicesDiscovered, NextReport,
       Handled, serviceVars, clientVars, servicesVars, requestVars, stateVars, lockVars,
       historyVars
<1>6. RequestInv'
  BY ReportKinds DEF RequestInv, RequestUnderway, Answers, AnswerKinds,
       OnServicesDiscovered, NextReport, Handled, serviceVars, clientVars, servicesVars,
       requestVars, stateVars, lockVars, historyVars
<1>7. DiscoveryInv'
  <2>. SUFFICES ASSUME ~gone, ~overtaken
                PROVE  DiscoveryInv'
    BY DEF DiscoveryInv, OnServicesDiscovered, historyVars
  <2>1. UNCHANGED <<discovering, thread>>
    BY DEF OnServicesDiscovered, serviceVars
  <2>2. Pending({"discovered"}) /\ 1 \in 1 .. Len(events)
    BY DEF Handled
  <2>3. ~discovering /\ \A t \in Clients : thread[t] \notin {"discover", "refused"}
    BY <2>2 DEF DiscoveryInv
  <2>4. \A i \in 1 .. Len(events') : events'[i] # "discovered"
    BY <2>2 DEF DiscoveryInv, Handled
  <2>. QED BY <2>1, <2>3, <2>4 DEF DiscoveryInv, DiscoveryUnderway, Pending
<1>8. FlagInv'
  BY ReportKinds, UnderwayIsPending DEF FlagInv, AnswerKinds, DiscoveryUnderway,
       DisconnectionPending, OnServicesDiscovered, NextReport, Handled, serviceVars,
       clientVars, servicesVars, requestVars, stateVars, lockVars, historyVars
<1>9. CopyInv'
  BY ReportKinds DEF CopyInv, HasCopy, AnswerKinds, OnServicesDiscovered, NextReport,
       Handled, serviceVars, clientVars, servicesVars, requestVars, stateVars, lockVars,
       historyVars
<1>. QED BY <1>2, <1>3, <1>4, <1>5, <1>6, <1>7, <1>8, <1>9

LEMMA OnCharacteristicChangedStep ==
  ASSUME IInv, OnCharacteristicChanged
  PROVE  IInv'
<1>. USE NoThreadIsNone DEF IInv
<1>1. Handled("notification")
  BY HandleEffect DEF OnCharacteristicChanged
<1>. USE <1>1
<1>2. TypeOK'
  BY DEF TypeOK, OnCharacteristicChanged, NextReport, Handled, serviceVars, clientVars,
       servicesVars, requestVars, stateVars, lockVars, historyVars
<1>3. LockInv'
  BY DEF LockInv, TypeOK, OnCharacteristicChanged, NextReport, serviceVars, clientVars,
       servicesVars, requestVars, stateVars, lockVars, historyVars
<1>4. RegisteredInv'
  BY DEF RegisteredInv, TypeOK, OnCharacteristicChanged, NextReport, Handled, serviceVars,
       clientVars, servicesVars, requestVars, stateVars, lockVars, historyVars
<1>5. LinkInv'
  BY HandledLoss DEF LinkInv, DisconnectionPending, OnCharacteristicChanged, NextReport,
       Handled, serviceVars, clientVars, servicesVars, requestVars, stateVars, lockVars,
       historyVars
<1>6. RequestInv'
  BY ReportKinds DEF RequestInv, RequestUnderway, Answers, AnswerKinds,
       OnCharacteristicChanged, NextReport, Handled, serviceVars, clientVars,
       servicesVars, requestVars, stateVars, lockVars, historyVars
<1>7. DiscoveryInv'
  BY ReportKinds DEF DiscoveryInv, DiscoveryUnderway, AnswerKinds,
       OnCharacteristicChanged, NextReport, Handled, serviceVars, clientVars,
       servicesVars, requestVars, stateVars, lockVars, historyVars
<1>8. FlagInv'
  BY ReportKinds, UnderwayIsPending DEF FlagInv, AnswerKinds, DiscoveryUnderway,
       DisconnectionPending, OnCharacteristicChanged, NextReport, Handled, serviceVars,
       clientVars, servicesVars, requestVars, stateVars, lockVars, historyVars
<1>9. CopyInv'
  BY ReportKinds DEF CopyInv, HasCopy, AnswerKinds, OnCharacteristicChanged, NextReport,
       Handled, serviceVars, clientVars, servicesVars, requestVars, stateVars, lockVars,
       historyVars
<1>. QED BY <1>2, <1>3, <1>4, <1>5, <1>6, <1>7, <1>8, <1>9

LEMMA NotificationReturnsStep ==
  ASSUME IInv, NotificationReturns
  PROVE  IInv'
<1>. USE NoThreadIsNone DEF IInv
<1>2. TypeOK'
  BY DEF TypeOK, NotificationReturns, serviceVars, clientVars, servicesVars, requestVars,
       stateVars, lockVars, historyVars
<1>3. LockInv'
  BY DEF LockInv, TypeOK, NotificationReturns, serviceVars, clientVars, servicesVars,
       requestVars, stateVars, lockVars, historyVars
<1>4. RegisteredInv'
  BY DEF RegisteredInv, TypeOK, NotificationReturns, serviceVars, clientVars,
       servicesVars, requestVars, stateVars, lockVars, historyVars
<1>5. LinkInv'
  BY DEF LinkInv, DisconnectionPending, NotificationReturns, Pending, LossReported,
       serviceVars, clientVars, servicesVars, requestVars, stateVars, lockVars,
       historyVars
<1>6. RequestInv'
  BY DEF RequestInv, RequestUnderway, Answers, AnswerKinds, NotificationReturns,
       serviceVars, clientVars, servicesVars, requestVars, stateVars, lockVars,
       historyVars
<1>7. DiscoveryInv'
  BY DEF DiscoveryInv, DiscoveryUnderway, AnswerKinds, NotificationReturns, Pending,
       LossReported, serviceVars, clientVars, servicesVars, requestVars, stateVars,
       lockVars, historyVars
<1>8. FlagInv'
  BY UnderwayIsPending DEF FlagInv, AnswerKinds, DiscoveryUnderway, DisconnectionPending,
       NotificationReturns, Pending, LossReported, serviceVars, clientVars, servicesVars,
       requestVars, stateVars, lockVars, historyVars
<1>9. CopyInv'
  BY DEF CopyInv, HasCopy, AnswerKinds, NotificationReturns, Pending, LossReported,
       serviceVars, clientVars, servicesVars, requestVars, stateVars, lockVars,
       historyVars
<1>. QED BY <1>2, <1>3, <1>4, <1>5, <1>6, <1>7, <1>8, <1>9

-----------------------------------------------------------------------------
(***************************************************************************)
(* The invariant and what follows from it                                  *)
(***************************************************************************)
LEMMA InitIInv == Init => IInv
<1>. SUFFICES ASSUME Init
              PROVE  IInv
  OBVIOUS
<1>1. events = <<>> /\ atService = <<>> /\ \A t \in Clients : thread[t] = "idle"
  BY DEF Init
<1>2. ~ \E i \in 1 .. Len(events) : TRUE
  BY <1>1
<1>3. TypeOK
  <2>1. events \in Seq(Kinds) /\ atService \in Seq(RequestType)
    BY <1>1
  <2>2. thread \in [Clients -> {"idle", "lock", "discoverWait", "discover", "refused",
                                "told", "self", "getWait", "get", "mark"}]
    BY DEF Init
  <2>3. gattServices \in {"none", "old", "latest"}
    BY DEF Init
  <2>4. /\ serviceUp \in BOOLEAN /\ wanted \in BOOLEAN /\ link \in BOOLEAN
        /\ discovering \in BOOLEAN /\ isGetServiceYet \in BOOLEAN
        /\ isRegisterSucceeded \in BOOLEAN /\ doing \in BOOLEAN /\ isDiscovering \in BOOLEAN
        /\ gone \in BOOLEAN /\ overtaken \in BOOLEAN /\ raced \in BOOLEAN
    BY DEF Init
  <2>5. /\ type \in RequestType \cup {"charRead", "charWrite"}
        /\ connStateMutex \in Clients \cup {NoThread}
        /\ discoverMutex \in Clients \cup {NoThread}
    BY DEF Init
  <2>6. /\ connectionState \in {"disconnected", "connected", "disconnecting"}
        /\ notifier \in {"none", "calling", "self"}
        /\ callback \in {"idle", "discoverComplete", "requestReset", "setState",
                         "notifying", "self"}
    BY DEF Init
  <2>. QED BY <2>1, <2>2, <2>3, <2>4, <2>5, <2>6 DEF TypeOK
<1>4. LockInv /\ RegisteredInv
  BY <1>1, NoThreadIsNone DEF Init, LockInv, RegisteredInv
<1>5. LinkInv /\ RequestInv
  BY <1>1, <1>2 DEF Init, LinkInv, LossReported, RequestInv, RequestUnderway, Answers
<1>6. DiscoveryInv /\ FlagInv /\ CopyInv
  BY <1>1, <1>2 DEF Init, DiscoveryInv, DiscoveryUnderway, FlagInv, CopyInv, HasCopy,
       Pending
<1>. QED BY <1>3, <1>4, <1>5, <1>6 DEF IInv

LEMMA StutterStep == IInv /\ UNCHANGED vars => IInv'
<1>. SUFFICES ASSUME IInv, UNCHANGED vars
              PROVE  IInv'
  OBVIOUS
<1>. USE DEF IInv, vars, serviceVars, servicesVars, requestVars, stateVars, lockVars,
     historyVars
<1>1. TypeOK' /\ LockInv' /\ RegisteredInv'
  BY DEF TypeOK, LockInv, RegisteredInv
<1>2. LinkInv' /\ RequestInv'
  BY DEF LinkInv, LossReported, DisconnectionPending, Pending, RequestInv,
       RequestUnderway, Answers
<1>3. DiscoveryInv' /\ FlagInv' /\ CopyInv'
  BY DEF DiscoveryInv, DiscoveryUnderway, FlagInv, RequestUnderway, Answers,
       DisconnectionPending, CopyInv, HasCopy, Pending
<1>. QED BY <1>1, <1>2, <1>3

LEMMA StepIInv == IInv /\ [Next]_vars => IInv'
<1>. SUFFICES ASSUME IInv, [Next]_vars
              PROVE  IInv'
  OBVIOUS
<1>1. CASE Service
  BY <1>1, LinkUpStep, LinkDownStep, RespondStep, DiscoveredStep,
       RemoteServicesChangeStep, RemoteNotifiesStep, ServiceDiesStep, ServiceStartsStep,
       TurnOffStep DEF Service
<1>2. CASE Calls
  BY <1>2, ConnectStep, DisconnectStep, CloseStep, RequestStep, WriteWithoutAnswerStep,
       SetNotifyWithoutDescriptorStep, DiscoverServicesStep, GetServiceStep,
       GattClientAssumption DEF Calls
<1>3. CASE NotifierReturns
  BY <1>3, NotifierReturnsStep
<1>4. CASE CallbackStep
  BY <1>4, OnServicesChangedStep, OnStateChangedStep, OnDisconnectedStep,
       CleanDiscoveryStep, CleanRequestStep, SetDisconnectedStep, OnResponseStep,
       OnServicesDiscoveredStep, OnCharacteristicChangedStep, NotificationReturnsStep DEF
       CallbackStep
<1>5. ASSUME NEW t \in Clients, ThreadStep(t)
      PROVE  IInv'
  BY <1>5, DiscoverLockStep, DiscoverStartStep, DiscoverCallStep, DiscoverFailsStep,
       DiscoverFailureReturnsStep, WaitTimeoutStep, GetServicesClearStep,
       BuildServiceListStep, MarkServicesStep DEF ThreadStep
<1>6. CASE UNCHANGED vars
  BY <1>6, StutterStep
<1>. QED BY <1>1, <1>2, <1>3, <1>4, <1>5, <1>6 DEF Next

\* The inductive invariant holds in every behaviour of the client.
THEOREM Invariance == Spec => []IInv
BY InitIInv, StepIInv, PTL DEF Spec

(***************************************************************************)
(* At most one request is under way and requestInformation_ knows it and   *)
(* its type, so that OnCharacteristicRead and the others do not drop its   *)
(* answer; a discovery is known likewise.                                  *)
(***************************************************************************)
THEOREM OneKnownRequest == Spec => []RequestTracked
<1>1. ASSUME IInv
      PROVE  RequestTracked
  <2>. SUFFICES ASSUME ~gone, ~overtaken
                PROVE  RequestTracked
    BY DEF RequestTracked
  <2>1. Cardinality(Answers) + Len(atService) <= 1
    <3>1. Len(atService) \in Nat /\ Len(atService) <= 1
      BY <1>1 DEF IInv, RequestInv, TypeOK
    <3>2. CASE Answers = {}
      BY <3>1, <3>2, FS_EmptySet
    <3>3. CASE Answers # {}
      <4>1. PICK i \in Answers : TRUE
        BY <3>3
      <4>2. Answers = {i}
        BY <1>1, <4>1 DEF IInv, RequestInv
      <4>3. Cardinality(Answers) = 1
        BY <4>2, FS_Singleton
      <4>4. Len(atService) = 0
        BY <1>1, <3>3 DEF IInv, RequestInv
      <4>. QED BY <4>3, <4>4
    <3>. QED BY <3>2, <3>3
  <2>. QED BY <1>1, <2>1 DEF IInv, RequestInv, DiscoveryInv, DiscoveryUnderway,
       RequestTracked
<1>. QED BY <1>1, Invariance, PTL

(***************************************************************************)
(* The client is busy, discovering or connected only if an answer, a       *)
(* report or a disconnection that resets the flag is still to come.        *)
(***************************************************************************)
THEOREM FlagsAreReset == Spec => []NoFlagLeftBehind
<1>1. IInv => NoFlagLeftBehind
  BY DEF IInv, FlagInv, LinkInv, NoFlagLeftBehind
<1>. QED BY <1>1, Invariance, PTL

(***************************************************************************)
(* The copy of the services that isGetServiceYet_ declares complete is the *)
(* latest, or the report that it is not is on its way, unless that report  *)
(* was handled between BuildServiceList and the setting of the flag.       *)
(***************************************************************************)
THEOREM CopyIsLatest == Spec => []ServicesLatestUnlessRaced
<1>1. IInv => ServicesLatestUnlessRaced
  BY DEF IInv, CopyInv, HasCopy, ServicesLatestUnlessRaced
<1>. QED BY <1>1, Invariance, PTL

=============================================================================
