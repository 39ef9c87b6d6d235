--------------------- MODULE BluetoothSwitchModuleProofs ---------------------
(***************************************************************************)
(* Proofs about the switch module and the host around it, for any number   *)
(* of calls.                                                               *)
(***************************************************************************)
EXTENDS BluetoothHostSwitch, SequenceTheorems, FiniteSetTheorems, WellFoundedInduction, TLAPS

(***************************************************************************)
(* A set of naturals has a least element, and a greatest if it is bounded, *)
(* so that Min and Max return elements of the set.                         *)
(***************************************************************************)
LEMMA MinIsElement ==
  ASSUME NEW S \in SUBSET Nat, S # {}
  PROVE  Min(S) \in S /\ \A i \in S : Min(S) <= i
<1>1. PICK x \in S : \A y \in S : ~ (<<y, x>> \in OpToRel(<, Nat))
  BY NatLessThanWellFounded, WFMin
<1>2. \A y \in S : x <= y
  <2>1. SUFFICES ASSUME NEW y \in S PROVE x <= y
    OBVIOUS
  <2>2. <<y, x>> \notin OpToRel(<, Nat)
    BY <1>1
  <2>3. ~ (y < x)
    BY <2>2 DEF OpToRel
  <2> QED
    BY <2>3
<1> QED
  BY <1>2 DEF Min

LEMMA MaxIsElement ==
  ASSUME NEW n \in Nat, NEW S \in SUBSET (1 .. n), S # {}
  PROVE  Max(S) \in S /\ \A i \in S : i <= Max(S)
<1> DEFINE T == {n - i : i \in S}
<1>1. T \in SUBSET Nat /\ T # {}
  <2>1. \A i \in S : n - i \in Nat
    OBVIOUS
  <2>2. PICK i \in S : TRUE
    OBVIOUS
  <2>3. n - i \in T
    BY <2>2
  <2> QED
    BY <2>1, <2>3
<1>2. PICK t \in T : \A u \in T : t <= u
  BY <1>1, MinIsElement
<1>3. PICK x \in S : t = n - x
  BY <1>2
<1>4. \A y \in S : y <= x
  <2>1. SUFFICES ASSUME NEW y \in S PROVE y <= x
    OBVIOUS
  <2>2. n - y \in T
    OBVIOUS
  <2>3. n - x <= n - y
    BY <1>2, <1>3, <2>2
  <2> QED
    BY <2>3
<1> QED
  BY <1>4 DEF Max

(***************************************************************************)
(* What stays behind a position are the elements after it, in order.       *)
(***************************************************************************)
LEMMA BehindElements ==
  ASSUME NEW D, NEW vec \in Seq(D), NEW pos \in 0 .. Len(vec)
  PROVE  /\ Behind(vec, pos) \in Seq(D)
         /\ Len(Behind(vec, pos)) = Len(vec) - pos
         /\ \A i \in 1 .. Len(vec) - pos : Behind(vec, pos)[i] = vec[pos + i]
  BY DEF Behind

(***************************************************************************)
(* Deduplication keeps a tail of the cache: the part behind the last event *)
(* that the reached state makes superfluous.                               *)
(***************************************************************************)
LEMMA DeduplicateIsTail ==
  ASSUME NEW vec \in Seq(BluetoothSwitchCacheEvent), NEW event
  PROVE  \E pos \in 0 .. Len(vec) :
           /\ DeduplicateCacheEvent(vec, event) = Behind(vec, pos)
           /\ pos # 0 => vec[pos].event = event
<1> DEFINE same == Positions(vec, {event})
<1>1. CASE same = {}
  <2>1. Behind(vec, 0) = vec
    BY DEF Behind
  <2> QED
    BY <1>1, <2>1 DEF DeduplicateCacheEvent
<1>2. CASE same # {}
  <2>1. Len(vec) \in Nat /\ same \in SUBSET (1 .. Len(vec))
    BY DEF Positions
  <2>2. Max(same) \in same
    BY <1>2, <2>1, MaxIsElement
  <2>3. Max(same) \in 1 .. Len(vec) /\ vec[Max(same)].event = event
    BY <2>2 DEF Positions
  <2>4. DeduplicateCacheEvent(vec, event) = Behind(vec, Max(same))
    BY <1>2 DEF DeduplicateCacheEvent
  <2>5. Max(same) \in 0 .. Len(vec)
    BY <2>1, <2>3
  <2> HIDE DEF same
  <2> QED
    BY <2>3, <2>4, <2>5
<1> QED
  BY <1>1, <1>2
LEMMA BehindBehind ==
  ASSUME NEW D, NEW vec \in Seq(D), NEW p \in 0 .. Len(vec), NEW q \in 0 .. Len(vec) - p
  PROVE  Behind(Behind(vec, p), q) = Behind(vec, p + q)
<1> DEFINE tail == Behind(vec, p)
<1>1. /\ tail \in Seq(D)
      /\ Len(tail) = Len(vec) - p
      /\ \A i \in 1 .. Len(vec) - p : tail[i] = vec[p + i]
  BY BehindElements
<1>2. /\ Behind(tail, q) \in Seq(D)
      /\ Len(Behind(tail, q)) = Len(vec) - (p + q)
      /\ \A i \in 1 .. Len(vec) - (p + q) : Behind(tail, q)[i] = tail[q + i]
  <2>1. q \in 0 .. Len(tail)
    BY <1>1
  <2>2. Len(tail) - q = Len(vec) - (p + q)
    BY <1>1
  <2> HIDE DEF tail
  <2>3. /\ Behind(tail, q) \in Seq(D)
        /\ Len(Behind(tail, q)) = Len(tail) - q
        /\ \A i \in 1 .. Len(tail) - q : Behind(tail, q)[i] = tail[q + i]
    BY <1>1, <2>1, BehindElements
  <2> QED
    BY <2>2, <2>3
<1>3. /\ Behind(vec, p + q) \in Seq(D)
      /\ Len(Behind(vec, p + q)) = Len(vec) - (p + q)
      /\ \A i \in 1 .. Len(vec) - (p + q) : Behind(vec, p + q)[i] = vec[p + q + i]
  <2>1. p + q \in 0 .. Len(vec)
    OBVIOUS
  <2> QED
    BY <2>1, BehindElements
<1>4. \A i \in 1 .. Len(vec) - (p + q) : Behind(tail, q)[i] = Behind(vec, p + q)[i]
  <2>1. SUFFICES ASSUME NEW i \in 1 .. Len(vec) - (p + q)
                 PROVE  Behind(tail, q)[i] = Behind(vec, p + q)[i]
    OBVIOUS
  <2>2. q + i \in 1 .. Len(vec) - p /\ p + (q + i) = p + q + i
    OBVIOUS
  <2> HIDE DEF tail
  <2> QED
    BY <1>1, <1>2, <1>3, <2>2
<1> HIDE DEF tail
<1>5. Behind(tail, q) = Behind(vec, p + q)
  BY <1>2, <1>3, <1>4, SeqEqual
<1> QED
  BY <1>5 DEF tail

(***************************************************************************)
(* The end of an action takes one request out of the cache and drops all   *)
(* the requests before that one, or it clears the cache: then no request   *)
(* that the reached state allows was behind the last superfluous one.      *)
(***************************************************************************)
LEMMA ActionEndDetail ==
  ASSUME cachedEventVec \in Seq(BluetoothSwitchCacheEvent), NEW event, NEW expected,
         ProcessBluetoothSwitchActionEnd(event, expected)
  PROVE  \/ /\ cachedEventVec' = <<>> /\ ffrtQueue' = ffrtQueue
            /\ \E pos \in 0 .. Len(cachedEventVec) :
                 /\ pos # 0 => cachedEventVec[pos].event = event
                 /\ \A i \in 1 .. Len(cachedEventVec) :
                      i > pos => cachedEventVec[i].event \notin expected
         \/ \E k \in 1 .. Len(cachedEventVec) :
              /\ cachedEventVec' = Behind(cachedEventVec, k)
              /\ ffrtQueue' = Append(ffrtQueue, cachedEventVec[k])
<1> DEFINE vec == DeduplicateCacheEvent(cachedEventVec, event)
           found == Positions(vec, expected)
           it == Min(found)
<1>1. PICK pos \in 0 .. Len(cachedEventVec) :
        vec = Behind(cachedEventVec, pos) /\ (pos # 0 => cachedEventVec[pos].event = event)
  BY DeduplicateIsTail
<1>2. /\ vec \in Seq(BluetoothSwitchCacheEvent)
      /\ Len(vec) = Len(cachedEventVec) - pos
      /\ \A i \in 1 .. Len(cachedEventVec) - pos : vec[i] = cachedEventVec[pos + i]
  BY <1>1, BehindElements
<1>3. CASE found = {}
  <2>1. cachedEventVec' = <<>> /\ ffrtQueue' = ffrtQueue
    BY <1>3 DEF ProcessBluetoothSwitchActionEnd
  <2>2. ASSUME NEW i \in 1 .. Len(cachedEventVec), i > pos
        PROVE  cachedEventVec[i].event \notin expected
    <3> HIDE DEF vec
    <3>1. i - pos \in 1 .. Len(vec) /\ i - pos \in 1 .. Len(cachedEventVec) - pos
          /\ pos + (i - pos) = i
      BY <1>2, <2>2
    <3>2. vec[i - pos] = cachedEventVec[i]
      BY <1>2, <3>1
    <3>3. vec[i - pos].event \notin expected
      BY <1>3, <3>1 DEF Positions
    <3> QED
      BY <3>2, <3>3
  <2> QED
    BY <1>1, <2>1, <2>2
<1>4. CASE found # {}
  <2>1. found \in SUBSET Nat /\ found \subseteq 1 .. Len(vec)
    BY DEF Positions
  <2>2. it \in 1 .. Len(vec)
    BY <1>4, <2>1, MinIsElement
  <2>3. cachedEventVec' = Behind(vec, it) /\ ffrtQueue' = Append(ffrtQueue, vec[it])
    BY <1>4 DEF ProcessBluetoothSwitchActionEnd, ReplayFirst
  <2> HIDE DEF vec, found, it
  <2>4. pos + it \in 1 .. Len(cachedEventVec) /\ it \in 0 .. Len(cachedEventVec) - pos
    BY <1>2, <2>2
  <2>5. Behind(vec, it) = Behind(cachedEventVec, pos + it)
    BY <1>1, <2>4, BehindBehind
  <2>6. vec[it] = cachedEventVec[pos + it]
    BY <1>2, <2>4, <2>2
  <2> QED
    BY <2>3, <2>4, <2>5, <2>6
<1> QED
  BY <1>3, <1>4

LEMMA ActionEndEffect ==
  ASSUME cachedEventVec \in Seq(BluetoothSwitchCacheEvent), NEW event, NEW expected,
         ProcessBluetoothSwitchActionEnd(event, expected)
  PROVE  \/ cachedEventVec' = <<>> /\ ffrtQueue' = ffrtQueue
         \/ \E k \in 1 .. Len(cachedEventVec) :
              /\ cachedEventVec' = Behind(cachedEventVec, k)
              /\ ffrtQueue' = Append(ffrtQueue, cachedEventVec[k])
  BY ActionEndDetail

(***************************************************************************)
(* Type correctness                                                        *)
(***************************************************************************)
LEMMA InitTypeOK == Init => TypeOK
<1> SUFFICES ASSUME Init PROVE TypeOK
  OBVIOUS
<1>1. worker \in Task /\ action \in SwitchAction
  BY DEF Init, Task, SwitchAction
<1>2. lastRet \in ActionResult
  BY DEF Init, ActionResult, CallSucceeded
<1>3. arrived \in 0 .. MaxRequests
  BY MaxRequestsAssumption DEF Init
<1>4. cachedEventVec \in Seq(BluetoothSwitchCacheEvent)
      /\ ffrtQueue \in Seq(BluetoothSwitchCacheEvent)
  BY DEF Init
<1>5. /\ isBtSwitchProcessing \in BOOLEAN /\ noAutoConnect \in BOOLEAN
      /\ alive \in BOOLEAN /\ disturbed \in BOOLEAN
  BY DEF Init
<1>6. taskTimeoutHandle \in CallId \cup {0} /\ timers \subseteq CallId
      /\ issued \subseteq CallId
  BY DEF Init
<1> QED
  BY <1>1, <1>2, <1>3, <1>4, <1>5, <1>6 DEF TypeOK

(***************************************************************************)
(* Handling a request, from an application or from the queue.              *)
(***************************************************************************)
LEMMA SwitchActionType ==
  ASSUME TypeOK, NEW req \in BluetoothSwitchCacheEvent, NEW onQueue \in BOOLEAN,
         ProcessBluetoothSwitchAction(req, onQueue)
  PROVE  /\ isBtSwitchProcessing' \in BOOLEAN
         /\ cachedEventVec' \in Seq(BluetoothSwitchCacheEvent)
         /\ taskTimeoutHandle' \in CallId \cup {0}
         /\ timers' \subseteq CallId
         /\ action' \in SwitchAction
         /\ issued' \subseteq CallId
<1>1. CASE CacheRequest(req)
  BY <1>1 DEF CacheRequest, TypeOK
<1>2. CASE StartAction(req, onQueue)
  <2>1. req.id \in CallId
    BY DEF BluetoothSwitchCacheEvent
  <2>2. action' \in SwitchAction
    BY <1>2 DEF StartAction, SwitchAction, TypeOK
  <2> QED
    BY <1>2, <2>1, <2>2 DEF StartAction, TypeOK
<1> QED
  BY <1>1, <1>2 DEF ProcessBluetoothSwitchAction
LEMMA TaskType ==
  ASSUME NEW task \in Task
  PROVE  /\ task.kind \in {"none", "timeout", "cached"}
         /\ task.kind = "none" => task = NoTask
         /\ task.kind = "timeout" => task.id \in CallId /\ task = TimeoutTask(task.id)
         /\ task.kind = "cached" =>
              task.req \in BluetoothSwitchCacheEvent /\ task = CachedTask(task.req)
  BY DEF Task, NoTask, TimeoutTask, CachedTask

LEMMA ActionType ==
  ASSUME NEW act \in SwitchAction
  PROVE  /\ act.step \in {"none", "reset", "call"}
         /\ act.step = "none" <=> act = NoAction
         /\ act # NoAction =>
              act \in [step : {"reset", "call"}, req : BluetoothSwitchCacheEvent,
                       noAutoConnect : BOOLEAN, onQueue : BOOLEAN]
  BY DEF SwitchAction, NoAction

(***************************************************************************)
(* Every step of the module preserves the types.                           *)
(***************************************************************************)
LEMMA NextTypeOK == TypeOK /\ [Next]_vars => TypeOK'
<1> SUFFICES ASSUME TypeOK, [Next]_vars PROVE TypeOK'
  OBVIOUS
<1>0. CallId \subseteq Nat
  BY DEF CallId
<1>1. ASSUME NEW event \in SwitchRequest, ProcessRequest(event) PROVE TypeOK'
  <2> DEFINE req == [event |-> event, id |-> arrived + 1]
  <2>1. arrived + 1 \in CallId /\ arrived' \in 0 .. MaxRequests
    BY <1>1, MaxRequestsAssumption DEF ProcessRequest, TypeOK, CallId
  <2>2. req \in BluetoothSwitchCacheEvent
    BY <2>1 DEF BluetoothSwitchCacheEvent
  <2>3. ProcessBluetoothSwitchAction(req, FALSE)
    BY <1>1 DEF ProcessRequest
  <2>4. disturbed' \in BOOLEAN
    BY <1>1 DEF ProcessRequest
  <2> HIDE DEF req
  <2> QED
    BY <1>1, <2>1, <2>2, <2>3, <2>4, SwitchActionType DEF ProcessRequest, TypeOK
<1>2. CASE SetNoAutoConnect
  BY <1>2 DEF SetNoAutoConnect, TypeOK, queueVars, historyVars
<1>3. CASE ResetNoAutoConnect
  <2>1. action # NoAction
    BY <1>3 DEF ResetNoAutoConnect, NoAction
  <2>2. action' \in SwitchAction
    BY <1>3, <2>1, ActionType DEF ResetNoAutoConnect, TypeOK, SwitchAction
  <2> QED
    BY <1>3, <2>2 DEF ResetNoAutoConnect, TypeOK, queueVars, historyVars
<1>4. ASSUME NEW ret \in ActionResult, ActionReturn(ret) PROVE TypeOK'
  <2>1. isBtSwitchProcessing' \in BOOLEAN /\ timers' \subseteq CallId
    BY <1>4 DEF ActionReturn, CancelTimeout, TypeOK
  <2>2. worker' \in Task /\ action' \in SwitchAction
    BY <1>4 DEF ActionReturn, TypeOK, Task, SwitchAction
  <2>3. disturbed' \in BOOLEAN
    BY <1>4 DEF ActionReturn
  <2> QED
    BY <1>4, <2>1, <2>2, <2>3 DEF ActionReturn, TypeOK
<1>5. ASSUME NEW state \in SwitchState, ProcessStateReport(state) PROVE TypeOK'
  <2>1. ProcessBluetoothSwitchActionEnd(CurSwitchActionEvent(state), ExpectedEvents(state))
    BY <1>5 DEF ProcessStateReport
  <2>2. /\ cachedEventVec' \in Seq(BluetoothSwitchCacheEvent)
        /\ ffrtQueue' \in Seq(BluetoothSwitchCacheEvent)
    <3>1. CASE cachedEventVec' = <<>> /\ ffrtQueue' = ffrtQueue
      BY <3>1 DEF TypeOK
    <3>2. ASSUME NEW k \in 1 .. Len(cachedEventVec),
                 cachedEventVec' = Behind(cachedEventVec, k),
                 ffrtQueue' = Append(ffrtQueue, cachedEventVec[k])
          PROVE  /\ cachedEventVec' \in Seq(BluetoothSwitchCacheEvent)
                 /\ ffrtQueue' \in Seq(BluetoothSwitchCacheEvent)
      <4>1. cachedEventVec \in Seq(BluetoothSwitchCacheEvent)
            /\ ffrtQueue \in Seq(BluetoothSwitchCacheEvent)
        BY DEF TypeOK
      <4>2. cachedEventVec[k] \in BluetoothSwitchCacheEvent
            /\ k \in 0 .. Len(cachedEventVec)
        BY <4>1
      <4>3. Behind(cachedEventVec, k) \in Seq(BluetoothSwitchCacheEvent)
        BY <4>1, <4>2, BehindElements
      <4> QED
        BY <3>2, <4>1, <4>2, <4>3
    <3> QED
      BY <2>1, <3>1, <3>2, ActionEndEffect DEF TypeOK
  <2>3. isBtSwitchProcessing' \in BOOLEAN /\ timers' \subseteq CallId
    BY <2>1 DEF ProcessBluetoothSwitchActionEnd, CancelTimeout, TypeOK
  <2>4. disturbed' \in BOOLEAN
    BY <1>5 DEF ProcessStateReport
  <2> QED
    BY <1>5, <2>2, <2>3, <2>4 DEF ProcessStateReport, TypeOK
<1>6. ASSUME NEW id \in timers, StartTimeoutTask(id) PROVE TypeOK'
  <2>1. worker' \in Task /\ timers' \subseteq CallId
    BY <1>6 DEF StartTimeoutTask, TypeOK, Task
  <2> QED
    BY <1>6, <2>1 DEF StartTimeoutTask, TypeOK, moduleVars, historyVars
<1>7. CASE StartCachedTask
  <2>1. Head(ffrtQueue) \in BluetoothSwitchCacheEvent
        /\ Tail(ffrtQueue) \in Seq(BluetoothSwitchCacheEvent)
    BY <1>7 DEF StartCachedTask, TypeOK
  <2>2. worker' \in Task
    BY <1>7, <2>1 DEF StartCachedTask, Task
  <2> QED
    BY <1>7, <2>1, <2>2 DEF StartCachedTask, TypeOK, moduleVars, historyVars
<1>8. CASE OnTaskTimeout
  <2>1. worker' \in Task
    BY <1>8 DEF OnTaskTimeout, Task
  <2>2. cachedEventVec' \in Seq(BluetoothSwitchCacheEvent)
    BY <1>8 DEF OnTaskTimeout
  <2>3. isBtSwitchProcessing' \in BOOLEAN
    BY <1>8 DEF OnTaskTimeout
  <2> QED
    BY <1>8, <2>1, <2>2, <2>3 DEF OnTaskTimeout, TypeOK, historyVars
<1>9. CASE RunCachedTask
  <2>1. worker.req \in BluetoothSwitchCacheEvent
    BY <1>9, TaskType DEF RunCachedTask, TypeOK
  <2>2. worker' \in Task
    BY <1>9 DEF RunCachedTask, TypeOK, Task
  <2>3. ProcessBluetoothSwitchAction(worker.req, TRUE)
    BY <1>9 DEF RunCachedTask
  <2> QED
    BY <1>9, <2>1, <2>2, <2>3, SwitchActionType DEF RunCachedTask, TypeOK
<1>10. CASE SkipTask
  <2>1. worker' \in Task
    BY <1>10 DEF SkipTask, Task
  <2> QED
    BY <1>10, <2>1 DEF SkipTask, TypeOK, moduleVars, historyVars
<1>11. CASE Destroy
  BY <1>11 DEF Destroy, TypeOK, moduleVars, queueVars, historyVars
<1>12. CASE UNCHANGED vars
  BY <1>12 DEF vars, moduleVars, queueVars, historyVars, TypeOK
<1> QED
  BY <1>1, <1>2, <1>3, <1>4, <1>5, <1>6, <1>7, <1>8, <1>9, <1>10, <1>11, <1>12
  DEF Next, ActionStep, QueueStep

(***************************************************************************)
(* In every behaviour of the switch module its flags, cache, tasks and     *)
(* action have their types.                                                *)
(***************************************************************************)
THEOREM TypeCorrect == Spec => []TypeOK
<1> QED
  BY InitTypeOK, NextTypeOK, PTL DEF Spec
(***************************************************************************)
(* The timeout covers the action.  The invariant that carries it also says *)
(* who holds the mutex: an action runs only while the flag is set, and one *)
(* that runs on the queue runs in a replay task, so that ending it cannot  *)
(* lose a started timeout task.                                            *)
(***************************************************************************)
MutexInv ==
  /\ action # NoAction => isBtSwitchProcessing
  /\ action # NoAction /\ action.onQueue => worker.kind = "cached"

TimeoutInv == TypeOK /\ MutexInv /\ TimeoutCoversAction

LEMMA NextTimeoutInv == TimeoutInv /\ [Next]_vars => TimeoutInv'
<1> SUFFICES ASSUME TimeoutInv, [Next]_vars PROVE MutexInv' /\ TimeoutCoversAction'
  BY NextTypeOK DEF TimeoutInv
<1>0. TypeOK /\ MutexInv /\ TimeoutCoversAction
  BY DEF TimeoutInv
<1>t. \A id : TimeoutTask(id).kind = "timeout" /\ TimeoutTask(id) # NoTask
  BY DEF TimeoutTask, NoTask
<1>n. NoTask.kind = "none" /\ NoAction.step = "none"
  BY DEF NoTask, NoAction
<1>1. ASSUME NEW event \in SwitchRequest, ProcessRequest(event)
      PROVE  MutexInv' /\ TimeoutCoversAction'
  <2>1. CASE CacheRequest([event |-> event, id |-> arrived + 1])
    BY <1>0, <1>1, <2>1 DEF CacheRequest, ProcessRequest, MutexInv, TimeoutCoversAction
  <2>2. CASE StartAction([event |-> event, id |-> arrived + 1], FALSE)
    BY <1>0, <1>1, <2>2 DEF StartAction, ProcessRequest, MutexInv, TimeoutCoversAction
  <2> QED
    BY <1>1, <2>1, <2>2 DEF ProcessRequest, ProcessBluetoothSwitchAction
<1>2. CASE SetNoAutoConnect
  BY <1>0, <1>2 DEF SetNoAutoConnect, MutexInv, TimeoutCoversAction, queueVars
<1>3. CASE ResetNoAutoConnect
  <2>1. action # NoAction /\ action \in [step : {"reset", "call"},
          req : BluetoothSwitchCacheEvent, noAutoConnect : BOOLEAN, onQueue : BOOLEAN]
    BY <1>0, <1>3, <1>n, ActionType DEF ResetNoAutoConnect, TypeOK
  <2>2. action'.onQueue = action.onQueue
    BY <1>3, <2>1 DEF ResetNoAutoConnect
  <2> QED
    BY <1>0, <1>3, <2>1, <2>2 DEF ResetNoAutoConnect, MutexInv, TimeoutCoversAction, queueVars
<1>4. ASSUME NEW ret \in ActionResult, ActionReturn(ret)
      PROVE  MutexInv' /\ TimeoutCoversAction'
  <2>1. action # NoAction
    BY <1>4, <1>n DEF ActionReturn
  <2>2. action.onQueue => worker # TimeoutTask(taskTimeoutHandle)
    BY <1>0, <1>t, <2>1 DEF MutexInv
  <2> QED
    BY <1>0, <1>4, <2>2 DEF ActionReturn, MutexInv, TimeoutCoversAction
<1>5. ASSUME NEW state \in SwitchState, ProcessStateReport(state)
      PROVE  MutexInv' /\ TimeoutCoversAction'
  BY <1>5 DEF ProcessStateReport, ProcessBluetoothSwitchActionEnd, MutexInv,
              TimeoutCoversAction
<1>6. ASSUME NEW id \in timers, StartTimeoutTask(id)
      PROVE  MutexInv' /\ TimeoutCoversAction'
  BY <1>0, <1>t, <1>n, <1>6
  DEF StartTimeoutTask, MutexInv, TimeoutCoversAction, moduleVars
<1>7. CASE StartCachedTask
  <2>1. worker'.kind = "cached"
    BY <1>7 DEF StartCachedTask, CachedTask
  <2> QED
    BY <1>0, <1>t, <1>7, <2>1 DEF StartCachedTask, MutexInv, TimeoutCoversAction, moduleVars
<1>8. CASE OnTaskTimeout
  BY <1>8 DEF OnTaskTimeout, MutexInv, TimeoutCoversAction
<1>9. CASE RunCachedTask
  <2>1. worker # TimeoutTask(taskTimeoutHandle)
    BY <1>9, <1>t DEF RunCachedTask
  <2>2. CASE CacheRequest(worker.req)
    BY <1>0, <1>9, <2>1, <2>2 DEF CacheRequest, RunCachedTask, MutexInv, TimeoutCoversAction
  <2>3. CASE StartAction(worker.req, TRUE)
    BY <1>0, <1>9, <2>1, <2>3 DEF StartAction, RunCachedTask, MutexInv, TimeoutCoversAction
  <2> QED
    BY <1>9, <2>2, <2>3 DEF RunCachedTask, ProcessBluetoothSwitchAction
<1>10. CASE SkipTask
  BY <1>10 DEF SkipTask, MutexInv, TimeoutCoversAction
<1>11. CASE Destroy
  BY <1>0, <1>11 DEF Destroy, MutexInv, TimeoutCoversAction, moduleVars, queueVars
<1>12. CASE UNCHANGED vars
  BY <1>0, <1>12 DEF vars, moduleVars, queueVars, MutexInv, TimeoutCoversAction
<1> QED
  BY <1>1, <1>2, <1>3, <1>4, <1>5, <1>6, <1>7, <1>8, <1>9, <1>10, <1>11, <1>12
  DEF Next, ActionStep, QueueStep

LEMMA InitTimeoutInv == Init => TimeoutInv
  BY InitTypeOK DEF Init, TimeoutInv, MutexInv, TimeoutCoversAction

LEMMA TimeoutInvHolds == Spec => []TimeoutInv
  BY InitTimeoutInv, NextTimeoutInv, PTL DEF Spec

(***************************************************************************)
(* Whatever the races between reports, errors, cancelled and late timeout  *)
(* tasks: while a request is under way its own timeout is pending.         *)
(***************************************************************************)
THEOREM TimeoutAlwaysCovers == Spec => []TimeoutCoversAction
<1>1. TimeoutInv => TimeoutCoversAction
  BY DEF TimeoutInv
<1> QED
  BY <1>1, TimeoutInvHolds, PTL
(***************************************************************************)
(* The calls in a sequence of events, and the operations of the module.    *)
(***************************************************************************)
LEMMA IdsOfEmpty == IdsOf(<<>>) = {} /\ DistinctIds(<<>>)
  BY DEF IdsOf, DistinctIds

LEMMA IdsOfAppend ==
  ASSUME NEW vec \in Seq(BluetoothSwitchCacheEvent), NEW req \in BluetoothSwitchCacheEvent
  PROVE  /\ IdsOf(Append(vec, req)) = IdsOf(vec) \cup {req.id}
         /\ DistinctIds(vec) /\ req.id \notin IdsOf(vec) => DistinctIds(Append(vec, req))
<1> DEFINE longer == Append(vec, req)
<1>1. /\ longer \in Seq(BluetoothSwitchCacheEvent)
      /\ Len(longer) = Len(vec) + 1
      /\ \A i \in 1 .. Len(vec) : longer[i] = vec[i]
      /\ longer[Len(vec) + 1] = req
  OBVIOUS
<1>2. Len(vec) \in Nat
  OBVIOUS
<1> HIDE DEF longer
<1>3. IdsOf(longer) \subseteq IdsOf(vec) \cup {req.id}
  <2>1. SUFFICES ASSUME NEW i \in 1 .. Len(vec) + 1
                 PROVE  longer[i].id \in IdsOf(vec) \cup {req.id}
    BY <1>1 DEF IdsOf
  <2>2. CASE i = Len(vec) + 1
    BY <1>1, <2>2
  <2>3. CASE i # Len(vec) + 1
    <3>1. i \in 1 .. Len(vec)
      BY <1>2, <2>3
    <3> QED
      BY <1>1, <3>1 DEF IdsOf
  <2> QED
    BY <2>2, <2>3
<1>4. IdsOf(vec) \cup {req.id} \subseteq IdsOf(longer)
  <2>1. ASSUME NEW i \in 1 .. Len(vec) PROVE vec[i].id \in IdsOf(longer)
    <3>1. i \in 1 .. Len(longer) /\ longer[i] = vec[i]
      BY <1>1, <1>2
    <3> QED
      BY <3>1 DEF IdsOf
  <2>2. req.id \in IdsOf(longer)
    <3>1. Len(vec) + 1 \in 1 .. Len(longer)
      BY <1>1, <1>2
    <3> QED
      BY <1>1, <3>1 DEF IdsOf
  <2> QED
    BY <2>1, <2>2 DEF IdsOf
<1>5. ASSUME DistinctIds(vec), req.id \notin IdsOf(vec)
      PROVE  DistinctIds(longer)
  <2>1. SUFFICES ASSUME NEW i \in 1 .. Len(longer), NEW j \in 1 .. Len(longer),
                        longer[i].id = longer[j].id
                 PROVE  i = j
    BY DEF DistinctIds
  <2>2. \A k \in 1 .. Len(longer) :
          \/ k = Len(vec) + 1 /\ longer[k].id = req.id
          \/ k \in 1 .. Len(vec) /\ longer[k].id = vec[k].id /\ vec[k].id \in IdsOf(vec)
    BY <1>1, <1>2 DEF IdsOf
  <2> QED
    BY <1>5, <2>1, <2>2 DEF DistinctIds
<1> QED
  BY <1>3, <1>4, <1>5 DEF longer

LEMMA IdsOfBehind ==
  ASSUME NEW vec \in Seq(BluetoothSwitchCacheEvent), NEW k \in 0 .. Len(vec)
  PROVE  /\ IdsOf(Behind(vec, k)) \subseteq IdsOf(vec)
         /\ DistinctIds(vec) =>
              /\ DistinctIds(Behind(vec, k))
              /\ k # 0 => vec[k].id \notin IdsOf(Behind(vec, k))
<1> DEFINE rest == Behind(vec, k)
<1>1. /\ Len(rest) = Len(vec) - k
      /\ \A i \in 1 .. Len(vec) - k : rest[i] = vec[k + i]
  BY BehindElements
<1>2. \A i \in 1 .. Len(rest) :
        k + i \in 1 .. Len(vec) /\ k + i # k /\ rest[i].id = vec[k + i].id
  <2>1. Len(vec) \in Nat
    OBVIOUS
  <2> HIDE DEF rest
  <2> QED
    BY <1>1, <2>1
<1>3. Len(rest) \in Nat
  BY <1>1
<1> HIDE DEF rest
<1>4. IdsOf(rest) \subseteq IdsOf(vec)
  BY <1>2 DEF IdsOf
<1>5. ASSUME DistinctIds(vec) PROVE DistinctIds(rest)
  <2>1. SUFFICES ASSUME NEW i \in 1 .. Len(rest), NEW j \in 1 .. Len(rest),
                        rest[i].id = rest[j].id
                 PROVE  i = j
    BY DEF DistinctIds
  <2>2. k + i = k + j
    BY <1>2, <1>5, <2>1 DEF DistinctIds
  <2> QED
    BY <2>2
<1>6. ASSUME DistinctIds(vec), k # 0 PROVE vec[k].id \notin IdsOf(rest)
  BY <1>2, <1>6 DEF DistinctIds, IdsOf
<1> QED
  BY <1>4, <1>5, <1>6 DEF rest

LEMMA IdsOfTail ==
  ASSUME NEW vec \in Seq(BluetoothSwitchCacheEvent), vec # <<>>
  PROVE  /\ IdsOf(vec) = IdsOf(Tail(vec)) \cup {Head(vec).id}
         /\ DistinctIds(vec) =>
              DistinctIds(Tail(vec)) /\ Head(vec).id \notin IdsOf(Tail(vec))
<1>1. Len(vec) \in Nat /\ Len(vec) # 0 /\ 1 \in 1 .. Len(vec) /\ 1 \in 0 .. Len(vec)
  OBVIOUS
<1>2. Tail(vec) = Behind(vec, 1) /\ Head(vec) = vec[1]
  BY <1>1 DEF Behind
<1>3. IdsOf(vec) \subseteq IdsOf(Tail(vec)) \cup {Head(vec).id}
  <2>1. SUFFICES ASSUME NEW i \in 1 .. Len(vec), i # 1
                 PROVE  vec[i].id \in IdsOf(Tail(vec))
    BY <1>2 DEF IdsOf
  <2>2. /\ Len(Tail(vec)) = Len(vec) - 1
        /\ \A j \in 1 .. Len(vec) - 1 : Tail(vec)[j] = vec[1 + j]
    BY <1>1, <1>2, BehindElements
  <2>3. i - 1 \in 1 .. Len(Tail(vec)) /\ Tail(vec)[i - 1] = vec[i]
    BY <1>1, <2>1, <2>2
  <2> QED
    BY <2>3 DEF IdsOf
<1>4. Head(vec).id \in IdsOf(vec)
  BY <1>1, <1>2 DEF IdsOf
<1>5. /\ IdsOf(Behind(vec, 1)) \subseteq IdsOf(vec)
      /\ DistinctIds(vec) => /\ DistinctIds(Behind(vec, 1))
                             /\ vec[1].id \notin IdsOf(Behind(vec, 1))
  BY <1>1, IdsOfBehind
<1> QED
  BY <1>2, <1>3, <1>4, <1>5
(***************************************************************************)
(* Every call is handled at most once, and the module implements the       *)
(* ledger.  Both rest on the same invariant: calls that wait or were       *)
(* issued were made, a call under way is one that was made, and the places *)
(* in which calls wait are disjoint from each other and from the issued    *)
(* calls.                                                                  *)
(***************************************************************************)
OnceInv ==
  /\ TimeoutInv
  /\ HandledAtMostOnce
  /\ Pending \cup issued \subseteq 1 .. arrived
  /\ isBtSwitchProcessing => taskTimeoutHandle \in CallId

LEMMA NoReplayInTask ==
  ASSUME worker.kind # "cached"
  PROVE  StartedReplay = {}
  BY DEF StartedReplay, ReplayStarted

LEMMA InitOnceInv == Init => OnceInv /\ Ledger!LedgerInit
<1> SUFFICES ASSUME Init PROVE OnceInv /\ Ledger!LedgerInit
  OBVIOUS
<1>1. TimeoutInv
  BY InitTimeoutInv
<1>2. IdsOf(cachedEventVec) = {} /\ IdsOf(ffrtQueue) = {}
      /\ DistinctIds(cachedEventVec) /\ DistinctIds(ffrtQueue)
  BY IdsOfEmpty DEF Init
<1>3. StartedReplay = {}
  BY NoReplayInTask DEF Init, NoTask
<1>4. issued = {} /\ ~isBtSwitchProcessing /\ arrived = 0
  BY DEF Init
<1>5. OnceInv
  BY <1>1, <1>2, <1>3, <1>4 DEF OnceInv, HandledAtMostOnce, Pending, Replaying
<1>6. NotMade = CallId
  BY <1>4 DEF NotMade, CallId
<1>7. Ledger!LedgerInit
  BY <1>2, <1>3, <1>4, <1>6 DEF Ledger!LedgerInit, Pending, Replaying, UnderWay
<1> QED
  BY <1>5, <1>7

(***************************************************************************)
(* A step of the module that leaves every call in its place.               *)
(***************************************************************************)
LEMMA CallsStay ==
  ASSUME OnceInv, TimeoutInv',
         UNCHANGED <<cachedEventVec, ffrtQueue, issued, arrived, taskTimeoutHandle>>,
         StartedReplay' = StartedReplay,
         isBtSwitchProcessing' => isBtSwitchProcessing,
         alive' => alive
  PROVE  OnceInv' /\ [Ledger!LedgerNext]_(Ledger!lvars)
<1>1. OnceInv'
  BY DEF OnceInv, HandledAtMostOnce, Pending, Replaying
<1>2. Pending' = Pending /\ NotMade' = NotMade /\ issued' = issued
  BY DEF Pending, Replaying, NotMade
<1>3. UnderWay' = UnderWay \/ UnderWay' = 0
  BY DEF UnderWay
<1>4. [Ledger!LedgerNext]_(Ledger!lvars)
  BY <1>2, <1>3 DEF Ledger!LedgerNext, Ledger!Rest, Ledger!lvars
<1> QED
  BY <1>1, <1>4
LEMMA RequestKeepsOnce ==
  ASSUME OnceInv, TimeoutInv', NEW event \in SwitchRequest, ProcessRequest(event)
  PROVE  OnceInv' /\ Ledger!LedgerNext
<1> DEFINE n == arrived + 1
           req == [event |-> event, id |-> n]
<1>1. /\ arrived \in Nat /\ n \in CallId /\ arrived' = n /\ alive /\ alive' = alive
      /\ req \in BluetoothSwitchCacheEvent /\ req.id = n
      /\ cachedEventVec \in Seq(BluetoothSwitchCacheEvent)
      /\ ffrtQueue' = ffrtQueue /\ action = NoAction
  BY MaxRequestsAssumption
  DEF ProcessRequest, OnceInv, TimeoutInv, TypeOK, CallId, BluetoothSwitchCacheEvent
<1>2. /\ n \notin Pending \cup issued
      /\ Pending \cup issued \cup {n} \subseteq 1 .. n
      /\ n \in NotMade /\ NotMade' = NotMade \ {n}
  <2>1. Pending \cup issued \subseteq 1 .. arrived
    BY DEF OnceInv
  <2>2. n \notin Pending \cup issued /\ Pending \cup issued \cup {n} \subseteq 1 .. n
    BY <1>1, <2>1
  <2>3. n \in NotMade /\ NotMade' = NotMade \ {n}
    BY <1>1, MaxRequestsAssumption DEF NotMade, CallId
  <2> QED
    BY <2>2, <2>3
<1>3. StartedReplay' = StartedReplay
  <2>1. action' # NoAction => ~action'.onQueue
    BY <1>1 DEF ProcessRequest, ProcessBluetoothSwitchAction, CacheRequest, StartAction
  <2> QED
    BY <1>1, <2>1 DEF ProcessRequest, StartedReplay, ReplayStarted
<1> HIDE DEF n, req
<1>4. CASE CacheRequest(req)
  <2>1. /\ IdsOf(cachedEventVec') = IdsOf(cachedEventVec) \cup {n}
        /\ DistinctIds(cachedEventVec')
    BY <1>1, <1>2, <1>4, IdsOfAppend
    DEF CacheRequest, OnceInv, HandledAtMostOnce, Pending
  <2>2. /\ UNCHANGED <<issued, isBtSwitchProcessing, taskTimeoutHandle>>
        /\ isBtSwitchProcessing
    BY <1>4 DEF CacheRequest
  <2>3. Pending' = Pending \cup {n}
    BY <1>1, <1>3, <2>1 DEF Pending, Replaying
  <2>4. OnceInv'
    <3>1. HandledAtMostOnce'
      BY <1>1, <1>2, <1>3, <2>1, <2>2 DEF OnceInv, HandledAtMostOnce, Pending, Replaying
    <3> QED
      BY <1>1, <1>2, <2>2, <2>3, <3>1 DEF OnceInv
  <2>5. UnderWay' = UnderWay /\ UnderWay # 0
    BY <1>1, <2>2 DEF UnderWay, OnceInv, CallId
  <2>6. Ledger!Accept(n)
    BY <1>2, <2>2, <2>3, <2>5 DEF Ledger!Accept
  <2> QED
    BY <1>1, <2>4, <2>6 DEF Ledger!LedgerNext
<1>5. CASE StartAction(req, FALSE)
  <2>1. /\ cachedEventVec' = cachedEventVec /\ issued' = issued \cup {n}
        /\ taskTimeoutHandle' = n /\ isBtSwitchProcessing' /\ ~isBtSwitchProcessing
    BY <1>1, <1>5 DEF StartAction
  <2>2. Pending' = Pending
    BY <1>1, <1>3, <2>1 DEF Pending, Replaying
  <2>3. OnceInv'
    <3>1. HandledAtMostOnce'
      BY <1>1, <1>2, <1>3, <2>1 DEF OnceInv, HandledAtMostOnce, Pending, Replaying
    <3> QED
      BY <1>1, <1>2, <2>1, <2>2, <3>1 DEF OnceInv
  <2>4. UnderWay' = n /\ UnderWay = 0
    BY <1>1, <2>1 DEF UnderWay
  <2>5. Ledger!Issue(n)
    BY <1>2, <2>1, <2>2, <2>4 DEF Ledger!Issue
  <2> QED
    BY <1>1, <2>3, <2>5 DEF Ledger!LedgerNext
<1> QED
  BY <1>4, <1>5 DEF ProcessRequest, ProcessBluetoothSwitchAction, n, req

LEMMA ReportKeepsOnce ==
  ASSUME OnceInv, TimeoutInv', NEW state \in SwitchState, ProcessStateReport(state)
  PROVE  OnceInv' /\ Ledger!LedgerNext
<1>1. /\ UNCHANGED <<issued, arrived>> /\ ~isBtSwitchProcessing'
      /\ StartedReplay' = StartedReplay
  BY DEF ProcessStateReport, ProcessBluetoothSwitchActionEnd, StartedReplay, ReplayStarted
<1>2. /\ cachedEventVec \in Seq(BluetoothSwitchCacheEvent)
      /\ ffrtQueue \in Seq(BluetoothSwitchCacheEvent)
  BY DEF OnceInv, TimeoutInv, TypeOK
<1>3. \/ cachedEventVec' = <<>> /\ ffrtQueue' = ffrtQueue
      \/ \E k \in 1 .. Len(cachedEventVec) :
           /\ cachedEventVec' = Behind(cachedEventVec, k)
           /\ ffrtQueue' = Append(ffrtQueue, cachedEventVec[k])
  BY <1>2, ActionEndEffect DEF ProcessStateReport
<1>4. HandledAtMostOnce' /\ Pending' \subseteq Pending
  <2>1. CASE cachedEventVec' = <<>> /\ ffrtQueue' = ffrtQueue
    BY <1>1, <2>1, IdsOfEmpty DEF OnceInv, HandledAtMostOnce, Pending, Replaying
  <2>2. ASSUME NEW k \in 1 .. Len(cachedEventVec),
               cachedEventVec' = Behind(cachedEventVec, k),
               ffrtQueue' = Append(ffrtQueue, cachedEventVec[k])
        PROVE  HandledAtMostOnce' /\ Pending' \subseteq Pending
    <3> DEFINE id == cachedEventVec[k].id
    <3>1. /\ cachedEventVec[k] \in BluetoothSwitchCacheEvent
          /\ k \in 0 .. Len(cachedEventVec) /\ k # 0
      BY <1>2
    <3>2. id \in IdsOf(cachedEventVec)
      BY DEF IdsOf
    <3>3. /\ IdsOf(cachedEventVec') \subseteq IdsOf(cachedEventVec)
          /\ DistinctIds(cachedEventVec') /\ id \notin IdsOf(cachedEventVec')
      BY <1>2, <2>2, <3>1, IdsOfBehind DEF OnceInv, HandledAtMostOnce
    <3>4. /\ IdsOf(ffrtQueue') = IdsOf(ffrtQueue) \cup {id}
          /\ DistinctIds(ffrtQueue')
      BY <1>2, <2>2, <3>1, <3>2, IdsOfAppend DEF OnceInv, HandledAtMostOnce, Replaying
    <3> HIDE DEF id
    <3> QED
      BY <1>1, <3>2, <3>3, <3>4 DEF OnceInv, HandledAtMostOnce, Pending, Replaying
  <2> QED
    BY <1>3, <2>1, <2>2
<1>5. OnceInv'
  BY <1>1, <1>4 DEF OnceInv
<1>6. NotMade' = NotMade /\ UnderWay' = 0
  BY <1>1 DEF NotMade, UnderWay
<1> QED
  BY <1>1, <1>4, <1>5, <1>6 DEF Ledger!LedgerNext, Ledger!Rest

LEMMA RunCachedTaskKeepsOnce ==
  ASSUME OnceInv, TimeoutInv', RunCachedTask
  PROVE  OnceInv' /\ [Ledger!LedgerNext]_(Ledger!lvars)
<1> DEFINE n == worker.req.id
<1>1. /\ worker.req \in BluetoothSwitchCacheEvent /\ n \in CallId
      /\ worker.kind = "cached" /\ action = NoAction /\ alive /\ alive' = alive
      /\ ffrtQueue' = ffrtQueue /\ arrived' = arrived
      /\ cachedEventVec \in Seq(BluetoothSwitchCacheEvent)
  BY TaskType DEF RunCachedTask, OnceInv, TimeoutInv, TypeOK, BluetoothSwitchCacheEvent
<1>2. StartedReplay = {n} /\ NotMade' = NotMade
  BY <1>1 DEF StartedReplay, ReplayStarted, NotMade
<1>3. n \in Pending /\ n \notin issued /\ n \notin IdsOf(cachedEventVec)
      /\ n \in 1 .. arrived
      /\ n \notin IdsOf(ffrtQueue)
  BY <1>2 DEF OnceInv, HandledAtMostOnce, Pending, Replaying
<1>4. n \notin NotMade
  BY <1>1, <1>3 DEF NotMade, OnceInv, TimeoutInv, TypeOK, CallId
<1> HIDE DEF n
<1>5. CASE CacheRequest(worker.req)
  <2>1. /\ IdsOf(cachedEventVec') = IdsOf(cachedEventVec) \cup {n}
        /\ DistinctIds(cachedEventVec')
    BY <1>1, <1>3, <1>5, IdsOfAppend DEF CacheRequest, OnceInv, HandledAtMostOnce, n
  <2>2. /\ UNCHANGED <<issued, isBtSwitchProcessing, taskTimeoutHandle>>
        /\ isBtSwitchProcessing
    BY <1>5 DEF CacheRequest
  <2>3. StartedReplay' = {}
    BY <2>2, NoReplayInTask
    DEF RunCachedTask, NoTask, StartedReplay, ReplayStarted
  <2>4. Pending' = Pending
    BY <1>1, <1>2, <2>1, <2>3 DEF Pending, Replaying
  <2>5. OnceInv'
    BY <1>1, <1>2, <1>3, <2>1, <2>2, <2>3, <2>4
    DEF OnceInv, HandledAtMostOnce, Pending, Replaying
  <2>6. UnderWay' = UnderWay \/ UnderWay' = 0
    BY <1>1, <2>2 DEF UnderWay
  <2>7. Ledger!LedgerNext \/ UNCHANGED Ledger!lvars
    BY <1>2, <2>2, <2>4, <2>6 DEF Ledger!LedgerNext, Ledger!Rest, Ledger!lvars
  <2> QED
    BY <2>5, <2>7
<1>6. CASE StartAction(worker.req, TRUE)
  <2>1. /\ cachedEventVec' = cachedEventVec /\ issued' = issued \cup {n}
        /\ taskTimeoutHandle' = n /\ isBtSwitchProcessing' /\ ~isBtSwitchProcessing
    BY <1>1, <1>6 DEF StartAction, n
  <2>2. StartedReplay' = {}
    BY <1>6 DEF StartAction, StartedReplay, ReplayStarted, NoAction
  <2>3. Pending' = Pending \ {n}
    BY <1>1, <1>2, <1>3, <2>1, <2>2 DEF Pending, Replaying
  <2>4. OnceInv'
    <3>1. HandledAtMostOnce'
      BY <1>1, <1>2, <1>3, <2>1, <2>2 DEF OnceInv, HandledAtMostOnce, Pending, Replaying
    <3> QED
      BY <1>1, <1>3, <2>1, <2>3, <3>1 DEF OnceInv
  <2>5. UnderWay' = n /\ UnderWay = 0
    BY <1>1, <2>1 DEF UnderWay
  <2>6. Ledger!Issue(n)
    BY <1>2, <1>3, <1>4, <2>1, <2>3, <2>5 DEF Ledger!Issue
  <2> QED
    BY <1>1, <2>4, <2>6 DEF Ledger!LedgerNext
<1> QED
  BY <1>5, <1>6 DEF RunCachedTask, ProcessBluetoothSwitchAction
LEMMA NextOnceInv ==
  OnceInv /\ [Next]_vars => OnceInv' /\ [Ledger!LedgerNext]_(Ledger!lvars)
<1> SUFFICES ASSUME OnceInv, [Next]_vars
             PROVE  OnceInv' /\ [Ledger!LedgerNext]_(Ledger!lvars)
  OBVIOUS
<1>0. TimeoutInv' /\ TimeoutInv /\ TypeOK /\ MutexInv
  BY NextTimeoutInv DEF OnceInv, TimeoutInv
<1>n. NoTask.kind = "none" /\ NoAction.step = "none"
  BY DEF NoTask, NoAction
<1>1. ASSUME NEW event \in SwitchRequest, ProcessRequest(event)
      PROVE  OnceInv' /\ [Ledger!LedgerNext]_(Ledger!lvars)
  BY <1>0, <1>1, RequestKeepsOnce
<1>2. CASE SetNoAutoConnect
  BY <1>0, <1>2, CallsStay
  DEF SetNoAutoConnect, StartedReplay, ReplayStarted, queueVars, historyVars
<1>3. CASE ResetNoAutoConnect
  <2>1. action # NoAction /\ action \in [step : {"reset", "call"},
          req : BluetoothSwitchCacheEvent, noAutoConnect : BOOLEAN, onQueue : BOOLEAN]
    BY <1>0, <1>3, <1>n, ActionType DEF ResetNoAutoConnect, TypeOK
  <2>2. action'.onQueue = action.onQueue /\ action'.step = "call"
    BY <1>3, <2>1 DEF ResetNoAutoConnect
  <2>3. action' # NoAction
    BY <2>2, <1>n
  <2>4. StartedReplay' = StartedReplay
    BY <1>3, <2>1, <2>2, <2>3
    DEF ResetNoAutoConnect, StartedReplay, ReplayStarted, queueVars
  <2> QED
    BY <1>0, <1>3, <2>4, CallsStay DEF ResetNoAutoConnect, queueVars, historyVars
<1>4. ASSUME NEW ret \in ActionResult, ActionReturn(ret)
      PROVE  OnceInv' /\ [Ledger!LedgerNext]_(Ledger!lvars)
  <2>1. action # NoAction /\ action' = NoAction
    BY <1>4, <1>n DEF ActionReturn
  <2>2. StartedReplay' = StartedReplay
    BY <1>4, <1>n, <2>1 DEF ActionReturn, StartedReplay, ReplayStarted
  <2>3. isBtSwitchProcessing' => isBtSwitchProcessing
    BY <1>4 DEF ActionReturn
  <2> QED
    BY <1>0, <1>4, <2>2, <2>3, CallsStay DEF ActionReturn
<1>5. ASSUME NEW state \in SwitchState, ProcessStateReport(state)
      PROVE  OnceInv' /\ [Ledger!LedgerNext]_(Ledger!lvars)
  BY <1>0, <1>5, ReportKeepsOnce
<1>6. ASSUME NEW id \in timers, StartTimeoutTask(id)
      PROVE  OnceInv' /\ [Ledger!LedgerNext]_(Ledger!lvars)
  <2>1. StartedReplay' = StartedReplay
    BY <1>6, <1>n DEF StartTimeoutTask, TimeoutTask, StartedReplay, ReplayStarted
  <2> QED
    BY <1>0, <1>6, <2>1, CallsStay DEF StartTimeoutTask, moduleVars, historyVars
<1>7. CASE StartCachedTask
  <2> DEFINE n == Head(ffrtQueue).id
  <2>1. /\ ffrtQueue \in Seq(BluetoothSwitchCacheEvent) /\ ffrtQueue # <<>>
        /\ ffrtQueue' = Tail(ffrtQueue) /\ worker = NoTask
        /\ UNCHANGED <<cachedEventVec, isBtSwitchProcessing, taskTimeoutHandle, action,
                       alive, issued, arrived>>
    BY <1>0, <1>7 DEF StartCachedTask, TypeOK, moduleVars, historyVars
  <2>2. worker'.kind = "cached" /\ worker'.req.id = n
    BY <1>7 DEF StartCachedTask, CachedTask
  <2>3. StartedReplay = {} /\ StartedReplay' = {n}
    BY <1>0, <1>n, <2>1, <2>2 DEF StartedReplay, ReplayStarted, MutexInv
  <2>4. /\ IdsOf(ffrtQueue) = IdsOf(ffrtQueue') \cup {n}
        /\ DistinctIds(ffrtQueue') /\ n \notin IdsOf(ffrtQueue')
    BY <2>1, IdsOfTail DEF OnceInv, HandledAtMostOnce
  <2> HIDE DEF n
  <2>5. Pending' = Pending /\ HandledAtMostOnce'
    BY <2>1, <2>3, <2>4 DEF OnceInv, HandledAtMostOnce, Pending, Replaying
  <2>6. NotMade' = NotMade /\ UnderWay' = UnderWay
    BY <2>1 DEF NotMade, UnderWay
  <2> QED
    BY <1>0, <2>1, <2>5, <2>6 DEF OnceInv, Ledger!lvars
<1>8. CASE OnTaskTimeout
  <2>1. /\ cachedEventVec' = <<>> /\ ~isBtSwitchProcessing'
        /\ UNCHANGED <<ffrtQueue, issued, arrived>>
    BY <1>8 DEF OnTaskTimeout, historyVars
  <2>2. StartedReplay = {} /\ StartedReplay' = {}
    BY <1>8, <1>n DEF OnTaskTimeout, StartedReplay, ReplayStarted
  <2>3. Pending' \subseteq Pending /\ HandledAtMostOnce'
    BY <2>1, <2>2, IdsOfEmpty DEF OnceInv, HandledAtMostOnce, Pending, Replaying
  <2>4. NotMade' = NotMade /\ UnderWay' = 0
    BY <2>1 DEF NotMade, UnderWay
  <2> QED
    BY <1>0, <2>1, <2>3, <2>4 DEF OnceInv, Ledger!LedgerNext, Ledger!Rest
<1>9. CASE RunCachedTask
  BY <1>0, <1>9, RunCachedTaskKeepsOnce
<1>10. CASE SkipTask
  <2>1. /\ ~alive /\ alive' = alive
        /\ UNCHANGED <<cachedEventVec, isBtSwitchProcessing, taskTimeoutHandle, ffrtQueue,
                       issued, arrived>>
    BY <1>10 DEF SkipTask, moduleVars, historyVars
  <2>2. StartedReplay' = {}
    BY <1>10, <1>n DEF SkipTask, StartedReplay, ReplayStarted
  <2>3. Pending' \subseteq Pending /\ HandledAtMostOnce'
    BY <2>1, <2>2 DEF OnceInv, HandledAtMostOnce, Pending, Replaying
  <2>4. NotMade' = NotMade /\ UnderWay' = 0
    BY <2>1 DEF NotMade, UnderWay
  <2> QED
    BY <1>0, <2>1, <2>3, <2>4 DEF OnceInv, Ledger!LedgerNext, Ledger!Rest
<1>11. CASE Destroy
  <2>1. StartedReplay' = StartedReplay
    BY <1>11 DEF Destroy, StartedReplay, ReplayStarted, queueVars
  <2> QED
    BY <1>0, <1>11, <2>1, CallsStay DEF Destroy, moduleVars, queueVars, historyVars
<1>12. CASE UNCHANGED vars
  <2>1. StartedReplay' = StartedReplay
    BY <1>12 DEF vars, queueVars, StartedReplay, ReplayStarted
  <2> QED
    BY <1>0, <1>12, <2>1, CallsStay DEF vars, moduleVars, queueVars, historyVars
<1> QED
  BY <1>1, <1>2, <1>3, <1>4, <1>5, <1>6, <1>7, <1>8, <1>9, <1>10, <1>11, <1>12
  DEF Next, ActionStep, QueueStep

LEMMA OnceInvHolds == Spec => []OnceInv
  BY InitOnceInv, NextOnceInv, PTL DEF Spec

(***************************************************************************)
(* No call of an application is issued twice, and none waits in two places *)
(* at once, however replays are overtaken and cached again.                *)
(***************************************************************************)
THEOREM CallsHandledAtMostOnce == Spec => []HandledAtMostOnce
<1>1. OnceInv => HandledAtMostOnce
  BY DEF OnceInv
<1> QED
  BY <1>1, OnceInvHolds, PTL

(***************************************************************************)
(* The switch module implements the ledger: with cache, replay tasks and   *)
(* timeouts it does nothing that the ledger does not allow.                *)
(***************************************************************************)
THEOREM SwitchModuleImplementsLedger == Spec => ImplementsLedger
<1>1. ASSUME OnceInv, [Next]_vars PROVE [Ledger!LedgerNext]_(Ledger!lvars)
  BY <1>1, NextOnceInv
<1> QED
  BY <1>1, OnceInvHolds, InitOnceInv, PTL DEF Spec, ImplementsLedger, Ledger!LedgerSpec
(***************************************************************************)
(* Stranded requests                                                       *)
(***************************************************************************)
StrandedInv == TimeoutInv /\ StrandedOnlyByFailedAction

LEMMA NextStrandedInv == StrandedInv /\ [Next]_vars => StrandedInv'
<1> SUFFICES ASSUME StrandedInv, [Next]_vars PROVE StrandedOnlyByFailedAction'
  BY NextTimeoutInv DEF StrandedInv
<1>0. TypeOK /\ MutexInv /\ StrandedOnlyByFailedAction
  BY DEF StrandedInv, TimeoutInv
<1>n. NoTask.kind = "none" /\ NoAction.step = "none"
  BY DEF NoTask, NoAction
<1>1. ASSUME NEW event \in SwitchRequest, ProcessRequest(event)
      PROVE  StrandedOnlyByFailedAction'
  BY <1>1 DEF ProcessRequest, ProcessBluetoothSwitchAction, CacheRequest, StartAction,
              StrandedOnlyByFailedAction
<1>2. CASE SetNoAutoConnect
  BY <1>0, <1>2 DEF SetNoAutoConnect, StrandedOnlyByFailedAction, ReplayInFlight,
                    ReplayStarted, queueVars, historyVars
<1>3. CASE ResetNoAutoConnect
  <2>1. isBtSwitchProcessing
    BY <1>0, <1>3, <1>n DEF ResetNoAutoConnect, MutexInv
  <2> QED
    BY <1>3, <2>1 DEF ResetNoAutoConnect, StrandedOnlyByFailedAction
<1>4. ASSUME NEW ret \in ActionResult, ActionReturn(ret)
      PROVE  StrandedOnlyByFailedAction'
  <2>1. isBtSwitchProcessing
    BY <1>0, <1>4, <1>n DEF ActionReturn, MutexInv
  <2> QED
    BY <1>4, <2>1 DEF ActionReturn, StrandedOnlyByFailedAction
<1>5. ASSUME NEW state \in SwitchState, ProcessStateReport(state)
      PROVE  StrandedOnlyByFailedAction'
  <2>1. /\ cachedEventVec \in Seq(BluetoothSwitchCacheEvent)
        /\ ffrtQueue \in Seq(BluetoothSwitchCacheEvent)
    BY <1>0 DEF TypeOK
  <2>2. cachedEventVec' = <<>> \/ ffrtQueue' # <<>>
    <3>1. \A k \in 1 .. Len(cachedEventVec) : Append(ffrtQueue, cachedEventVec[k]) # <<>>
      BY <2>1
    <3> QED
      BY <1>5, <2>1, <3>1, ActionEndEffect DEF ProcessStateReport
  <2> QED
    BY <2>2 DEF StrandedOnlyByFailedAction, ReplayInFlight
<1>6. ASSUME NEW id \in timers, StartTimeoutTask(id)
      PROVE  StrandedOnlyByFailedAction'
  BY <1>0, <1>6, <1>n
  DEF StartTimeoutTask, StrandedOnlyByFailedAction, ReplayInFlight, ReplayStarted,
      moduleVars, historyVars
<1>7. CASE StartCachedTask
  <2>1. worker'.kind = "cached"
    BY <1>7 DEF StartCachedTask, CachedTask
  <2>2. action' # NoAction => ~action'.onQueue
    BY <1>0, <1>7, <1>n DEF StartCachedTask, MutexInv
  <2> QED
    BY <2>1, <2>2 DEF StrandedOnlyByFailedAction, ReplayInFlight, ReplayStarted
<1>8. CASE OnTaskTimeout
  BY <1>8 DEF OnTaskTimeout, StrandedOnlyByFailedAction
<1>9. CASE RunCachedTask
  BY <1>9 DEF RunCachedTask, ProcessBluetoothSwitchAction, CacheRequest, StartAction,
              StrandedOnlyByFailedAction
<1>10. CASE SkipTask
  BY <1>10 DEF SkipTask, StrandedOnlyByFailedAction
<1>11. CASE Destroy
  BY <1>11 DEF Destroy, StrandedOnlyByFailedAction
<1>12. CASE UNCHANGED vars
  BY <1>0, <1>12 DEF vars, moduleVars, queueVars, historyVars, StrandedOnlyByFailedAction,
                     ReplayInFlight, ReplayStarted
<1> QED
  BY <1>1, <1>2, <1>3, <1>4, <1>5, <1>6, <1>7, <1>8, <1>9, <1>10, <1>11, <1>12
  DEF Next, ActionStep, QueueStep

(***************************************************************************)
(* A cached request is left behind with nothing under way that would look  *)
(* at it again only if the last switch action returned an error.           *)
(***************************************************************************)
THEOREM NeverStrandedBySuccess == Spec => []StrandedOnlyByFailedAction
<1>1. Init => StrandedInv
  BY InitTimeoutInv DEF Init, StrandedInv, StrandedOnlyByFailedAction
<1>2. StrandedInv => StrandedOnlyByFailedAction
  BY DEF StrandedInv
<1> QED
  BY <1>1, <1>2, NextStrandedInv, PTL DEF Spec

(***************************************************************************)
(* The youngest request survives a report that allows it: deduplication    *)
(* cannot reach it, and the search for the next request stops at it or     *)
(* before it.                                                              *)
(***************************************************************************)
LEMMA ReportKeepsLast ==
  ASSUME TypeOK, NEW state \in SwitchState, ProcessStateReport(state),
         cachedEventVec # <<>>
  PROVE  LastSurvives(state)
<1> DEFINE n == Len(cachedEventVec)
           cur == CurSwitchActionEvent(state)
           expected == ExpectedEvents(state)
           vec == DeduplicateCacheEvent(cachedEventVec, cur)
           found == Positions(vec, expected)
           it == Min(found)
<1>1. /\ cachedEventVec \in Seq(BluetoothSwitchCacheEvent)
      /\ ffrtQueue \in Seq(BluetoothSwitchCacheEvent)
      /\ n \in Nat /\ n # 0
  BY DEF TypeOK
<1>2. cur \notin expected
  BY DEF CurSwitchActionEvent, ExpectedEvents, SwitchState, ENABLE_BLUETOOTH,
         DISABLE_BLUETOOTH, ENABLE_BLUETOOTH_TO_RESTRICE_MODE
<1>3. SUFFICES ASSUME cachedEventVec[n].event \in expected
               PROVE  \/ \E i \in 1 .. Len(cachedEventVec') :
                           cachedEventVec'[i] = cachedEventVec[n]
                      \/ \E i \in 1 .. Len(ffrtQueue') : ffrtQueue'[i] = cachedEventVec[n]
  BY DEF LastSurvives
<1>4. PICK pos \in 0 .. n :
        vec = Behind(cachedEventVec, pos) /\ (pos # 0 => cachedEventVec[pos].event = cur)
  BY <1>1, DeduplicateIsTail
<1>5. pos < n
  BY <1>1, <1>2, <1>3, <1>4
<1>6. /\ vec \in Seq(BluetoothSwitchCacheEvent) /\ Len(vec) = n - pos
      /\ \A i \in 1 .. n - pos : vec[i] = cachedEventVec[pos + i]
  BY <1>1, <1>4, BehindElements
<1>7. ProcessBluetoothSwitchActionEnd(cur, expected)
  BY DEF ProcessStateReport
<1>8. vec[n - pos] = cachedEventVec[n] /\ n - pos \in 1 .. Len(vec)
  <2>1. n - pos \in 1 .. n - pos /\ pos + (n - pos) = n
    BY <1>1, <1>5
  <2> HIDE DEF vec
  <2> QED
    BY <1>6, <2>1
<1>9. n - pos \in found /\ found \in SUBSET Nat
  BY <1>3, <1>8 DEF Positions
<1>10. it \in found /\ it <= n - pos
  <2> HIDE DEF found
  <2> QED
    BY <1>9, MinIsElement
<1>11. it \in 1 .. Len(vec)
  BY <1>10 DEF Positions
<1>12. cachedEventVec' = Behind(vec, it) /\ ffrtQueue' = Append(ffrtQueue, vec[it])
  BY <1>7, <1>9 DEF ProcessBluetoothSwitchActionEnd, ReplayFirst
<1> HIDE DEF n, cur, expected, vec, found, it
<1>13. CASE it = n - pos
  <2>1. /\ Len(ffrtQueue) + 1 \in 1 .. Len(ffrtQueue')
        /\ ffrtQueue'[Len(ffrtQueue) + 1] = vec[it]
    BY <1>1, <1>6, <1>11, <1>12
  <2> QED
    BY <1>8, <1>13, <2>1
<1>14. CASE it < n - pos
  <2>1. it \in 0 .. Len(vec)
    BY <1>11
  <2>2. /\ Len(cachedEventVec') = Len(vec) - it
        /\ \A i \in 1 .. Len(vec) - it : cachedEventVec'[i] = vec[it + i]
    BY <1>6, <1>12, <2>1, BehindElements
  <2>3. (n - pos) - it \in 1 .. Len(vec) - it /\ it + ((n - pos) - it) = n - pos
    BY <1>1, <1>6, <1>11, <1>14
  <2>4. cachedEventVec'[(n - pos) - it] = cachedEventVec[n]
    BY <1>8, <2>2, <2>3
  <2> QED
    BY <2>2, <2>3, <2>4
<1> QED
  BY <1>1, <1>6, <1>10, <1>11, <1>13, <1>14

(***************************************************************************)
(* No state report drops the users' last word.                             *)
(***************************************************************************)
THEOREM LastRequestNeverDropped == Spec => LastRequestSurvivesReport
<1>1. ASSUME TypeOK
      PROVE  [\A state \in SwitchState :
                ProcessStateReport(state) /\ cachedEventVec # <<>> => LastSurvives(state)]_vars
  BY <1>1, ReportKeepsLast
<1> QED
  BY <1>1, TypeCorrect, PTL DEF LastRequestSurvivesReport

(***************************************************************************)
(* The order of the calls.  As long as nothing disturbed it, a replay is   *)
(* the only one and the module waits for it, so that neither a new call    *)
(* nor a second replay overtakes it; and no request is left in the cache   *)
(* with nothing ahead of it, where the next call would overtake it.        *)
(***************************************************************************)
AloneInv ==
  ~disturbed =>
    /\ ReplayInFlight => ~isBtSwitchProcessing /\ Len(ffrtQueue) <= 1
    /\ ReplayStarted => ffrtQueue = <<>>
    /\ alive /\ cachedEventVec # <<>> => isBtSwitchProcessing \/ ReplayInFlight

OrderInv == OnceInv /\ AloneInv /\ InOrderUnlessDisturbed

Sorted(vec) == \A i, j \in 1 .. Len(vec) : i < j => vec[i].id < vec[j].id

LEMMA SortedAppend ==
  ASSUME NEW vec \in Seq(BluetoothSwitchCacheEvent), NEW req \in BluetoothSwitchCacheEvent,
         Sorted(vec), \A id \in IdsOf(vec) : id < req.id
  PROVE  Sorted(Append(vec, req))
<1> DEFINE longer == Append(vec, req)
<1>1. /\ Len(longer) = Len(vec) + 1
      /\ \A i \in 1 .. Len(vec) : longer[i] = vec[i] /\ vec[i].id \in IdsOf(vec)
      /\ longer[Len(vec) + 1] = req
      /\ Len(vec) \in Nat
  BY DEF IdsOf
<1> HIDE DEF longer
<1>2. ASSUME NEW i \in 1 .. Len(longer), NEW j \in 1 .. Len(longer), i < j
      PROVE  longer[i].id < longer[j].id
  <2>1. i \in 1 .. Len(vec)
    BY <1>1, <1>2
  <2>2. CASE j = Len(vec) + 1
    BY <1>1, <2>1, <2>2
  <2>3. CASE j # Len(vec) + 1
    <3>1. j \in 1 .. Len(vec)
      BY <1>1, <2>3
    <3> QED
      BY <1>1, <1>2, <2>1, <3>1 DEF Sorted
  <2> QED
    BY <2>2, <2>3
<1> QED
  BY <1>2 DEF Sorted, longer

LEMMA SortedBehind ==
  ASSUME NEW vec \in Seq(BluetoothSwitchCacheEvent), NEW k \in 1 .. Len(vec), Sorted(vec)
  PROVE  Sorted(Behind(vec, k)) /\ \A id \in IdsOf(Behind(vec, k)) : vec[k].id < id
<1> DEFINE rest == Behind(vec, k)
<1>1. /\ Len(rest) = Len(vec) - k
      /\ \A i \in 1 .. Len(vec) - k : rest[i] = vec[k + i]
      /\ Len(vec) \in Nat
  BY BehindElements
<1> HIDE DEF rest
<1>2. \A i \in 1 .. Len(rest) : k + i \in 1 .. Len(vec) /\ k < k + i /\ rest[i] = vec[k + i]
  BY <1>1
<1>3. ASSUME NEW i \in 1 .. Len(rest), NEW j \in 1 .. Len(rest), i < j
      PROVE  rest[i].id < rest[j].id
  <2>1. k + i < k + j
    BY <1>3
  <2> QED
    BY <1>2, <2>1 DEF Sorted
<1>4. \A i \in 1 .. Len(rest) : vec[k].id < rest[i].id
  BY <1>2 DEF Sorted
<1> QED
  BY <1>3, <1>4 DEF Sorted, IdsOf, rest

LEMMA OrderStays ==
  ASSUME AloneInv, InOrderUnlessDisturbed,
         UNCHANGED <<cachedEventVec, ffrtQueue, isBtSwitchProcessing, issued, disturbed>>,
         StartedReplay' = StartedReplay, ReplayStarted' <=> ReplayStarted,
         alive' => alive
  PROVE  AloneInv' /\ InOrderUnlessDisturbed'
<1>1. AloneInv'
  BY DEF AloneInv, ReplayInFlight
<1>2. InOrderUnlessDisturbed'
  BY DEF InOrderUnlessDisturbed, Replaying
<1> QED
  BY <1>1, <1>2

LEMMA NoReplay ==
  ASSUME ~ReplayInFlight
  PROVE  Replaying = {} /\ StartedReplay = {} /\ ffrtQueue = <<>> /\ ~ReplayStarted
  BY IdsOfEmpty DEF ReplayInFlight, Replaying, StartedReplay

LEMMA RequestKeepsOrder ==
  ASSUME OrderInv, NEW event \in SwitchRequest, ProcessRequest(event)
  PROVE  AloneInv' /\ InOrderUnlessDisturbed'
<1> SUFFICES ASSUME ~disturbed'
             PROVE  AloneInv' /\ InOrderUnlessDisturbed'
  BY DEF AloneInv, InOrderUnlessDisturbed
<1> DEFINE n == arrived + 1
           req == [event |-> event, id |-> n]
<1>1. /\ arrived \in Nat /\ alive
      /\ req \in BluetoothSwitchCacheEvent /\ req.id = n
      /\ cachedEventVec \in Seq(BluetoothSwitchCacheEvent)
      /\ ffrtQueue' = ffrtQueue /\ worker' = worker /\ action = NoAction
      /\ ~disturbed /\ ~ReplayInFlight
  <2>1. /\ arrived \in 0 .. MaxRequests
        /\ cachedEventVec \in Seq(BluetoothSwitchCacheEvent)
    BY DEF OrderInv, OnceInv, TimeoutInv, TypeOK
  <2>2. n \in CallId
    BY <2>1, MaxRequestsAssumption DEF ProcessRequest, CallId
  <2>3. req \in BluetoothSwitchCacheEvent /\ req.id = n
    BY <2>2 DEF BluetoothSwitchCacheEvent
  <2>4. ~disturbed /\ ~ReplayInFlight /\ alive
    BY DEF ProcessRequest
  <2>5. ffrtQueue' = ffrtQueue /\ worker' = worker /\ action = NoAction
    BY DEF ProcessRequest
  <2>6. arrived \in Nat
    BY <2>1, MaxRequestsAssumption
  <2> HIDE DEF n, req
  <2> QED
    BY <2>1, <2>3, <2>4, <2>5, <2>6
<1>2. \A id \in Pending \cup issued : id < n
  <2>1. Pending \cup issued \subseteq 1 .. arrived
    BY DEF OrderInv, OnceInv
  <2> QED
    BY <1>1, <2>1
<1>3. ffrtQueue' = <<>> /\ ~ReplayStarted'
  <2>1. worker.kind # "cached"
    BY <1>1 DEF ReplayInFlight, ReplayStarted
  <2> QED
    BY <1>1, <2>1, NoReplay DEF ReplayStarted
<1>4. ~ReplayInFlight' /\ Replaying' = {}
  BY <1>3, IdsOfEmpty DEF ReplayInFlight, Replaying, StartedReplay
<1> HIDE DEF n, req
<1>5. CASE CacheRequest(req)
  <2>1. /\ isBtSwitchProcessing' /\ issued' = issued
        /\ cachedEventVec' = Append(cachedEventVec, req)
    BY <1>5 DEF CacheRequest
  <2>2. IdsOf(cachedEventVec') = IdsOf(cachedEventVec) \cup {n}
    BY <1>1, <2>1, IdsOfAppend
  <2>3. Sorted(cachedEventVec')
    BY <1>1, <1>2, <2>1, SortedAppend DEF OrderInv, InOrderUnlessDisturbed, Sorted, Pending
  <2>4. \A new \in IdsOf(cachedEventVec'), old \in issued : old < new
    BY <1>1, <1>2, <2>2 DEF OrderInv, InOrderUnlessDisturbed
  <2> QED
    BY <1>3, <1>4, <2>1, <2>3, <2>4 DEF AloneInv, InOrderUnlessDisturbed, Sorted
<1>6. CASE StartAction(req, FALSE)
  <2>1. isBtSwitchProcessing' /\ cachedEventVec' = cachedEventVec /\ ~isBtSwitchProcessing
    BY <1>6 DEF StartAction
  <2>2. cachedEventVec = <<>>
    BY <1>1, <2>1 DEF OrderInv, AloneInv
  <2>3. IdsOf(cachedEventVec') = {} /\ Len(cachedEventVec') = 0
    BY <2>1, <2>2, IdsOfEmpty
  <2> QED
    BY <1>3, <1>4, <2>1, <2>2, <2>3 DEF AloneInv, InOrderUnlessDisturbed
<1> QED
  BY <1>5, <1>6 DEF ProcessRequest, ProcessBluetoothSwitchAction, n, req

LEMMA ReportKeepsOrder ==
  ASSUME OrderInv, NEW state \in SwitchState, ProcessStateReport(state)
  PROVE  AloneInv' /\ InOrderUnlessDisturbed'
<1> SUFFICES ASSUME ~disturbed'
             PROVE  AloneInv' /\ InOrderUnlessDisturbed'
  BY DEF AloneInv, InOrderUnlessDisturbed
<1>1. /\ cachedEventVec \in Seq(BluetoothSwitchCacheEvent) /\ ~disturbed /\ ~ReplayInFlight
      /\ ~isBtSwitchProcessing' /\ issued' = issued
      /\ (ReplayStarted' <=> ReplayStarted)
  BY DEF ProcessStateReport, ProcessBluetoothSwitchActionEnd, OrderInv, OnceInv, TimeoutInv,
         TypeOK, ReplayStarted
<1>2. ffrtQueue = <<>> /\ StartedReplay' = {} /\ ~ReplayStarted'
  BY <1>1, NoReplay DEF StartedReplay
<1>3. \/ cachedEventVec' = <<>> /\ ffrtQueue' = ffrtQueue
      \/ \E k \in 1 .. Len(cachedEventVec) :
           /\ cachedEventVec' = Behind(cachedEventVec, k)
           /\ ffrtQueue' = Append(ffrtQueue, cachedEventVec[k])
  BY <1>1, ActionEndEffect DEF ProcessStateReport
<1>4. CASE cachedEventVec' = <<>> /\ ffrtQueue' = ffrtQueue
  <2>1. /\ IdsOf(cachedEventVec') = {} /\ Len(cachedEventVec') = 0 /\ Replaying' = {}
        /\ Len(ffrtQueue') <= 1
    BY <1>2, <1>4, IdsOfEmpty DEF Replaying
  <2> QED
    BY <1>1, <1>2, <1>4, <2>1 DEF AloneInv, InOrderUnlessDisturbed
<1>5. ASSUME NEW k \in 1 .. Len(cachedEventVec),
             cachedEventVec' = Behind(cachedEventVec, k),
             ffrtQueue' = Append(ffrtQueue, cachedEventVec[k])
      PROVE  AloneInv' /\ InOrderUnlessDisturbed'
  <2> DEFINE id == cachedEventVec[k].id
  <2>1. /\ cachedEventVec[k] \in BluetoothSwitchCacheEvent
        /\ id \in IdsOf(cachedEventVec) /\ k \in 0 .. Len(cachedEventVec)
    BY <1>1 DEF IdsOf
  <2>2. Len(ffrtQueue') = 1 /\ ffrtQueue' # <<>> /\ ffrtQueue' = <<cachedEventVec[k]>>
    BY <1>2, <1>5
  <2>3. Replaying' = {id}
    BY <1>2, <2>2 DEF Replaying, IdsOf
  <2>4. Sorted(cachedEventVec)
    BY <1>1 DEF OrderInv, InOrderUnlessDisturbed, Sorted
  <2>5. /\ Sorted(cachedEventVec')
        /\ \A new \in IdsOf(cachedEventVec') : id < new
    BY <1>1, <1>5, <2>4, SortedBehind
  <2>6. IdsOf(cachedEventVec') \subseteq IdsOf(cachedEventVec)
    BY <1>1, <1>5, <2>1, IdsOfBehind
  <2>7. \A new \in IdsOf(cachedEventVec), old \in issued : old < new
    BY <1>1 DEF OrderInv, InOrderUnlessDisturbed
  <2> HIDE DEF id
  <2>8. InOrderUnlessDisturbed'
    BY <1>1, <2>1, <2>3, <2>5, <2>6, <2>7 DEF InOrderUnlessDisturbed, Sorted
  <2>9. AloneInv'
    BY <1>1, <1>2, <2>2 DEF AloneInv, ReplayInFlight
  <2> QED
    BY <2>8, <2>9
<1> QED
  BY <1>3, <1>4, <1>5

LEMMA RunCachedTaskKeepsOrder ==
  ASSUME OrderInv, RunCachedTask
  PROVE  AloneInv' /\ InOrderUnlessDisturbed'
<1> SUFFICES ASSUME ~disturbed'
             PROVE  AloneInv' /\ InOrderUnlessDisturbed'
  BY DEF AloneInv, InOrderUnlessDisturbed
<1> DEFINE n == worker.req.id
<1>1. /\ ~disturbed /\ ReplayStarted /\ ReplayInFlight
      /\ ffrtQueue' = ffrtQueue
  BY DEF RunCachedTask, ReplayStarted, ReplayInFlight
<1>2. ~isBtSwitchProcessing /\ ffrtQueue = <<>>
  BY <1>1 DEF OrderInv, AloneInv
<1>3. StartAction(worker.req, TRUE)
  BY <1>2 DEF RunCachedTask, ProcessBluetoothSwitchAction, CacheRequest
<1>4. /\ cachedEventVec' = cachedEventVec /\ issued' = issued \cup {n}
      /\ isBtSwitchProcessing' /\ action'.onQueue /\ action'.step # "none"
  BY <1>3 DEF StartAction
<1>5. ~ReplayStarted' /\ ~ReplayInFlight' /\ Replaying' = {}
  <2>1. action' # NoAction
    BY <1>4 DEF NoAction
  <2> QED
    BY <1>1, <1>2, <1>4, <2>1, IdsOfEmpty
    DEF ReplayStarted, ReplayInFlight, Replaying, StartedReplay
<1>6. n \in Replaying
  BY <1>1 DEF Replaying, StartedReplay
<1> HIDE DEF n
<1>7. InOrderUnlessDisturbed'
  BY <1>1, <1>4, <1>5, <1>6 DEF OrderInv, InOrderUnlessDisturbed
<1> QED
  BY <1>1, <1>2, <1>4, <1>5, <1>7 DEF AloneInv

LEMMA NextOrderInv == OrderInv /\ [Next]_vars => OrderInv'
<1> SUFFICES ASSUME OrderInv, [Next]_vars PROVE AloneInv' /\ InOrderUnlessDisturbed'
  BY NextOnceInv DEF OrderInv
<1>0. TypeOK /\ MutexInv /\ AloneInv /\ InOrderUnlessDisturbed
  BY DEF OrderInv, OnceInv, TimeoutInv
<1>n. NoTask.kind = "none" /\ NoAction.step = "none"
  BY DEF NoTask, NoAction
<1>1. ASSUME NEW event \in SwitchRequest, ProcessRequest(event)
      PROVE  AloneInv' /\ InOrderUnlessDisturbed'
  BY <1>1, RequestKeepsOrder
<1>2. CASE SetNoAutoConnect
  BY <1>0, <1>2, OrderStays
  DEF SetNoAutoConnect, StartedReplay, ReplayStarted, queueVars, historyVars
<1>3. CASE ResetNoAutoConnect
  <2>1. action # NoAction /\ action \in [step : {"reset", "call"},
          req : BluetoothSwitchCacheEvent, noAutoConnect : BOOLEAN, onQueue : BOOLEAN]
    BY <1>0, <1>3, <1>n, ActionType DEF ResetNoAutoConnect, TypeOK
  <2>2. action'.onQueue = action.onQueue /\ action'.step = "call"
    BY <1>3, <2>1 DEF ResetNoAutoConnect
  <2>3. action' # NoAction
    BY <2>2, <1>n
  <2>4. StartedReplay' = StartedReplay /\ (ReplayStarted' <=> ReplayStarted)
    BY <1>3, <2>1, <2>2, <2>3
    DEF ResetNoAutoConnect, StartedReplay, ReplayStarted, queueVars
  <2> QED
    BY <1>0, <1>3, <2>4, OrderStays DEF ResetNoAutoConnect, queueVars, historyVars
<1>4. ASSUME NEW ret \in ActionResult, ActionReturn(ret)
      PROVE  AloneInv' /\ InOrderUnlessDisturbed'
  <2>1. action # NoAction /\ action' = NoAction /\ isBtSwitchProcessing
    BY <1>0, <1>4, <1>n DEF ActionReturn, MutexInv
  <2>2. StartedReplay' = StartedReplay /\ (ReplayStarted' <=> ReplayStarted)
    BY <1>4, <1>n, <2>1 DEF ActionReturn, StartedReplay, ReplayStarted
  <2>3. UNCHANGED <<cachedEventVec, ffrtQueue, issued, alive>>
    BY <1>4 DEF ActionReturn
  <2>4. /\ disturbed => disturbed'
        /\ ~disturbed' => cachedEventVec = <<>> \/ isBtSwitchProcessing'
    BY <1>4, <2>1 DEF ActionReturn
  <2>5. AloneInv'
    BY <1>0, <2>1, <2>2, <2>3, <2>4 DEF AloneInv, ReplayInFlight
  <2>6. InOrderUnlessDisturbed'
    BY <1>0, <2>2, <2>3, <2>4 DEF InOrderUnlessDisturbed, Replaying
  <2> QED
    BY <2>5, <2>6
<1>5. ASSUME NEW state \in SwitchState, ProcessStateReport(state)
      PROVE  AloneInv' /\ InOrderUnlessDisturbed'
  BY <1>5, ReportKeepsOrder
<1>6. ASSUME NEW id \in timers, StartTimeoutTask(id)
      PROVE  AloneInv' /\ InOrderUnlessDisturbed'
  <2>1. StartedReplay' = StartedReplay /\ (ReplayStarted' <=> ReplayStarted)
    BY <1>6, <1>n DEF StartTimeoutTask, TimeoutTask, StartedReplay, ReplayStarted
  <2> QED
    BY <1>0, <1>6, <2>1, OrderStays DEF StartTimeoutTask, moduleVars, historyVars
<1>7. CASE StartCachedTask
  <2> DEFINE n == Head(ffrtQueue).id
  <2>1. /\ ffrtQueue \in Seq(BluetoothSwitchCacheEvent) /\ ffrtQueue # <<>>
        /\ ffrtQueue' = Tail(ffrtQueue) /\ worker = NoTask
        /\ UNCHANGED <<cachedEventVec, isBtSwitchProcessing, action, alive, issued,
                       disturbed>>
    BY <1>0, <1>7 DEF StartCachedTask, TypeOK, moduleVars, historyVars
  <2>2. worker'.kind = "cached" /\ worker'.req.id = n
    BY <1>7 DEF StartCachedTask, CachedTask
  <2>3. StartedReplay = {} /\ StartedReplay' = {n} /\ ReplayStarted'
    BY <1>0, <1>n, <2>1, <2>2 DEF StartedReplay, ReplayStarted, MutexInv
  <2>4. IdsOf(ffrtQueue) = IdsOf(ffrtQueue') \cup {n}
    BY <2>1, IdsOfTail
  <2>5. ~disturbed => ffrtQueue' = <<>> /\ ~isBtSwitchProcessing
    <3>1. ~disturbed => Len(ffrtQueue) <= 1 /\ ~isBtSwitchProcessing
      BY <1>0, <2>1 DEF AloneInv, ReplayInFlight
    <3>2. Len(ffrtQueue) <= 1 => ffrtQueue' = <<>>
      BY <2>1
    <3> QED
      BY <3>1, <3>2
  <2> HIDE DEF n
  <2>6. Replaying' = Replaying
    BY <2>1, <2>3, <2>4 DEF Replaying
  <2>7. InOrderUnlessDisturbed'
    BY <1>0, <2>1, <2>6 DEF InOrderUnlessDisturbed
  <2>8. AloneInv'
    BY <2>1, <2>3, <2>5 DEF AloneInv, ReplayInFlight
  <2> QED
    BY <2>7, <2>8
<1>8. CASE OnTaskTimeout
  <2>1. /\ cachedEventVec' = <<>> /\ ~isBtSwitchProcessing'
        /\ UNCHANGED <<ffrtQueue, issued, disturbed>>
    BY <1>8 DEF OnTaskTimeout, historyVars
  <2>2. StartedReplay = {} /\ StartedReplay' = {} /\ ~ReplayStarted /\ ~ReplayStarted'
    BY <1>8, <1>n DEF OnTaskTimeout, StartedReplay, ReplayStarted
  <2>3. Replaying' = Replaying /\ IdsOf(cachedEventVec') = {} /\ Len(cachedEventVec') = 0
    BY <2>1, <2>2, IdsOfEmpty DEF Replaying
  <2> QED
    BY <1>0, <2>1, <2>2, <2>3 DEF AloneInv, InOrderUnlessDisturbed, ReplayInFlight
<1>9. CASE RunCachedTask
  BY <1>9, RunCachedTaskKeepsOrder
<1>10. CASE SkipTask
  <2>1. /\ ~alive' /\ UNCHANGED <<cachedEventVec, isBtSwitchProcessing, ffrtQueue, issued,
                                  disturbed>>
    BY <1>10 DEF SkipTask, moduleVars, historyVars
  <2>2. StartedReplay' = {} /\ ~ReplayStarted'
    BY <1>10, <1>n DEF SkipTask, StartedReplay, ReplayStarted
  <2>3. Replaying' \subseteq Replaying
    BY <2>1, <2>2 DEF Replaying
  <2> QED
    BY <1>0, <2>1, <2>2, <2>3 DEF AloneInv, InOrderUnlessDisturbed, ReplayInFlight
<1>11. CASE Destroy
  <2>1. StartedReplay' = StartedReplay /\ (ReplayStarted' <=> ReplayStarted)
    BY <1>11 DEF Destroy, StartedReplay, ReplayStarted, queueVars
  <2> QED
    BY <1>0, <1>11, <2>1, OrderStays DEF Destroy, moduleVars, queueVars, historyVars
<1>12. CASE UNCHANGED vars
  <2>1. StartedReplay' = StartedReplay /\ (ReplayStarted' <=> ReplayStarted)
    BY <1>12 DEF vars, queueVars, StartedReplay, ReplayStarted
  <2> QED
    BY <1>0, <1>12, <2>1, OrderStays DEF vars, moduleVars, queueVars, historyVars
<1> QED
  BY <1>1, <1>2, <1>3, <1>4, <1>5, <1>6, <1>7, <1>8, <1>9, <1>10, <1>11, <1>12
  DEF Next, ActionStep, QueueStep

LEMMA InitOrderInv == Init => OrderInv
<1> SUFFICES ASSUME Init PROVE AloneInv /\ InOrderUnlessDisturbed
  BY InitOnceInv DEF OrderInv
<1>1. /\ cachedEventVec = <<>> /\ ffrtQueue = <<>> /\ issued = {} /\ ~ReplayStarted
  BY DEF Init, ReplayStarted, NoTask
<1>2. IdsOf(cachedEventVec) = {} /\ Len(cachedEventVec) = 0 /\ Len(ffrtQueue) <= 1
  BY <1>1, IdsOfEmpty
<1> QED
  BY <1>1, <1>2 DEF AloneInv, InOrderUnlessDisturbed, ReplayInFlight

(***************************************************************************)
(* ProcessBluetoothSwitchAction and its replays issue the requests in the  *)
(* order of the calls, unless a call or a report came between a report and *)
(* the replay that follows it, or an action failed with requests behind.   *)
(***************************************************************************)
THEOREM IssuedInOrder == Spec => []InOrderUnlessDisturbed
<1>1. OrderInv => InOrderUnlessDisturbed
  BY DEF OrderInv
<1> QED
  BY <1>1, InitOrderInv, NextOrderInv, PTL DEF Spec
-----------------------------------------------------------------------------
(***************************************************************************)
(* The host around the switch module.  Each of its steps is a step of the  *)
(* module or leaves the module alone, so that the invariants of the module *)
(* hold of the host too.                                                   *)
(***************************************************************************)
HostTypeOK ==
  /\ restrictCall \in {"none", "disable", "restrict"}
  /\ radio \in SwitchState
  /\ operations \in Seq(SwitchRequest)
  /\ reports \in Seq(SwitchState)
  /\ noAutoSets \in Nat
  /\ IsFiniteSet(granted)

LEMMA HostStepIsModuleStep == HostTypeOK /\ [HostNext]_hvars => [Next]_vars
<1> SUFFICES ASSUME HostTypeOK, [HostNext]_hvars PROVE [Next]_vars
  OBVIOUS
<1>1. ENABLE_BLUETOOTH \in SwitchRequest /\ DISABLE_BLUETOOTH \in SwitchRequest
      /\ ENABLE_BLUETOOTH_TO_RESTRICE_MODE \in SwitchRequest
  BY DEF SwitchRequest
<1>2. ASSUME NEW event \in SwitchRequest, SwitchCall(event) PROVE Next
  BY <1>2 DEF SwitchCall, Next
<1>3. CASE NoAutoConnectSet
  BY <1>3 DEF NoAutoConnectSet, Next
<1>4. CASE NoAutoConnectEnable
  BY <1>1, <1>4 DEF NoAutoConnectEnable, Next
<1>5. CASE RestrictBluetooth
  BY <1>1, <1>5 DEF RestrictBluetooth, Next
<1>6. CASE RestrictSecondEvent
  BY <1>1, <1>6 DEF RestrictSecondEvent, Next
<1>7. CASE HostClose
  BY <1>7 DEF HostClose, Next
<1>8. CASE HostActionStep
  BY <1>8 DEF HostActionStep, HostResetNoAutoConnect, HostActionReturn, Next, ActionStep
<1>9. CASE ServicePerforms \/ ServiceDies
  BY <1>9 DEF ServicePerforms, ServiceDies
<1>10. CASE OnBluetoothStateChanged
  <2>1. ProcessStateReport(Head(reports)) /\ reports # <<>>
    BY <1>10 DEF OnBluetoothStateChanged
  <2>2. Head(reports) \in SwitchState
    BY <2>1 DEF HostTypeOK
  <2> QED
    BY <2>1, <2>2 DEF Next
<1>11. CASE OnRemoveBluetoothSystemAbility
  BY <1>11 DEF OnRemoveBluetoothSystemAbility, Next, SwitchState
<1>12. CASE HostOnTaskTimeout
  BY <1>12 DEF HostOnTaskTimeout, Next, QueueStep
<1>13. CASE HostQueueStep
  BY <1>13 DEF HostQueueStep, Next, QueueStep
<1>14. CASE UNCHANGED hvars
  BY <1>14 DEF hvars
<1> QED
  BY <1>1, <1>2, <1>3, <1>4, <1>5, <1>6, <1>7, <1>8, <1>9, <1>10, <1>11, <1>12, <1>13, <1>14
  DEF HostNext, EnableBle, DisableBt, EnableBluetoothToRestrictMode, OnBluetoothSwitchAction

LEMMA TargetType == \A event \in SwitchRequest : TargetOf(event) \in SwitchState
  BY DEF SwitchRequest, SwitchState, TargetOf, ENABLE_BLUETOOTH, DISABLE_BLUETOOTH,
         ENABLE_BLUETOOTH_TO_RESTRICE_MODE

LEMMA NextHostTypeOK == TypeOK /\ HostTypeOK /\ [HostNext]_hvars => HostTypeOK'
<1> SUFFICES ASSUME TypeOK, HostTypeOK, [HostNext]_hvars PROVE HostTypeOK'
  OBVIOUS
<1>1. ASSUME NEW event \in SwitchRequest, SwitchCall(event) PROVE HostTypeOK'
  BY <1>1 DEF SwitchCall, HostTypeOK, serviceVars
<1>2. ENABLE_BLUETOOTH \in SwitchRequest /\ DISABLE_BLUETOOTH \in SwitchRequest
      /\ ENABLE_BLUETOOTH_TO_RESTRICE_MODE \in SwitchRequest
  BY DEF SwitchRequest
<1>3. CASE NoAutoConnectSet
  BY <1>3 DEF NoAutoConnectSet, HostTypeOK, serviceVars
<1>4. CASE NoAutoConnectEnable
  BY <1>4 DEF NoAutoConnectEnable, HostTypeOK, serviceVars
<1>5. CASE RestrictBluetooth
  BY <1>5 DEF RestrictBluetooth, HostTypeOK, serviceVars
<1>6. CASE RestrictSecondEvent
  BY <1>6 DEF RestrictSecondEvent, HostTypeOK, serviceVars
<1>7. CASE HostClose
  BY <1>7 DEF HostClose, HostTypeOK, hostVars, callVars, serviceVars
<1>8. CASE HostResetNoAutoConnect
  <2>1. IsFiniteSet(granted')
    BY <1>8, FS_AddElement DEF HostResetNoAutoConnect, HostTypeOK
  <2> QED
    BY <1>8, <2>1 DEF HostResetNoAutoConnect, HostTypeOK, callVars, serviceVars
<1>9. ASSUME NEW ret \in ActionResult, HostActionReturn(ret) PROVE HostTypeOK'
  <2>1. action # NoAction
    BY <1>9 DEF HostActionReturn, ActionReturn, NoAction
  <2>2. action.req.event \in SwitchRequest
    BY <2>1, ActionType DEF TypeOK, BluetoothSwitchCacheEvent
  <2>3. operations' \in Seq(SwitchRequest)
    BY <1>9, <2>2 DEF HostActionReturn, HostTypeOK
  <2>4. restrictCall' \in {"none", "disable", "restrict"}
    BY <1>9 DEF HostActionReturn, HostTypeOK
  <2> QED
    BY <1>9, <2>3, <2>4 DEF HostActionReturn, HostTypeOK
<1>10. CASE ServicePerforms
  <2>1. Head(operations) \in SwitchRequest /\ Tail(operations) \in Seq(SwitchRequest)
    BY <1>10 DEF ServicePerforms, HostTypeOK
  <2>2. radio' \in SwitchState
    BY <1>10, <2>1, TargetType DEF ServicePerforms
  <2>3. reports' \in Seq(SwitchState)
    BY <1>10, <2>2 DEF ServicePerforms, HostTypeOK
  <2> QED
    BY <1>10, <2>1, <2>2, <2>3 DEF ServicePerforms, HostTypeOK, callVars
<1>11. CASE ServiceDies
  <2>1. radio' \in SwitchState /\ operations' \in Seq(SwitchRequest)
        /\ reports' \in Seq(SwitchState)
    BY <1>11 DEF ServiceDies, SwitchState
  <2> QED
    BY <1>11, <2>1 DEF ServiceDies, HostTypeOK, callVars
<1>12. CASE OnBluetoothStateChanged
  <2>1. reports' \in Seq(SwitchState)
    BY <1>12 DEF OnBluetoothStateChanged, HostTypeOK
  <2> QED
    BY <1>12, <2>1 DEF OnBluetoothStateChanged, HostTypeOK, callVars
<1>13. CASE OnRemoveBluetoothSystemAbility
  BY <1>13 DEF OnRemoveBluetoothSystemAbility, HostTypeOK, callVars
<1>14. CASE HostOnTaskTimeout
  BY <1>14 DEF HostOnTaskTimeout, HostTypeOK, callVars, serviceVars
<1>15. CASE HostQueueStep \/ UNCHANGED hvars
  BY <1>15 DEF HostQueueStep, hvars, HostTypeOK, hostVars, callVars, serviceVars
<1> QED
  BY <1>1, <1>2, <1>3, <1>4, <1>5, <1>6, <1>7, <1>8, <1>9, <1>10, <1>11, <1>12, <1>13, <1>14,
     <1>15
  DEF HostNext, HostActionStep, EnableBle, DisableBt, EnableBluetoothToRestrictMode,
      OnBluetoothSwitchAction

LEMMA InitHostTypeOK == HostInit => HostTypeOK
<1> SUFFICES ASSUME HostInit PROVE HostTypeOK
  OBVIOUS
<1>1. radio \in SwitchState
  BY DEF HostInit, SwitchState
<1>2. IsFiniteSet(granted)
  BY FS_EmptySet DEF HostInit
<1> QED
  BY <1>1, <1>2 DEF HostInit, HostTypeOK

(***************************************************************************)
(* noAutoConnect_.  Whatever sets it counts; an enable that has loaded it  *)
(* leaves it set until it resets it, so that each reset pays for the       *)
(* enable that it belongs to.                                              *)
(***************************************************************************)
NoAutoInv ==
  /\ TypeOK /\ HostTypeOK
  /\ action.step = "reset" => noAutoConnect
  /\ NoAutoConnectConsumedOnce

LEMMA NoAutoStays ==
  ASSUME NoAutoInv, UNCHANGED <<noAutoConnect, granted, noAutoSets>>,
         action'.step = "reset" => noAutoConnect
  PROVE  (action'.step = "reset" => noAutoConnect') /\ NoAutoConnectConsumedOnce'
  BY DEF NoAutoInv, NoAutoConnectConsumedOnce

\* an enable loads the flag when its action starts, and only then
LEMMA LoadedWhileSet ==
  ASSUME NoAutoInv, NEW req, NEW onQueue, ProcessBluetoothSwitchAction(req, onQueue)
  PROVE  action'.step = "reset" => noAutoConnect
<1>1. CASE CacheRequest(req)
  BY <1>1 DEF CacheRequest, NoAutoInv
<1>2. CASE StartAction(req, onQueue)
  <2>1. action'.step = (IF req.event = ENABLE_BLUETOOTH /\ noAutoConnect
                          THEN "reset" ELSE "call")
    BY <1>2 DEF StartAction
  <2> QED
    BY <2>1
<1> QED
  BY <1>1, <1>2 DEF ProcessBluetoothSwitchAction

LEMMA NextNoAutoInv == NoAutoInv /\ [HostNext]_hvars => NoAutoInv'
<1> DEFINE Goal == (action'.step = "reset" => noAutoConnect') /\ NoAutoConnectConsumedOnce'
<1> SUFFICES ASSUME NoAutoInv, [HostNext]_hvars PROVE Goal
  BY NextTypeOK, NextHostTypeOK, HostStepIsModuleStep DEF NoAutoInv
<1>0. /\ TypeOK /\ HostTypeOK /\ NoAction.step = "none"
      /\ action.step = "reset" => noAutoConnect
  BY DEF NoAutoInv, NoAction
<1>1. ASSUME NEW event \in SwitchRequest, ProcessRequest(event),
             UNCHANGED <<granted, noAutoSets>>
      PROVE  Goal
  <2>1. /\ ProcessBluetoothSwitchAction([event |-> event, id |-> arrived + 1], FALSE)
        /\ noAutoConnect' = noAutoConnect
    BY <1>1 DEF ProcessRequest
  <2>2. action'.step = "reset" => noAutoConnect
    BY <2>1, LoadedWhileSet
  <2> QED
    BY <1>1, <2>1, <2>2, NoAutoStays
<1>2. ENABLE_BLUETOOTH \in SwitchRequest /\ DISABLE_BLUETOOTH \in SwitchRequest
      /\ ENABLE_BLUETOOTH_TO_RESTRICE_MODE \in SwitchRequest
  BY DEF SwitchRequest
<1>3. ASSUME NEW event \in SwitchRequest, SwitchCall(event) PROVE Goal
  BY <1>1, <1>3 DEF SwitchCall
<1>4. CASE NoAutoConnectSet
  <2>1. noAutoConnect' /\ granted' = granted /\ noAutoSets' = noAutoSets + 1
        /\ action' = action
    BY <1>4 DEF NoAutoConnectSet, SetNoAutoConnect
  <2>2. noAutoSets \in Nat /\ Cardinality(granted) \in Nat
    BY <1>0, FS_CardinalityType DEF HostTypeOK
  <2>3. Cardinality(granted) <= noAutoSets
    BY <2>2 DEF NoAutoInv, NoAutoConnectConsumedOnce
  <2> QED
    BY <2>1, <2>2, <2>3 DEF NoAutoConnectConsumedOnce
<1>5. CASE NoAutoConnectEnable
  BY <1>1, <1>2, <1>5 DEF NoAutoConnectEnable
<1>6. CASE RestrictBluetooth
  BY <1>1, <1>2, <1>6 DEF RestrictBluetooth
<1>7. CASE RestrictSecondEvent
  BY <1>1, <1>2, <1>7 DEF RestrictSecondEvent
<1>8. CASE HostClose
  <2>1. UNCHANGED <<noAutoConnect, granted, noAutoSets, action>>
    BY <1>8 DEF HostClose, Destroy, moduleVars, hostVars, callVars
  <2> QED
    BY <1>0, <2>1, NoAutoStays
<1>9. CASE HostResetNoAutoConnect
  <2>1. /\ action.step = "reset" /\ ~noAutoConnect' /\ noAutoSets' = noAutoSets
        /\ granted' = granted \cup {action.req.id}
    BY <1>9 DEF HostResetNoAutoConnect, ResetNoAutoConnect, callVars
  <2>2. action # NoAction
    BY <1>0, <2>1
  <2>3. action \in [step : {"reset", "call"}, req : BluetoothSwitchCacheEvent,
                    noAutoConnect : BOOLEAN, onQueue : BOOLEAN]
    BY <1>0, <2>2, ActionType DEF TypeOK
  <2>4. action'.step = "call"
    BY <1>9, <2>3 DEF HostResetNoAutoConnect, ResetNoAutoConnect
  <2>5. noAutoSets \in Nat /\ IsFiniteSet(granted) /\ Cardinality(granted) \in Nat
    BY <1>0, FS_CardinalityType DEF HostTypeOK
  <2>6. Cardinality(granted') \in {Cardinality(granted), Cardinality(granted) + 1}
    BY <2>1, <2>5, FS_AddElement
  <2>7. Cardinality(granted) + 1 <= noAutoSets
    BY <1>0, <2>1 DEF NoAutoInv, NoAutoConnectConsumedOnce
  <2> QED
    BY <2>1, <2>4, <2>5, <2>6, <2>7 DEF NoAutoConnectConsumedOnce
<1>10. ASSUME NEW ret \in ActionResult, HostActionReturn(ret) PROVE Goal
  <2>1. UNCHANGED <<noAutoConnect, granted, noAutoSets>> /\ action' = NoAction
    BY <1>10 DEF HostActionReturn, ActionReturn
  <2> QED
    BY <1>0, <2>1, NoAutoStays
<1>11. CASE ServicePerforms \/ ServiceDies
  <2>1. UNCHANGED <<noAutoConnect, granted, noAutoSets, action>>
    BY <1>11 DEF ServicePerforms, ServiceDies, vars, moduleVars, callVars
  <2> QED
    BY <1>0, <2>1, NoAutoStays
<1>12. CASE OnBluetoothStateChanged \/ OnRemoveBluetoothSystemAbility
  <2>1. UNCHANGED <<noAutoConnect, granted, noAutoSets, action>>
    BY <1>12 DEF OnBluetoothStateChanged, OnRemoveBluetoothSystemAbility, ProcessStateReport,
                 callVars
  <2> QED
    BY <1>0, <2>1, NoAutoStays
<1>13. CASE HostOnTaskTimeout
  <2>1. UNCHANGED <<noAutoConnect, granted, noAutoSets, action>>
    BY <1>13 DEF HostOnTaskTimeout, OnTaskTimeout, callVars
  <2> QED
    BY <1>0, <2>1, NoAutoStays
<1>14. CASE HostQueueStep
  <2>1. UNCHANGED <<granted, noAutoSets>>
    BY <1>14 DEF HostQueueStep, hostVars, callVars
  <2>2. noAutoConnect' = noAutoConnect
    BY <1>14 DEF HostQueueStep, StartTimeoutTask, StartCachedTask, RunCachedTask, SkipTask,
                 moduleVars
  <2>3. action'.step = "reset" => noAutoConnect
    <3>1. CASE RunCachedTask
      BY <3>1, LoadedWhileSet DEF RunCachedTask
    <3>2. CASE ~RunCachedTask
      <4>1. action' = action
        BY <1>14, <3>2 DEF HostQueueStep, StartTimeoutTask, StartCachedTask, SkipTask
      <4> QED
        BY <1>0, <4>1
    <3> QED
      BY <3>1, <3>2
  <2> QED
    BY <2>1, <2>2, <2>3, NoAutoStays
<1>15. CASE UNCHANGED hvars
  <2>1. UNCHANGED <<noAutoConnect, granted, noAutoSets, action>>
    BY <1>15 DEF hvars, vars, moduleVars, hostVars, callVars
  <2> QED
    BY <1>0, <2>1, NoAutoStays
<1> HIDE DEF Goal
<1> QED
  BY <1>2, <1>3, <1>4, <1>5, <1>6, <1>7, <1>8, <1>9, <1>10, <1>11, <1>12, <1>13, <1>14, <1>15
  DEF HostNext, HostActionStep, EnableBle, DisableBt, EnableBluetoothToRestrictMode,
      OnBluetoothSwitchAction

LEMMA InitNoAutoInv == HostInit => NoAutoInv
<1> SUFFICES ASSUME HostInit PROVE NoAutoInv
  OBVIOUS
<1>1. TypeOK /\ HostTypeOK
  BY InitTypeOK, InitHostTypeOK DEF HostInit
<1>2. action.step # "reset" /\ ~noAutoConnect
  BY DEF HostInit, Init, NoAction
<1>3. Cardinality(granted) = 0 /\ noAutoSets = 0
  BY FS_EmptySet DEF HostInit
<1> QED
  BY <1>1, <1>2, <1>3 DEF NoAutoInv, NoAutoConnectConsumedOnce

(***************************************************************************)
(* However the calls of EnableBluetoothNoAutoConnect interleave with other *)
(* enables, with replays and with the reset inside the action, no more     *)
(* enables go without reconnection than calls asked for it.                *)
(***************************************************************************)
THEOREM NoAutoConnectNeverDoubled == HostSpec => []NoAutoConnectConsumedOnce
<1>1. NoAutoInv => NoAutoConnectConsumedOnce
  BY DEF NoAutoInv
<1> QED
  BY <1>1, InitNoAutoInv, NextNoAutoInv, PTL DEF HostSpec
-----------------------------------------------------------------------------
(***************************************************************************)
(* What the service was last asked for: as long as nothing failed, one     *)
(* operation at most is with the action, the service or a report, and the  *)
(* module is busy with it.                                                 *)
(***************************************************************************)
Flight ==
  /\ ~removed
  /\ action # NoAction => operations = <<>> /\ reports = <<>>
  /\ Len(operations) <= 1 /\ Len(reports) <= 1
  /\ operations # <<>> => isBtSwitchProcessing /\ reports = <<>>
  /\ reports # <<>> => isBtSwitchProcessing /\ reports[1] = radio

FlightInv == ~unreliable => Flight

\* RestrictBluetooth waits, between its two events, for its own action
RestrictInv == restrictCall = "disable" => action # NoAction /\ ~action.onQueue

UnderWayTarget ==
  IF action # NoAction THEN TargetOf(action.req.event)
  ELSE IF operations # <<>> THEN TargetOf(operations[1])
  ELSE radio

\* the request that is replayed
Replayed == IF ffrtQueue # <<>> THEN ffrtQueue[1] ELSE worker.req

\* the state that the youngest request out of the cache asks for
Ahead == IF ReplayInFlight THEN TargetOf(Replayed.event) ELSE UnderWayTarget

\* the state that the youngest request still there asks for, and the one before it
LastTarget ==
  IF cachedEventVec # <<>> THEN TargetOf(cachedEventVec[Len(cachedEventVec)].event)
                           ELSE Ahead

TargetBefore ==
  IF Len(cachedEventVec) > 1
    THEN TargetOf(cachedEventVec[Len(cachedEventVec) - 1].event) ELSE Ahead

(***************************************************************************)
(* The last word of the users.  Wherever it is - still in the cache, being *)
(* replayed, in the action, with the service or performed - the youngest   *)
(* request asks for the state that was last wanted.  The hard step is the  *)
(* report, which drops cached requests: what it drops was superseded, or   *)
(* asks for the state that is reached.  A request for the restricted mode  *)
(* that is expected to be honoured always follows one that disables.       *)
(***************************************************************************)
Reliable == alive /\ ~unreliable /\ ~disturbed

Follows ==
  IF restrictCall = "none"
    THEN /\ wanted \in {LastTarget, "unspecified"}
         /\ wanted = "BLUETOOTH_HALF" /\ cachedEventVec # <<>>
              => TargetBefore = "BLUETOOTH_OFF"
    ELSE /\ wanted = "BLUETOOTH_HALF" /\ LastTarget = "BLUETOOTH_OFF"
         /\ isBtSwitchProcessing

WantedInv == Reliable => Follows

FollowInv == OrderInv /\ HostTypeOK /\ RestrictInv /\ FlightInv /\ WantedInv

(***************************************************************************)
(* Requests and reports                                                    *)
(***************************************************************************)
LEMMA HandlingKeepsFlight ==
  ASSUME Flight, action = NoAction, NEW req, NEW onQueue,
         ProcessBluetoothSwitchAction(req, onQueue), UNCHANGED serviceVars
  PROVE  Flight'
<1>1. CASE CacheRequest(req)
  BY <1>1 DEF CacheRequest, Flight, serviceVars
<1>2. CASE StartAction(req, onQueue)
  <2>1. operations = <<>> /\ reports = <<>>
    BY <1>2 DEF StartAction, Flight
  <2> QED
    BY <1>2, <2>1 DEF StartAction, Flight, serviceVars
<1> QED
  BY <1>1, <1>2 DEF ProcessBluetoothSwitchAction

LEMMA TargetsStay ==
  ASSUME cachedEventVec' = cachedEventVec, Ahead' = Ahead
  PROVE  LastTarget' = LastTarget /\ TargetBefore' = TargetBefore
  BY DEF LastTarget, TargetBefore

LEMMA FollowsStays ==
  ASSUME Follows, UNCHANGED <<cachedEventVec, wanted>>, Ahead' = Ahead,
         restrictCall' = "none" <=> restrictCall = "none",
         restrictCall # "none" /\ isBtSwitchProcessing => isBtSwitchProcessing'
  PROVE  Follows'
  BY TargetsStay DEF Follows

(***************************************************************************)
(* A call is the youngest request, whether it is cached or issued; if it   *)
(* is cached the request before it is the one that was youngest.           *)
(***************************************************************************)
LEMMA RequestTarget ==
  ASSUME OrderInv, HostTypeOK, NEW event \in SwitchRequest, ProcessRequest(event), ~disturbed',
         UNCHANGED serviceVars
  PROVE  /\ LastTarget' = TargetOf(event) /\ isBtSwitchProcessing'
         /\ IF isBtSwitchProcessing THEN action' = NoAction /\ TargetBefore' = LastTarget
                                    ELSE action' # NoAction /\ ~action'.onQueue
                                         /\ cachedEventVec' = <<>>
<1> DEFINE req == [event |-> event, id |-> arrived + 1]
<1>1. /\ alive /\ action = NoAction /\ ~disturbed /\ ~ReplayInFlight
      /\ ffrtQueue' = ffrtQueue /\ worker' = worker
      /\ cachedEventVec \in Seq(BluetoothSwitchCacheEvent)
      /\ ProcessBluetoothSwitchAction(req, FALSE)
  BY DEF ProcessRequest, OrderInv, OnceInv, TimeoutInv, TypeOK
<1>2. ~ReplayInFlight'
  <2>1. worker.kind # "cached" /\ ffrtQueue = <<>>
    BY <1>1 DEF ReplayInFlight, ReplayStarted
  <2> QED
    BY <1>1, <2>1 DEF ReplayInFlight, ReplayStarted
<1>3. req.event = event
  OBVIOUS
<1> HIDE DEF req
<1>4. CASE CacheRequest(req)
  <2>1. isBtSwitchProcessing /\ isBtSwitchProcessing' /\ action' = NoAction
        /\ cachedEventVec' = Append(cachedEventVec, req)
    BY <1>1, <1>4 DEF CacheRequest
  <2>2. UnderWayTarget' = UnderWayTarget
    BY <1>1, <2>1 DEF UnderWayTarget, serviceVars
  <2>3. Ahead = UnderWayTarget /\ Ahead' = UnderWayTarget
    BY <1>1, <1>2, <2>2 DEF Ahead
  <2>4. /\ cachedEventVec' # <<>> /\ Len(cachedEventVec') = Len(cachedEventVec) + 1
        /\ cachedEventVec'[Len(cachedEventVec')] = req
        /\ Len(cachedEventVec) \in Nat
        /\ \A i \in 1 .. Len(cachedEventVec) : cachedEventVec'[i] = cachedEventVec[i]
    BY <1>1, <2>1
  <2>5. LastTarget' = TargetOf(event)
    BY <1>3, <2>4 DEF LastTarget
  <2>6. TargetBefore' = LastTarget
    <3>1. CASE cachedEventVec = <<>>
      BY <2>3, <2>4, <3>1 DEF TargetBefore, LastTarget
    <3>2. CASE cachedEventVec # <<>>
      <4>1. Len(cachedEventVec) \in 1 .. Len(cachedEventVec) /\ Len(cachedEventVec') > 1
            /\ Len(cachedEventVec') - 1 = Len(cachedEventVec)
        BY <1>1, <2>4, <3>2
      <4> QED
        BY <2>4, <3>2, <4>1 DEF TargetBefore, LastTarget
    <3> QED
      BY <3>1, <3>2
  <2> QED
    BY <2>1, <2>5, <2>6
<1>5. CASE StartAction(req, FALSE)
  <2>1. /\ ~isBtSwitchProcessing /\ isBtSwitchProcessing'
        /\ cachedEventVec' = cachedEventVec
        /\ action'.req = req /\ action'.step # "none" /\ action'.onQueue = FALSE
    BY <1>5 DEF StartAction
  <2>2. action' # NoAction
    BY <2>1 DEF NoAction
  <2>3. cachedEventVec = <<>>
    BY <1>1, <2>1 DEF OrderInv, AloneInv
  <2>4. LastTarget' = TargetOf(event)
    BY <1>2, <1>3, <2>1, <2>2, <2>3 DEF LastTarget, Ahead, UnderWayTarget
  <2> QED
    BY <2>1, <2>2, <2>3, <2>4
<1> QED
  BY <1>1, <1>4, <1>5 DEF ProcessBluetoothSwitchAction

LEMMA TargetsDiffer ==
  ASSUME NEW state \in SwitchState
  PROVE  /\ \A e \in SwitchRequest :
              \/ TargetOf(e) = state
              \/ e \in ExpectedEvents(state)
              \/ state = "BLUETOOTH_ON" /\ TargetOf(e) = "BLUETOOTH_HALF"
         /\ state = "BLUETOOTH_ON" => \A e \in SwitchRequest :
              TargetOf(e) = "BLUETOOTH_OFF"
                => e \in ExpectedEvents(state) /\ e # CurSwitchActionEvent(state)
         /\ TargetOf(CurSwitchActionEvent(state)) = state
  BY DEF SwitchState, SwitchRequest, TargetOf, CurSwitchActionEvent, ExpectedEvents,
         ENABLE_BLUETOOTH, DISABLE_BLUETOOTH, ENABLE_BLUETOOTH_TO_RESTRICE_MODE

(***************************************************************************)
(* A report that completes what was under way.                             *)
(***************************************************************************)
LEMMA ReportFollows ==
  ASSUME OrderInv, HostTypeOK, Follows, restrictCall = "none", restrictCall' = "none",
         ProcessStateReport(radio), ~disturbed', operations = <<>>, operations' = <<>>,
         radio' = radio, wanted' = wanted
  PROVE  Follows'
<1> DEFINE n == Len(cachedEventVec)
<1>1. /\ alive /\ action = NoAction /\ action' = NoAction /\ worker' = worker
      /\ ~disturbed /\ ~ReplayInFlight /\ ffrtQueue = <<>>
      /\ radio \in SwitchState
      /\ cachedEventVec \in Seq(BluetoothSwitchCacheEvent)
      /\ wanted \in {LastTarget, "unspecified"}
  BY NoReplay DEF ProcessStateReport, OrderInv, OnceInv, TimeoutInv, TypeOK, HostTypeOK, Follows
<1>2. Ahead = radio /\ UnderWayTarget' = radio
  BY <1>1 DEF Ahead, UnderWayTarget
<1>3. ffrtQueue' = <<>> => Ahead' = radio
  BY <1>1, <1>2, NoReplay DEF Ahead, ReplayInFlight, ReplayStarted
<1>4. n \in Nat /\ \A i \in 1 .. n : cachedEventVec[i].event \in SwitchRequest
  <2>1. n \in Nat /\ \A i \in 1 .. n : cachedEventVec[i] \in BluetoothSwitchCacheEvent
    BY <1>1
  <2>2. \A req \in BluetoothSwitchCacheEvent : req.event \in SwitchRequest
    BY DEF BluetoothSwitchCacheEvent
  <2> QED
    BY <2>1, <2>2
<1>5. SUFFICES ASSUME wanted = LastTarget PROVE Follows'
  BY <1>1 DEF Follows
<1>6. ASSUME cachedEventVec' = <<>>, ffrtQueue' = ffrtQueue,
             NEW pos \in 0 .. n,
             pos # 0 => cachedEventVec[pos].event = CurSwitchActionEvent(radio),
             \A i \in 1 .. n : i > pos => cachedEventVec[i].event \notin ExpectedEvents(radio)
      PROVE  Follows'
  <2>1. LastTarget' = radio
    BY <1>1, <1>3, <1>6 DEF LastTarget
  <2>2. LastTarget = radio
    <3>1. CASE cachedEventVec = <<>>
      BY <1>2, <3>1 DEF LastTarget
    <3>2. CASE cachedEventVec # <<>>
      <4>1. n \in 1 .. n /\ LastTarget = TargetOf(cachedEventVec[n].event)
        BY <1>1, <3>2 DEF LastTarget
      <4>2. CASE pos = n
        BY <1>1, <1>6, <4>1, <4>2, TargetsDiffer
      <4>3. CASE pos # n /\ LastTarget # radio
        <5>1. cachedEventVec[n].event \notin ExpectedEvents(radio)
          BY <1>4, <1>6, <4>1, <4>3
        <5>2. radio = "BLUETOOTH_ON" /\ LastTarget = "BLUETOOTH_HALF"
          BY <1>1, <1>4, <4>1, <4>3, <5>1, TargetsDiffer
        <5>3. TargetBefore = "BLUETOOTH_OFF"
          BY <1>5, <3>2, <5>2 DEF Follows
        <5>4. n > 1 /\ TargetOf(cachedEventVec[n - 1].event) = "BLUETOOTH_OFF"
          BY <1>2, <5>2, <5>3 DEF TargetBefore
        <5>5. n - 1 \in 1 .. n
          BY <1>4, <5>4
        <5>6. /\ cachedEventVec[n - 1].event \in ExpectedEvents(radio)
              /\ cachedEventVec[n - 1].event # CurSwitchActionEvent(radio)
          BY <1>1, <1>4, <5>2, <5>4, <5>5, TargetsDiffer
        <5>7. ~ (n - 1 > pos) /\ pos # n - 1
          BY <1>6, <5>4, <5>5, <5>6
        <5> QED
          BY <1>4, <4>3, <5>7
      <4> QED
        BY <4>2, <4>3
    <3> QED
      BY <3>1, <3>2
  <2> QED
    BY <1>5, <1>6, <2>1, <2>2 DEF Follows
<1>7. ASSUME NEW k \in 1 .. n,
             cachedEventVec' = Behind(cachedEventVec, k),
             ffrtQueue' = Append(ffrtQueue, cachedEventVec[k])
      PROVE  Follows'
  <2>1. /\ ffrtQueue' # <<>> /\ ffrtQueue'[1] = cachedEventVec[k]
    BY <1>1, <1>7
  <2>2. Ahead' = TargetOf(cachedEventVec[k].event)
    BY <2>1 DEF Ahead, ReplayInFlight, Replayed
  <2>3. /\ Len(cachedEventVec') = n - k
        /\ \A i \in 1 .. n - k : cachedEventVec'[i] = cachedEventVec[k + i]
        /\ cachedEventVec' \in Seq(BluetoothSwitchCacheEvent)
    <3>1. k \in 0 .. n
      BY <1>4
    <3> QED
      BY <1>1, <1>7, <3>1, BehindElements
  <2>4. cachedEventVec # <<>> /\ LastTarget = TargetOf(cachedEventVec[n].event)
    BY <1>1, <1>4 DEF LastTarget
  <2>5. CASE k = n
    <3>1. cachedEventVec' = <<>>
      BY <1>4, <2>3, <2>5
    <3> QED
      BY <1>5, <2>2, <2>4, <2>5, <3>1 DEF Follows, LastTarget
  <2>6. CASE k # n
    <3>1. /\ n - k \in 1 .. n - k /\ k + (n - k) = n /\ cachedEventVec' # <<>>
      BY <1>4, <2>3, <2>6
    <3>2. LastTarget' = LastTarget
      BY <2>3, <2>4, <3>1 DEF LastTarget
    <3>3. TargetBefore' = TargetOf(cachedEventVec[n - 1].event)
      <4>1. CASE n - k > 1
        <5>1. n - k - 1 \in 1 .. n - k /\ k + (n - k - 1) = n - 1
          BY <1>4, <4>1
        <5> QED
          BY <2>3, <4>1, <5>1 DEF TargetBefore
      <4>2. CASE n - k = 1
        <5>1. k = n - 1
          BY <1>4, <4>2
        <5> QED
          BY <2>2, <2>3, <4>2, <5>1 DEF TargetBefore
      <4> QED
        BY <1>4, <2>6, <4>1, <4>2
    <3>4. TargetBefore = TargetOf(cachedEventVec[n - 1].event)
      BY <1>4, <2>6 DEF TargetBefore
    <3> QED
      BY <2>4, <3>2, <3>3, <3>4 DEF Follows
  <2> QED
    BY <2>5, <2>6
<1> QED
  BY <1>1, <1>6, <1>7, ActionEndDetail DEF ProcessStateReport

(***************************************************************************)
(* Steps in which nothing becomes reliable again and the young request     *)
(* only moves on.                                                          *)
(***************************************************************************)
LEMMA WantedStays ==
  ASSUME WantedInv, Reliable' => Reliable,
         UNCHANGED <<cachedEventVec, wanted>>, Reliable' => Ahead' = Ahead,
         restrictCall' = "none" <=> restrictCall = "none",
         Reliable' /\ restrictCall # "none" /\ isBtSwitchProcessing => isBtSwitchProcessing'
  PROVE  WantedInv'
<1> SUFFICES ASSUME Reliable' PROVE Follows'
  BY DEF WantedInv
<1>1. Follows
  BY DEF WantedInv
<1> QED
  BY <1>1, FollowsStays

LEMMA AheadStays ==
  ASSUME UNCHANGED <<action, ffrtQueue, worker, operations, radio>>
  PROVE  Ahead' = Ahead
<1>1. (ReplayInFlight' <=> ReplayInFlight) /\ Replayed' = Replayed
  BY DEF ReplayInFlight, ReplayStarted, Replayed
<1>2. UnderWayTarget' = UnderWayTarget
  BY DEF UnderWayTarget
<1> QED
  BY <1>1, <1>2 DEF Ahead

\* a call that consists of one request, or of the second of RestrictBluetooth
LEMMA RequestKeepsFlight ==
  ASSUME FollowInv, NEW event \in SwitchRequest, ProcessRequest(event),
         UNCHANGED <<serviceVars, unreliable>>
  PROVE  FlightInv' /\ (Reliable' => Reliable /\ ~disturbed')
<1>1. action = NoAction /\ alive
      /\ ProcessBluetoothSwitchAction([event |-> event, id |-> arrived + 1], FALSE)
  BY DEF ProcessRequest
<1>2. FlightInv'
  BY <1>1, HandlingKeepsFlight DEF FollowInv, FlightInv
<1>3. disturbed => disturbed'
  BY DEF ProcessRequest
<1> QED
  BY <1>1, <1>2, <1>3 DEF Reliable

LEMMA CallKeepsFollow ==
  ASSUME FollowInv, NEW event \in SwitchRequest, ProcessRequest(event),
         UNCHANGED <<serviceVars, unreliable, restrictCall>>, restrictCall = "none",
         wanted' \in {TargetOf(event), "unspecified"}, wanted' # "BLUETOOTH_HALF"
  PROVE  RestrictInv' /\ FlightInv' /\ WantedInv'
<1>1. FlightInv' /\ (Reliable' => ~disturbed')
  BY RequestKeepsFlight
<1>2. Reliable' => LastTarget' = TargetOf(event)
  BY <1>1, RequestTarget DEF FollowInv
<1>3. WantedInv'
  BY <1>2 DEF WantedInv, Follows
<1> QED
  BY <1>1, <1>3 DEF RestrictInv

LEMMA RestrictKeepsFollow ==
  ASSUME FollowInv, RestrictBluetooth \/ RestrictSecondEvent
  PROVE  RestrictInv' /\ FlightInv' /\ WantedInv'
<1>1. /\ DISABLE_BLUETOOTH \in SwitchRequest
      /\ ENABLE_BLUETOOTH_TO_RESTRICE_MODE \in SwitchRequest
      /\ TargetOf(DISABLE_BLUETOOTH) = "BLUETOOTH_OFF"
      /\ TargetOf(ENABLE_BLUETOOTH_TO_RESTRICE_MODE) = "BLUETOOTH_HALF"
  BY DEF SwitchRequest, TargetOf, ENABLE_BLUETOOTH, DISABLE_BLUETOOTH,
         ENABLE_BLUETOOTH_TO_RESTRICE_MODE
<1>2. OrderInv /\ HostTypeOK
  BY DEF FollowInv
<1>3. CASE RestrictBluetooth
  <2>1. /\ ProcessRequest(DISABLE_BLUETOOTH) /\ UNCHANGED <<serviceVars, unreliable>>
        /\ wanted' = "BLUETOOTH_HALF"
        /\ restrictCall' = IF isBtSwitchProcessing THEN "restrict" ELSE "disable"
    BY <1>3 DEF RestrictBluetooth
  <2>2. FlightInv' /\ (Reliable' => ~disturbed')
    BY <1>1, <2>1, RequestKeepsFlight
  <2>3. WantedInv'
    <3>1. Reliable' => LastTarget' = "BLUETOOTH_OFF" /\ isBtSwitchProcessing'
      BY <1>1, <1>2, <2>1, <2>2, RequestTarget
    <3> QED
      BY <2>1, <3>1 DEF WantedInv, Follows
  <2>4. RestrictInv'
    <3>1. SUFFICES ASSUME ~isBtSwitchProcessing PROVE action' # NoAction /\ ~action'.onQueue
      BY <2>1 DEF RestrictInv
    <3> DEFINE req == [event |-> DISABLE_BLUETOOTH, id |-> arrived + 1]
    <3>2. StartAction(req, FALSE)
      BY <2>1, <3>1 DEF ProcessRequest, ProcessBluetoothSwitchAction, CacheRequest
    <3> HIDE DEF req
    <3>3. action'.step # "none" /\ action'.onQueue = FALSE
      BY <3>2 DEF StartAction
    <3> QED
      BY <3>3 DEF NoAction
  <2> QED
    BY <2>2, <2>3, <2>4
<1>4. CASE RestrictSecondEvent
  <2>1. /\ ProcessRequest(ENABLE_BLUETOOTH_TO_RESTRICE_MODE)
        /\ UNCHANGED <<serviceVars, unreliable>>
        /\ wanted' = wanted /\ restrictCall = "restrict" /\ restrictCall' = "none"
    BY <1>4 DEF RestrictSecondEvent
  <2>2. FlightInv' /\ (Reliable' => Reliable /\ ~disturbed')
    BY <1>1, <2>1, RequestKeepsFlight
  <2>3. WantedInv'
    <3>1. SUFFICES ASSUME Reliable' PROVE Follows'
      BY DEF WantedInv
    <3>2. wanted = "BLUETOOTH_HALF" /\ LastTarget = "BLUETOOTH_OFF" /\ isBtSwitchProcessing
      BY <2>1, <2>2, <3>1 DEF FollowInv, WantedInv, Follows
    <3>3. LastTarget' = "BLUETOOTH_HALF" /\ TargetBefore' = LastTarget
      BY <1>1, <1>2, <2>1, <2>2, <3>1, <3>2, RequestTarget
    <3> QED
      BY <2>1, <3>2, <3>3 DEF Follows
  <2> QED
    BY <2>1, <2>2, <2>3 DEF RestrictInv
<1> QED
  BY <1>3, <1>4

(***************************************************************************)
(* The action, the service and the reports                                 *)
(***************************************************************************)
LEMMA ActionKeepsFollow ==
  ASSUME FollowInv, HostActionStep
  PROVE  RestrictInv' /\ FlightInv' /\ WantedInv'
<1>0. /\ TypeOK /\ MutexInv /\ AloneInv /\ NoAction.step = "none"
      /\ RestrictInv /\ FlightInv /\ WantedInv
  BY DEF FollowInv, OrderInv, OnceInv, TimeoutInv, NoAction
<1>1. action # NoAction /\ isBtSwitchProcessing /\ (Reliable => ~ReplayInFlight)
  <2>1. action.step # "none"
    BY DEF HostActionStep, HostResetNoAutoConnect, ResetNoAutoConnect, HostActionReturn,
           ActionReturn
  <2> QED
    BY <1>0, <2>1 DEF MutexInv, AloneInv, Reliable
<1>2. action \in [step : {"reset", "call"}, req : BluetoothSwitchCacheEvent,
                  noAutoConnect : BOOLEAN, onQueue : BOOLEAN]
  BY <1>0, <1>1, ActionType DEF TypeOK
<1>3. Reliable => Ahead = TargetOf(action.req.event)
  BY <1>1 DEF Ahead, UnderWayTarget
<1>4. CASE HostResetNoAutoConnect
  <2>1. /\ action' = [action EXCEPT !.step = "call"]
        /\ UNCHANGED <<isBtSwitchProcessing, cachedEventVec, queueVars, alive, disturbed>>
        /\ UNCHANGED <<restrictCall, wanted, serviceVars, unreliable>>
    BY <1>4 DEF HostResetNoAutoConnect, ResetNoAutoConnect, callVars, historyVars
  <2>2. action'.req = action.req /\ action'.onQueue = action.onQueue /\ action'.step = "call"
    BY <1>2, <2>1
  <2>3. action' # NoAction
    BY <1>0, <2>2
  <2>4. ReplayInFlight' <=> ReplayInFlight
    BY <1>1, <2>1, <2>2, <2>3 DEF ReplayInFlight, ReplayStarted, queueVars
  <2>5. Reliable' <=> Reliable
    BY <2>1 DEF Reliable
  <2>6. Reliable' => Ahead' = Ahead
    BY <1>1, <1>3, <2>2, <2>3, <2>4, <2>5 DEF Ahead, UnderWayTarget
  <2>7. WantedInv'
    BY <1>0, <2>1, <2>5, <2>6, WantedStays
  <2>8. FlightInv'
    BY <1>0, <1>1, <2>1, <2>3 DEF FlightInv, Flight, serviceVars
  <2> QED
    BY <1>0, <2>1, <2>2, <2>3, <2>7, <2>8 DEF RestrictInv
<1>5. ASSUME NEW ret \in ActionResult, HostActionReturn(ret)
      PROVE  RestrictInv' /\ FlightInv' /\ WantedInv'
  <2>1. /\ action' = NoAction /\ UNCHANGED <<cachedEventVec, ffrtQueue, alive>>
        /\ UNCHANGED <<wanted, radio, reports, removed>>
        /\ worker' = IF action.onQueue THEN NoTask ELSE worker
        /\ disturbed => disturbed'
        /\ unreliable => unreliable'
    BY <1>5 DEF HostActionReturn, ActionReturn
  <2>2. /\ restrictCall' # "disable"
        /\ restrictCall' = "none" /\ ~unreliable' => restrictCall = "none"
        /\ restrictCall = "none" => restrictCall' = "none"
    <3>1. restrictCall = "disable" => ~action.onQueue
      BY <1>0 DEF RestrictInv
    <3>2. restrictCall = "disable" =>
            restrictCall' = IF ret \in CallSucceeded THEN "restrict" ELSE "none"
      BY <1>5, <3>1 DEF HostActionReturn
    <3>3. restrictCall # "disable" => restrictCall' = restrictCall
      BY <1>5 DEF HostActionReturn
    <3>4. ~unreliable' => ret \in CallSucceeded
      BY <1>5 DEF HostActionReturn, CallSucceeded
    <3> QED
      BY <3>2, <3>3, <3>4
  <2>3. ~unreliable' =>
          /\ operations' = Append(operations, action.req.event)
          /\ isBtSwitchProcessing' = isBtSwitchProcessing
    BY <1>5 DEF HostActionReturn, ActionReturn
  <2>4. FlightInv'
    <3>1. SUFFICES ASSUME ~unreliable' PROVE Flight'
      BY DEF FlightInv
    <3>2. Flight /\ operations = <<>> /\ reports = <<>>
      BY <1>0, <1>1, <2>1, <3>1 DEF FlightInv, Flight
    <3>3. operations' = <<action.req.event>>
      BY <2>3, <3>1, <3>2
    <3>4. Len(operations') = 1 /\ Len(reports') = 0 /\ reports' = <<>>
      BY <2>1, <3>2, <3>3
    <3> QED
      BY <1>1, <2>1, <2>3, <3>1, <3>2, <3>4 DEF Flight
  <2>5. Reliable' => Reliable
    BY <2>1 DEF Reliable
  <2>6. Reliable' => Ahead' = Ahead
    <3>1. SUFFICES ASSUME Reliable' PROVE Ahead' = TargetOf(action.req.event)
      BY <1>3, <2>5
    <3>2. ~ReplayInFlight /\ ~unreliable'
      BY <1>1, <2>5, <3>1 DEF Reliable
    <3>3. operations = <<>>
      BY <1>0, <1>1, <2>1, <3>2 DEF FlightInv, Flight
    <3>4. operations' # <<>> /\ operations'[1] = action.req.event
      BY <2>3, <3>2, <3>3
    <3>5. ~ReplayInFlight'
      <4>1. ffrtQueue' = <<>>
        BY <2>1, <3>2 DEF ReplayInFlight
      <4>2. worker'.kind # "cached"
        <5>1. CASE action.onQueue
          BY <2>1, <5>1 DEF NoTask
        <5>2. CASE ~action.onQueue
          BY <1>1, <2>1, <3>2, <5>2 DEF ReplayInFlight, ReplayStarted
        <5> QED
          BY <5>1, <5>2
      <4> QED
        BY <4>1, <4>2 DEF ReplayInFlight, ReplayStarted
    <3> QED
      BY <2>1, <3>4, <3>5 DEF Ahead, UnderWayTarget
  <2>7. WantedInv'
    <3>1. SUFFICES ASSUME Reliable' PROVE Follows'
      BY DEF WantedInv
    <3>2. ~unreliable' /\ Follows /\ Ahead' = Ahead
      BY <1>0, <2>5, <2>6, <3>1 DEF WantedInv, Reliable
    <3> QED
      BY <1>1, <2>1, <2>2, <2>3, <3>2, FollowsStays
  <2> QED
    BY <2>2, <2>4, <2>7 DEF RestrictInv
<1> QED
  BY <1>4, <1>5 DEF HostActionStep

LEMMA ServiceKeepsFollow ==
  ASSUME FollowInv, ServicePerforms \/ ServiceDies
  PROVE  RestrictInv' /\ FlightInv' /\ WantedInv'
<1>0. HostTypeOK /\ RestrictInv /\ FlightInv /\ WantedInv
  BY DEF FollowInv
<1>1. RestrictInv'
  BY <1>0 DEF ServicePerforms, ServiceDies, RestrictInv, callVars, vars
<1>2. CASE ServiceDies
  BY <1>1, <1>2 DEF ServiceDies, FlightInv, WantedInv, Reliable
<1>3. CASE ServicePerforms
  <2>1. /\ operations \in Seq(SwitchRequest) /\ operations # <<>>
        /\ operations' = Tail(operations) /\ radio' = TargetOf(operations[1])
        /\ reports' = Append(reports, radio') \/ (reports' = reports /\ radio' = radio)
        /\ UNCHANGED <<cachedEventVec, isBtSwitchProcessing, ffrtQueue, worker, action,
                       alive, disturbed>>
        /\ UNCHANGED <<restrictCall, wanted, removed, unreliable>>
    BY <1>0, <1>3
    DEF ServicePerforms, HostTypeOK, vars, moduleVars, queueVars, historyVars, callVars
  <2>2. ASSUME ~unreliable
        PROVE  Flight /\ operations' = <<>> /\ action = NoAction /\ reports = <<>>
    <3>1. Flight /\ action = NoAction /\ reports = <<>> /\ Len(operations) <= 1
      BY <1>0, <2>1, <2>2 DEF FlightInv, Flight
    <3>2. operations' = <<>>
      BY <2>1, <3>1
    <3> QED
      BY <3>1, <3>2
  <2>3. FlightInv'
    <3>1. SUFFICES ASSUME ~unreliable PROVE Flight'
      BY <2>1 DEF FlightInv
    <3>2. /\ Flight /\ operations' = <<>> /\ action = NoAction /\ isBtSwitchProcessing
          /\ Len(operations') = 0
      BY <2>1, <2>2, <3>1 DEF Flight
    <3>3. \/ reports' = <<>> /\ Len(reports') = 0
          \/ reports' = <<radio'>> /\ Len(reports') = 1 /\ reports'[1] = radio'
      BY <2>1, <2>2, <3>1
    <3> QED
      BY <2>1, <3>2, <3>3 DEF Flight
  <2>4. Reliable' <=> Reliable
    BY <2>1 DEF Reliable
  <2>5. Reliable' => Ahead' = Ahead
    <3>1. SUFFICES ASSUME Reliable PROVE Ahead' = Ahead
      BY <2>4
    <3>2. action = NoAction /\ operations' = <<>>
      BY <2>2, <3>1 DEF Reliable
    <3>3. UnderWayTarget' = UnderWayTarget
      BY <2>1, <3>2 DEF UnderWayTarget
    <3>4. (ReplayInFlight' <=> ReplayInFlight) /\ Replayed' = Replayed
      BY <2>1 DEF ReplayInFlight, ReplayStarted, Replayed
    <3> QED
      BY <3>3, <3>4 DEF Ahead
  <2>6. WantedInv'
    BY <1>0, <2>1, <2>4, <2>5, WantedStays
  <2> QED
    BY <1>1, <2>3, <2>6
<1> QED
  BY <1>2, <1>3

LEMMA ReportKeepsFollow ==
  ASSUME FollowInv, OnBluetoothStateChanged \/ OnRemoveBluetoothSystemAbility
  PROVE  RestrictInv' /\ FlightInv' /\ WantedInv'
<1>0. OrderInv /\ HostTypeOK /\ FlightInv /\ WantedInv
  BY DEF FollowInv
<1>1. restrictCall = "none" /\ restrictCall' = "none" /\ unreliable' = unreliable
  BY DEF OnBluetoothStateChanged, OnRemoveBluetoothSystemAbility, HostUnlocked, callVars
<1>2. RestrictInv'
  BY <1>1 DEF RestrictInv
<1>3. CASE OnRemoveBluetoothSystemAbility
  <2>1. unreliable
    BY <1>0, <1>3 DEF OnRemoveBluetoothSystemAbility, FlightInv, Flight
  <2> QED
    BY <1>1, <1>2, <2>1 DEF FlightInv, WantedInv, Reliable
<1>4. CASE OnBluetoothStateChanged
  <2>1. /\ reports \in Seq(SwitchState) /\ reports # <<>>
        /\ ProcessStateReport(reports[1]) /\ reports' = Tail(reports)
        /\ UNCHANGED <<wanted, radio, operations, removed>>
    BY <1>0, <1>4 DEF OnBluetoothStateChanged, HostTypeOK, callVars
  <2>2. ASSUME ~unreliable
        PROVE  Flight /\ operations = <<>> /\ reports[1] = radio /\ reports' = <<>>
    <3>1. Flight /\ operations = <<>> /\ reports[1] = radio /\ Len(reports) <= 1
      BY <1>0, <2>1, <2>2 DEF FlightInv, Flight
    <3>2. reports' = <<>>
      BY <2>1, <3>1
    <3> QED
      BY <3>1, <3>2
  <2>3. action = NoAction /\ action' = NoAction /\ (disturbed => disturbed') /\ alive' = alive
    BY <2>1 DEF ProcessStateReport
  <2>4. FlightInv'
    <3>1. SUFFICES ASSUME ~unreliable PROVE Flight'
      BY <1>1 DEF FlightInv
    <3>2. Flight /\ operations' = <<>> /\ reports' = <<>>
      BY <2>1, <2>2, <3>1
    <3>3. Len(operations') = 0 /\ Len(reports') = 0
      BY <3>2
    <3> QED
      BY <2>1, <2>3, <3>2, <3>3 DEF Flight
  <2>5. WantedInv'
    <3>1. SUFFICES ASSUME Reliable' PROVE Follows'
      BY DEF WantedInv
    <3>2. ~unreliable /\ ~disturbed' /\ Follows
      BY <1>0, <1>1, <2>3, <3>1 DEF WantedInv, Reliable
    <3>3. operations = <<>> /\ operations' = <<>> /\ reports[1] = radio
      BY <2>1, <2>2, <3>2
    <3> QED
      BY <1>0, <1>1, <2>1, <3>2, <3>3, ReportFollows
  <2> QED
    BY <1>2, <2>4, <2>5
<1> QED
  BY <1>3, <1>4

(***************************************************************************)
(* Tasks of the queue                                                      *)
(***************************************************************************)
LEMMA QueueKeepsFollow ==
  ASSUME FollowInv, HostQueueStep
  PROVE  RestrictInv' /\ FlightInv' /\ WantedInv'
<1>0. /\ TypeOK /\ MutexInv /\ AloneInv /\ HostTypeOK /\ RestrictInv /\ FlightInv /\ WantedInv
      /\ NoTask.kind = "none"
  BY DEF FollowInv, OrderInv, OnceInv, TimeoutInv, NoTask
<1>1. /\ UNCHANGED <<radio, operations, reports, removed, serviceVars>>
      /\ UNCHANGED <<restrictCall, wanted, unreliable>>
  BY DEF HostQueueStep, hostVars, callVars, serviceVars
<1>2. CASE RunCachedTask
  <2>1. /\ action = NoAction /\ worker.kind = "cached" /\ ffrtQueue' = ffrtQueue
        /\ ProcessBluetoothSwitchAction(worker.req, TRUE)
        /\ UNCHANGED <<alive, disturbed>>
    BY <1>2 DEF RunCachedTask
  <2>2. ReplayStarted /\ ReplayInFlight /\ (Reliable' <=> Reliable)
    BY <1>1, <2>1 DEF ReplayStarted, ReplayInFlight, Reliable
  <2>3. FlightInv'
    BY <1>0, <1>1, <2>1, HandlingKeepsFlight DEF FlightInv
  <2>4. RestrictInv'
    BY <1>0, <1>1, <2>1 DEF RestrictInv
  <2>5. WantedInv'
    <3>1. SUFFICES ASSUME Reliable' PROVE Follows'
      BY DEF WantedInv
    <3>2. ~isBtSwitchProcessing /\ ffrtQueue = <<>> /\ Follows
      BY <1>0, <2>2, <3>1 DEF AloneInv, WantedInv, Reliable
    <3>3. StartAction(worker.req, TRUE)
      BY <2>1, <3>2 DEF ProcessBluetoothSwitchAction, CacheRequest
    <3>4. /\ cachedEventVec' = cachedEventVec /\ action'.req = worker.req
          /\ action'.onQueue /\ action'.step # "none"
      BY <3>3 DEF StartAction
    <3>5. action' # NoAction
      BY <3>4 DEF NoAction
    <3>6. ~ReplayInFlight'
      BY <2>1, <3>2, <3>4, <3>5 DEF ReplayInFlight, ReplayStarted
    <3>7. Ahead' = Ahead
      BY <2>2, <3>2, <3>4, <3>5, <3>6 DEF Ahead, UnderWayTarget, Replayed
    <3> QED
      BY <1>1, <3>2, <3>4, <3>7, FollowsStays
  <2> QED
    BY <2>3, <2>4, <2>5
<1>3. ASSUME UNCHANGED <<cachedEventVec, isBtSwitchProcessing, action, disturbed, alive>>,
             Reliable => Ahead' = Ahead
      PROVE  RestrictInv' /\ FlightInv' /\ WantedInv'
  <2>1. RestrictInv'
    BY <1>0, <1>1, <1>3 DEF RestrictInv
  <2>2. FlightInv'
    BY <1>0, <1>1, <1>3 DEF FlightInv, Flight
  <2>3. Reliable' <=> Reliable
    BY <1>1, <1>3 DEF Reliable
  <2>4. WantedInv'
    BY <1>0, <1>1, <1>3, <2>3, WantedStays
  <2> QED
    BY <2>1, <2>2, <2>4
<1>4. ASSUME NEW id \in timers, StartTimeoutTask(id)
      PROVE  RestrictInv' /\ FlightInv' /\ WantedInv'
  <2>1. /\ UNCHANGED <<cachedEventVec, isBtSwitchProcessing, action, disturbed, alive>>
        /\ worker = NoTask /\ worker'.kind = "timeout" /\ ffrtQueue' = ffrtQueue
    BY <1>4 DEF StartTimeoutTask, TimeoutTask, moduleVars, historyVars
  <2>2. UnderWayTarget' = UnderWayTarget
    BY <1>1, <2>1 DEF UnderWayTarget
  <2>3. ~ReplayStarted /\ ~ReplayStarted'
    BY <1>0, <2>1 DEF ReplayStarted
  <2>4. Ahead' = Ahead
    BY <2>1, <2>2, <2>3 DEF Ahead, ReplayInFlight, Replayed
  <2> QED
    BY <1>3, <2>1, <2>4
<1>5. CASE StartCachedTask
  <2>1. /\ UNCHANGED <<cachedEventVec, isBtSwitchProcessing, action, disturbed, alive>>
        /\ ffrtQueue \in Seq(BluetoothSwitchCacheEvent) /\ ffrtQueue # <<>>
        /\ worker = NoTask /\ ffrtQueue' = Tail(ffrtQueue)
        /\ worker'.kind = "cached" /\ worker'.req = ffrtQueue[1]
    BY <1>0, <1>5 DEF StartCachedTask, CachedTask, TypeOK, moduleVars, historyVars
  <2>2. ReplayInFlight /\ ReplayStarted' /\ ReplayInFlight'
    BY <1>0, <2>1 DEF ReplayInFlight, ReplayStarted, MutexInv
  <2>3. Reliable => Ahead' = Ahead
    <3>1. SUFFICES ASSUME Reliable PROVE Ahead' = Ahead
      OBVIOUS
    <3>2. Len(ffrtQueue) <= 1
      BY <1>0, <2>2, <3>1 DEF AloneInv, Reliable
    <3>3. ffrtQueue' = <<>>
      BY <2>1, <3>2
    <3> QED
      BY <2>1, <2>2, <3>3 DEF Ahead, Replayed
  <2> QED
    BY <1>3, <2>1, <2>3
<1>6. CASE SkipTask
  <2>1. UNCHANGED <<cachedEventVec, isBtSwitchProcessing, action, disturbed, alive>> /\ ~alive
    BY <1>6 DEF SkipTask, moduleVars, historyVars
  <2> QED
    BY <1>3, <2>1 DEF Reliable
<1> QED
  BY <1>2, <1>4, <1>5, <1>6 DEF HostQueueStep

LEMMA NextFollowInv == FollowInv /\ [HostNext]_hvars => FollowInv'
<1> SUFFICES ASSUME FollowInv, [HostNext]_hvars PROVE RestrictInv' /\ FlightInv' /\ WantedInv'
  BY NextOrderInv, NextHostTypeOK, HostStepIsModuleStep
  DEF FollowInv, OrderInv, OnceInv, TimeoutInv
<1>0. RestrictInv /\ FlightInv /\ WantedInv
  BY DEF FollowInv
<1>1. /\ ENABLE_BLUETOOTH \in SwitchRequest /\ DISABLE_BLUETOOTH \in SwitchRequest
      /\ ENABLE_BLUETOOTH_TO_RESTRICE_MODE \in SwitchRequest
      /\ \A event \in SwitchRequest :
           event # ENABLE_BLUETOOTH_TO_RESTRICE_MODE => TargetOf(event) # "BLUETOOTH_HALF"
      /\ TargetOf(ENABLE_BLUETOOTH) = "BLUETOOTH_ON"
  BY DEF SwitchRequest, TargetOf, ENABLE_BLUETOOTH, DISABLE_BLUETOOTH,
         ENABLE_BLUETOOTH_TO_RESTRICE_MODE
<1>2. ASSUME NEW event \in SwitchRequest, SwitchCall(event)
      PROVE  RestrictInv' /\ FlightInv' /\ WantedInv'
  <2>1. /\ ProcessRequest(event) /\ UNCHANGED <<serviceVars, unreliable, restrictCall>>
        /\ restrictCall = "none"
        /\ wanted' = IF event = ENABLE_BLUETOOTH_TO_RESTRICE_MODE THEN "unspecified"
                                                               ELSE TargetOf(event)
    BY <1>2 DEF SwitchCall, HostUnlocked
  <2>2. wanted' \in {TargetOf(event), "unspecified"} /\ wanted' # "BLUETOOTH_HALF"
    BY <1>1, <2>1
  <2> QED
    BY <2>1, <2>2, CallKeepsFollow
<1>3. CASE NoAutoConnectSet
  <2>1. /\ UNCHANGED <<cachedEventVec, isBtSwitchProcessing, action, ffrtQueue, worker,
                       disturbed, alive>>
        /\ UNCHANGED <<restrictCall, wanted, radio, operations, reports, removed, unreliable>>
    BY <1>3 DEF NoAutoConnectSet, SetNoAutoConnect, queueVars, historyVars, serviceVars
  <2>2. Ahead' = Ahead /\ (Reliable' <=> Reliable)
    BY <2>1, AheadStays DEF Reliable
  <2>3. WantedInv'
    BY <1>0, <2>1, <2>2, WantedStays
  <2> QED
    BY <1>0, <2>1, <2>3 DEF RestrictInv, FlightInv, Flight
<1>4. CASE NoAutoConnectEnable
  <2>1. /\ ProcessRequest(ENABLE_BLUETOOTH)
        /\ UNCHANGED <<serviceVars, unreliable, restrictCall>>
        /\ restrictCall = "none" /\ wanted' = "BLUETOOTH_ON"
    BY <1>4 DEF NoAutoConnectEnable, HostUnlocked
  <2> QED
    BY <1>1, <2>1, CallKeepsFollow
<1>5. CASE RestrictBluetooth \/ RestrictSecondEvent
  BY <1>5, RestrictKeepsFollow
<1>6. CASE HostClose
  <2>1. ~alive' /\ UNCHANGED <<isBtSwitchProcessing, action>>
        /\ UNCHANGED <<restrictCall, radio, operations, reports, removed, unreliable>>
    BY <1>6 DEF HostClose, Destroy, moduleVars, hostVars, callVars, serviceVars
  <2> QED
    BY <1>0, <2>1 DEF RestrictInv, FlightInv, Flight, WantedInv, Reliable
<1>7. CASE HostActionStep
  BY <1>7, ActionKeepsFollow
<1>8. CASE ServicePerforms \/ ServiceDies
  BY <1>8, ServiceKeepsFollow
<1>9. CASE OnBluetoothStateChanged \/ OnRemoveBluetoothSystemAbility
  BY <1>9, ReportKeepsFollow
<1>10. CASE HostOnTaskTimeout
  <2>1. unreliable' /\ UNCHANGED <<action, restrictCall>>
    BY <1>10 DEF HostOnTaskTimeout, OnTaskTimeout, callVars
  <2> QED
    BY <1>0, <2>1 DEF RestrictInv, FlightInv, WantedInv, Reliable
<1>11. CASE HostQueueStep
  BY <1>11, QueueKeepsFollow
<1>12. CASE UNCHANGED hvars
  <2>1. /\ UNCHANGED <<cachedEventVec, isBtSwitchProcessing, action, ffrtQueue, worker,
                       disturbed, alive>>
        /\ UNCHANGED <<restrictCall, wanted, radio, operations, reports, removed, unreliable>>
    BY <1>12 DEF hvars, vars, hostVars, callVars, serviceVars, moduleVars, queueVars,
                 historyVars
  <2>2. Ahead' = Ahead /\ (Reliable' <=> Reliable)
    BY <2>1, AheadStays DEF Reliable
  <2>3. WantedInv'
    BY <1>0, <2>1, <2>2, WantedStays
  <2> QED
    BY <1>0, <2>1, <2>3 DEF RestrictInv, FlightInv, Flight
<1> QED
  BY <1>1, <1>2, <1>3, <1>4, <1>5, <1>6, <1>7, <1>8, <1>9, <1>10, <1>11, <1>12
  DEF HostNext, EnableBle, DisableBt, EnableBluetoothToRestrictMode, OnBluetoothSwitchAction

LEMMA InitFollowInv == HostInit => FollowInv
<1> SUFFICES ASSUME HostInit PROVE FollowInv
  OBVIOUS
<1>1. OrderInv /\ HostTypeOK
  BY InitOrderInv, InitHostTypeOK DEF HostInit
<1>2. RestrictInv
  BY DEF HostInit, RestrictInv
<1>3. Len(operations) = 0 /\ Len(reports) = 0
  BY DEF HostInit
<1>4. FlightInv
  BY <1>3 DEF HostInit, Init, FlightInv, Flight
<1>5. ~ReplayInFlight /\ Ahead = "BLUETOOTH_OFF"
  BY DEF HostInit, Init, ReplayInFlight, ReplayStarted, NoTask, Ahead, UnderWayTarget
<1>6. WantedInv
  BY <1>5 DEF HostInit, Init, WantedInv, Follows, LastTarget
<1> QED
  BY <1>1, <1>2, <1>4, <1>6 DEF FollowInv

(***************************************************************************)
(* Whatever calls, replays and reports did, once everything is quiet the   *)
(* radio is in the state that the last call asked for, unless something    *)
(* failed or the order of the calls was disturbed.                         *)
(***************************************************************************)
THEOREM LastCallIsHonoured == HostSpec => []QuietMeansWanted
<1>1. FollowInv => QuietMeansWanted
  <2>1. SUFFICES ASSUME FollowInv, Quiet, ~unreliable, ~disturbed
                 PROVE  wanted \in {radio, "unspecified"}
    BY DEF QuietMeansWanted
  <2>2. Follows /\ restrictCall = "none" /\ wanted \in {LastTarget, "unspecified"}
    BY <2>1 DEF FollowInv, WantedInv, Reliable, Quiet, Follows
  <2>3. cachedEventVec = <<>>
    <3>1. cachedEventVec \in Seq(BluetoothSwitchCacheEvent) /\ IdsOf(cachedEventVec) = {}
      BY <2>1 DEF FollowInv, OrderInv, OnceInv, TimeoutInv, TypeOK, Quiet, Pending
    <3>2. cachedEventVec # <<>> => cachedEventVec[1].id \in IdsOf(cachedEventVec)
      BY <3>1 DEF IdsOf
    <3> QED
      BY <3>1, <3>2
  <2>4. ~ReplayInFlight
    <3>1. ffrtQueue \in Seq(BluetoothSwitchCacheEvent) /\ IdsOf(ffrtQueue) = {}
          /\ StartedReplay = {}
      BY <2>1 DEF FollowInv, OrderInv, OnceInv, TimeoutInv, TypeOK, Quiet, Pending, Replaying
    <3>2. ffrtQueue # <<>> => ffrtQueue[1].id \in IdsOf(ffrtQueue)
      BY <3>1 DEF IdsOf
    <3>3. ~ReplayStarted
      BY <3>1 DEF StartedReplay
    <3> QED
      BY <3>1, <3>2, <3>3 DEF ReplayInFlight
  <2>5. LastTarget = radio
    BY <2>1, <2>3, <2>4 DEF LastTarget, Ahead, UnderWayTarget, Quiet
  <2> QED
    BY <2>2, <2>5
<1> QED
  BY <1>1, InitFollowInv, NextFollowInv, PTL DEF HostSpec
=============================================================================
