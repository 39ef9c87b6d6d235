---------------------------- MODULE NapiAsyncWork ----------------------------
(***************************************************************************)
(* The asynchronous calls of the JavaScript bindings: NapiAsyncWork,       *)
(* NapiAsyncWorkMap, NapiTimer and NapiAsyncCallback                       *)
(* (frameworks/js/napi/src/common/napi_async_work.cpp, napi_timer.cpp,     *)
(* napi_async_callback.cpp), as the GATT, advertising, scanning and        *)
(* battery bindings use them for a call whose result a callback of the     *)
(* service brings.  The model has one type of call, so the map has at most *)
(* one entry.                                                              *)
(*                                                                         *)
(* Four threads take part.  The JavaScript thread pushes a work into the   *)
(* map, runs Complete when its function has been executed, and runs what   *)
(* other threads post to it.  A worker executes the function, which sends  *)
(* the request.  The callback thread takes the work out of the map when    *)
(* the answer comes and completes it.  The timer thread completes it with  *)
(* a timeout.  A work is kept alive by shared pointers of the map, of its  *)
(* Info until Complete has run, of a thread that handles it and of what is *)
(* posted; the timer has a weak pointer only.                              *)
(*                                                                         *)
(* Works that need no callback are completed by Complete, as a failed one  *)
(* is.  The values of the results, and the environment that exits, are     *)
(* left out.                                                               *)
(***************************************************************************)
EXTENDS Naturals, Sequences, SequencesExt

CONSTANTS
  MaxRequests   \* bound on the calls the application makes

ASSUME NapiAssumption == MaxRequests \in Nat

Works == 1..MaxRequests

None == 0

VARIABLES
  map_,         \* the work of the call's type in the map, or None
  stage,        \* how far each work has come
  isPromise,    \* whether it settles a promise, or calls a function
  triggered,    \* triggered_
  timerId,      \* whether timerId_ has been set
  timer,        \* the works whose timer is registered with the timer thread
  js,           \* what the JavaScript thread is doing inside Complete
  posted,       \* what has been posted to it
  handler,      \* where the callback thread and the timer thread are
  sent,         \* requests the service has and may answer
  results,      \* history: what the application received for each work
  displaced     \* history: works that Erase removed in place of another

vars == <<map_, stage, isPromise, triggered, timerId, timer, js, posted, handler,
          sent, results, displaced>>

Handlers == {"callback", "timer"}

Free == [pc |-> "idle", work |-> None, result |-> None]

Init ==
  /\ map_ = None
  /\ stage = [w \in Works |-> "none"]
  /\ isPromise = [w \in Works |-> TRUE]
  /\ triggered = [w \in Works |-> FALSE]
  /\ timerId = [w \in Works |-> FALSE]
  /\ timer = {}
  /\ js = [pc |-> "idle", work |-> None]
  /\ posted = <<>>
  /\ handler = [h \in Handlers |-> Free]
  /\ sent = {}
  /\ results = [w \in Works |-> <<>>]
  /\ displaced = {}

\* What a work can be completed with: the answer to request v is v itself.
Timeout == MaxRequests + 1

Error == MaxRequests + 2

Alive(w) ==
  \/ map_ = w
  \/ stage[w] \in {"queued", "executed", "failed"}
  \/ js.work = w
  \/ \E h \in Handlers : handler[h].work = w
  \/ \E i \in DOMAIN posted : posted[i].work = w

\* NapiAsyncCallback::CallFunction, on the JavaScript thread: a promise is
\* settled once, a function is called every time.
CallJs(w, result) ==
  results' = IF isPromise[w] /\ results[w] # <<>> THEN results
             ELSE [results EXCEPT ![w] = Append(@, result)]

-----------------------------------------------------------------------------
(* The JavaScript thread. *)

\* Mutant: TryPush replaces the entry whatever its state.
AlwaysReplaceable == TRUE

\* TryPush: an entry that has not been triggered yet is not replaced.
Replaceable == map_ \in {None} \cup {w \in Works : triggered[w]}

\* The application calls: the work is made, pushed and queued by Run.  When
\* Run cannot queue it, the entry stays.
Request(w) ==
  /\ js.pc = "idle"
  /\ stage[w] = "none" /\ \A v \in 1..(w - 1) : stage[v] # "none"
  /\ \E p \in BOOLEAN : isPromise' = [isPromise EXCEPT ![w] = p]
  /\ \/ /\ Replaceable
        /\ map_' = w
        /\ \E s \in {"queued", "notRun"} : stage' = [stage EXCEPT ![w] = s]
     \/ /\ ~Replaceable
        /\ stage' = [stage EXCEPT ![w] = "refused"]
        /\ UNCHANGED map_
  /\ UNCHANGED <<triggered, timerId, timer, js, posted, handler, sent, results, displaced>>

\* Complete of a work that failed settles it at once; the entry stays.
CompleteFailed(w) ==
  /\ js.pc = "idle" /\ stage[w] = "failed"
  /\ stage' = [stage EXCEPT ![w] = "completed"]
  /\ triggered' = [triggered EXCEPT ![w] = TRUE]
  /\ CallJs(w, Error)
  /\ UNCHANGED <<map_, isPromise, timerId, timer, js, posted, handler, sent, displaced>>

\* Mutant: Complete ignores needCallback and settles the work itself.
CompleteAtOnce(w) ==
  /\ js.pc = "idle" /\ stage[w] = "executed"
  /\ stage' = [stage EXCEPT ![w] = "completed"]
  /\ triggered' = [triggered EXCEPT ![w] = TRUE]
  /\ CallJs(w, Error)
  /\ UNCHANGED <<map_, isPromise, timerId, timer, js, posted, handler, sent, displaced>>

\* Mutant: Complete leaves everything to the callback.
CompleteWithoutTimer(w) ==
  /\ js.pc = "idle" /\ stage[w] = "executed"
  /\ stage' = [stage EXCEPT ![w] = "completed"]
  /\ UNCHANGED <<map_, isPromise, triggered, timerId, timer, js, posted, handler, sent,
                 results, displaced>>

\* Complete of a work that waits for its callback: nothing is left to do if
\* the callback came first, otherwise a timer is registered ...
CompleteWaiting(w) ==
  /\ js.pc = "idle" /\ stage[w] = "executed"
  /\ IF triggered[w]
     THEN stage' = [stage EXCEPT ![w] = "completed"] /\ UNCHANGED js
     ELSE js' = [pc |-> "register", work |-> w] /\ UNCHANGED stage
  /\ UNCHANGED <<map_, isPromise, triggered, timerId, timer, posted, handler, sent,
                 results, displaced>>

RegisterTimer ==
  /\ js.pc = "register"
  /\ timer' = timer \cup {js.work}
  /\ js' = [js EXCEPT !.pc = "store"]
  /\ UNCHANGED <<map_, stage, isPromise, triggered, timerId, posted, handler, sent,
                 results, displaced>>

\* ... and its id stored for whoever completes the work.
StoreTimerId ==
  /\ js.pc = "store"
  /\ timerId' = [timerId EXCEPT ![js.work] = TRUE]
  /\ stage' = [stage EXCEPT ![js.work] = "completed"]
  /\ js' = [pc |-> "idle", work |-> None]
  /\ UNCHANGED <<map_, isPromise, triggered, timer, posted, handler, sent, results, displaced>>

\* The thread runs the next function posted to it.
RunPosted ==
  /\ js.pc = "idle" /\ posted # <<>>
  /\ CallJs(Head(posted).work, Head(posted).result)
  /\ posted' = Tail(posted)
  /\ UNCHANGED <<map_, stage, isPromise, triggered, timerId, timer, js, handler, sent, displaced>>

-----------------------------------------------------------------------------
(* The worker. *)

\* The function sends the request, or fails.
Execute(w) ==
  /\ stage[w] = "queued"
  /\ \/ stage' = [stage EXCEPT ![w] = "executed"] /\ sent' = sent \cup {w}
     \/ stage' = [stage EXCEPT ![w] = "failed"] /\ UNCHANGED sent
  /\ UNCHANGED <<map_, isPromise, triggered, timerId, timer, js, posted, handler,
                 results, displaced>>

-----------------------------------------------------------------------------
(* The callback thread and the timer thread. *)

\* AsyncWorkCallFunction for the answer to request v: Get ...
AnswerGet(v) ==
  /\ v \in sent
  /\ handler["callback"].pc = "idle"
  /\ sent' = sent \ {v}
  /\ handler' = IF map_ = None THEN handler
                ELSE [handler EXCEPT !["callback"] =
                        [pc |-> "erase", work |-> map_, result |-> v]]
  /\ UNCHANGED <<map_, stage, isPromise, triggered, timerId, timer, js, posted,
                 results, displaced>>

\* ... then Erase of whatever the map holds by now.
AnswerErase ==
  LET a == handler["callback"]
  IN  /\ a.pc = "erase"
      /\ map_' = None
      /\ displaced' = IF map_ \in {None, a.work} THEN displaced
                      ELSE displaced \cup {map_}
      /\ handler' = [handler EXCEPT !["callback"].pc = "unregister"]
      /\ UNCHANGED <<stage, isPromise, triggered, timerId, timer, js, posted, sent, results>>

\* The timer of w expires; its function finds the work, or finds it gone.
TimerExpires(w) ==
  /\ w \in timer
  /\ handler["timer"].pc = "idle"
  /\ timer' = timer \ {w}
  /\ handler' = IF Alive(w)
                THEN [handler EXCEPT !["timer"] =
                        [pc |-> "unregister", work |-> w, result |-> Timeout]]
                ELSE handler
  /\ UNCHANGED <<map_, stage, isPromise, triggered, timerId, js, posted, sent,
                 results, displaced>>

\* NapiAsyncWork::CallFunction: the timer whose id is stored is removed ...
CallUnregister(h) ==
  LET w == handler[h].work
  IN  /\ handler[h].pc = "unregister"
      /\ timer' = IF timerId[w] THEN timer \ {w} ELSE timer
      /\ handler' = [handler EXCEPT ![h].pc = "post"]
      /\ UNCHANGED <<map_, stage, isPromise, triggered, timerId, js, posted, sent,
                     results, displaced>>

\* ... the work is triggered, and the result posted to the JavaScript thread.
CallPost(h) ==
  /\ handler[h].pc = "post"
  /\ triggered' = [triggered EXCEPT ![handler[h].work] = TRUE]
  /\ posted' = Append(posted, [work |-> handler[h].work, result |-> handler[h].result])
  /\ handler' = [handler EXCEPT ![h] = Free]
  /\ UNCHANGED <<map_, stage, isPromise, timerId, timer, js, sent, results, displaced>>

-----------------------------------------------------------------------------
JsThread ==
  \/ \E w \in Works : CompleteFailed(w) \/ CompleteWaiting(w)
  \/ RegisterTimer \/ StoreTimerId \/ RunPosted

TimerThread ==
  (\E w \in Works : TimerExpires(w)) \/ CallUnregister("timer") \/ CallPost("timer")

CallbackThread == AnswerErase \/ CallUnregister("callback") \/ CallPost("callback")

Next ==
  \/ \E w \in Works : Request(w) \/ Execute(w) \/ AnswerGet(w)
  \/ JsThread \/ TimerThread \/ CallbackThread

\* Every thread is scheduled and a timer expires; the service need not answer
\* and the application need not call.
Fairness ==
  /\ \A w \in Works : WF_vars(Execute(w))
  /\ WF_vars(JsThread) /\ WF_vars(TimerThread) /\ WF_vars(CallbackThread)

Spec == Init /\ [][Next]_vars /\ Fairness

-----------------------------------------------------------------------------
(* Properties. *)

\* Every call that was queued is settled by its answer, its error or its
\* timeout, whatever the service does.  The exception is a work that an answer
\* to an earlier, timed-out call displaced from the map: nothing but the
\* weak pointer of the timer is left of it after Complete.
CallsSettle ==
  \A w \in Works :
    (stage[w] = "queued") ~> (results[w] # <<>> \/ w \in displaced)

TimedOut(v) ==
  \/ Timeout \in ToSet(results[v])
  \/ \E i \in DOMAIN posted : posted[i] = [work |-> v, result |-> Timeout]

\* A callback function is called a second time only around a timeout: its own
\* answer came while its timer expired or later, or the late answer to a call
\* that timed out before it found its entry still in the map.
CalledTwiceOnlyAroundTimeout ==
  \A w \in Works : Len(results[w]) > 1 => \E v \in 1..w : TimedOut(v)

\* An answer settles the call that asked for it.  It may reach another call,
\* which is then a later one, only after the one that asked, or one before it
\* whose late answer took its place, timed out.
AnswersReachTheirCall ==
  \A w, v \in Works :
    v # w /\ v \in ToSet(results[w]) => v < w /\ \E u \in 1..v : TimedOut(u)

=============================================================================
