------------------------- MODULE NapiAsyncWorkProofs -------------------------
(***************************************************************************)
(* Proofs about NapiAsyncWork, for every number of calls.                  *)
(*                                                                         *)
(* Both properties say that something odd is seen only after a timeout, so *)
(* the proof follows timeouts: once TimesOut(w) holds the application has  *)
(* received the timeout of w or certainly will, which TimedOut alone does  *)
(* not give (a promise drops what comes second).  PendingInv is the heart: *)
(* as long as the answer to v is to come and nothing has timed out, v has  *)
(* its entry in the map, is not triggered and has received nothing.  The   *)
(* other parts say what a request that is new, failed, sent or answered    *)
(* can have received.                                                      *)
(***************************************************************************)
EXTENDS NapiAsyncWork, TLAPS

Stages == {"none", "queued", "notRun", "refused", "executed", "failed", "completed"}

Answers == [work : Works, result : Works \cup {Timeout, Error}]

HandlerStates ==
  [pc : {"idle", "erase", "unregister", "post"}, work : Works \cup {None},
   result : Works \cup {Timeout, None}]

TypeOK ==
  /\ map_ \in Works \cup {None}
  /\ stage \in [Works -> Stages]
  /\ isPromise \in [Works -> BOOLEAN]
  /\ triggered \in [Works -> BOOLEAN]
  /\ timerId \in [Works -> BOOLEAN]
  /\ timer \subseteq Works
  /\ js \in [pc : {"idle", "register", "store"}, work : Works \cup {None}]
  /\ js.pc # "idle" => js.work \in Works
  /\ posted \in Seq(Answers)
  /\ handler \in [Handlers -> HandlerStates]
  /\ sent \subseteq Works
  /\ results \in [Works -> Seq(Works \cup {Timeout, Error})]
  /\ displaced \subseteq Works

\* The callback thread answers w with r.
Answering(w, r) ==
  handler["callback"].pc # "idle" /\ handler["callback"].work = w
                                  /\ handler["callback"].result = r

\* The timer thread completes w.
Expiring(w) == handler["timer"].pc # "idle" /\ handler["timer"].work = w

HandlerInv ==
  /\ handler["callback"].pc # "idle" => \E w, r \in Works : Answering(w, r)
  /\ handler["timer"].pc # "idle" =>
       handler["timer"].result = Timeout /\ \E w \in Works : Expiring(w)

\* The application has received r for w, or will unless w is settled before.
Has(w, r) ==
  \/ \E i \in 1 .. Len(results[w]) : results[w][i] = r
  \/ \E i \in 1 .. Len(posted) : posted[i].work = w /\ posted[i].result = r

\* It has received the timeout of w, or certainly will.
PostedFor(w) ==
  \E i \in 1 .. Len(posted) :
    /\ posted[i].work = w /\ posted[i].result = Timeout
    /\ isPromise[w] => /\ results[w] = <<>>
                       /\ \A j \in 1 .. (i - 1) : posted[j].work # w

TimesOut(w) == (\E i \in 1 .. Len(results[w]) : results[w][i] = Timeout) \/ PostedFor(w)

\* The call v or one before it has timed out.
Late(v) == \E u \in 1 .. v : TimesOut(u)

\* The answer to v is to come and may still find v in the map.
Pending(v) ==
  \/ stage[v] = "queued" \/ v \in sent
  \/ handler["callback"].pc = "erase" /\ handler["callback"].result = v

\* Calls are numbered in the order they are made, and nothing is known of one
\* that is not made yet.
FreshInv ==
  \A w \in Works : stage[w] = "none" =>
    /\ \A v \in Works : w < v => stage[v] = "none"
    /\ map_ # w /\ ~triggered[w] /\ w \notin timer /\ js.work # w
    /\ \A h \in Handlers : handler[h].work # w
    /\ \A r : ~Has(w, r)

\* A timer is made only for a work whose function sent its request.
TimerInv ==
  \A w \in Works :
    w \in timer \/ js.work = w \/ Expiring(w) \/ Has(w, Timeout)
      => stage[w] \in {"executed", "completed"}

\* Each request is answered once, and only if it was sent; an error is given
\* once, to a work whose request was not sent.
AnswerInv ==
  \A v \in Works :
    /\ v \in sent => stage[v] \in {"executed", "completed"}
    /\ \A w \in Works :
         Answering(w, v) \/ Has(w, v) =>
           stage[v] \in {"executed", "completed"} /\ v \notin sent
    /\ \A w, u \in Works : ~(Answering(w, v) /\ Has(u, v))
    /\ Has(v, Error) => /\ stage[v] = "completed" /\ v \notin sent
                        /\ \A w \in Works : ~Answering(w, v)

\* The callback erases what it found in the map, or a later work.
MapInv ==
  handler["callback"].pc = "erase" => map_ # None /\ handler["callback"].work <= map_

\* While its answer is to come, a work has its entry in the map, is not
\* triggered and has received nothing, until it or one before it times out.
PendingInv ==
  \A v \in Works : Pending(v) =>
    /\ map_ # v => Late(v) /\ (map_ = None \/ v < map_)
    /\ triggered[v] => Late(v)
    /\ \A r : Has(v, r) => Late(v)

\* An answer goes astray only after a timeout.
ReachInv ==
  \A w, v \in Works : v # w /\ (Answering(w, v) \/ Has(w, v)) => v < w /\ Late(v)

\* A function is called once, unless a timeout came.
Single(w) ==
  /\ Len(results[w]) <= 1
  /\ \A i \in 1 .. Len(posted) : posted[i].work = w => results[w] = <<>>
  /\ \A i, j \in 1 .. Len(posted) : posted[i].work = w /\ posted[j].work = w => i = j

OnceInv ==
  \A w \in Works :
    IF isPromise[w] THEN Len(results[w]) <= 1 ELSE Late(w) \/ Single(w)

IInv == TypeOK /\ HandlerInv /\ FreshInv /\ TimerInv /\ AnswerInv /\ MapInv /\ PendingInv
                /\ ReachInv /\ OnceInv
-----------------------------------------------------------------------------
(***************************************************************************)
(* What the application has received                                       *)
(***************************************************************************)
LEMMA WorksAreNumbers ==
  /\ Works \subseteq Nat /\ None \notin Works /\ None \in Nat
  /\ Timeout \notin Works /\ Error \notin Works /\ Timeout # None
  /\ Timeout # Error
  /\ \A v \in Works : 1 .. v \subseteq Works /\ v \in 1 .. v
BY NapiAssumption DEF Works, None, Timeout, Error

LEMMA LateLater ==
  ASSUME NEW u \in Works, NEW v \in Works, u <= v, Late(u)
  PROVE  Late(v)
<1>1. 1 .. u \subseteq 1 .. v
  BY WorksAreNumbers
<1>. QED BY <1>1 DEF Late

LEMMA TimeoutIsLate ==
  ASSUME NEW v \in Works, TimesOut(v)
  PROVE  Late(v)
BY WorksAreNumbers DEF Late

\* Nothing new is received, and no timeout is taken back.
Keeps ==
  /\ \A w \in Works : \A r : Has(w, r)' => Has(w, r)
  /\ \A v \in Works : Late(v) => Late(v)'

LEMMA NothingReceived ==
  ASSUME UNCHANGED <<isPromise, posted, results>>
  PROVE  Keeps /\ (OnceInv => OnceInv')
<1>1. \A w : TimesOut(w)' <=> TimesOut(w)
  BY DEF TimesOut, PostedFor, Timeout
<1>2. \A v : Late(v)' <=> Late(v)
  BY <1>1 DEF Late
<1>3. \A w, r : Has(w, r)' => Has(w, r)
  BY DEF Has
<1>4. \A w : Single(w)' <=> Single(w)
  BY DEF Single
<1>. QED BY <1>2, <1>3, <1>4 DEF Keeps, OnceInv

LEMMA HasResult ==
  ASSUME TypeOK, NEW w \in Works, NEW r, Has(w, r)
  PROVE  r \in Works \cup {Timeout, Error}
<1>1. results[w] \in Seq(Works \cup {Timeout, Error}) /\ posted \in Seq(Answers)
  BY DEF TypeOK
<1>2. \A i \in 1 .. Len(results[w]) : results[w][i] \in Works \cup {Timeout, Error}
  BY <1>1
<1>3. \A i \in 1 .. Len(posted) : posted[i].result \in Works \cup {Timeout, Error}
  <2>1. \A i \in 1 .. Len(posted) : posted[i] \in Answers
    BY <1>1
  <2>. QED BY <2>1 DEF Answers
<1>. QED BY <1>2, <1>3 DEF Has

LEMMA NothingHad ==
  ASSUME TypeOK, NEW w \in Works, \A r : ~Has(w, r)
  PROVE  /\ results[w] = <<>> /\ Len(results[w]) = 0
         /\ \A i \in 1 .. Len(posted) : posted[i].work # w
<1>1. results[w] \in Seq(Works \cup {Timeout, Error})
  BY DEF TypeOK
<1>2. \A i \in 1 .. Len(results[w]) : Has(w, results[w][i])
  BY DEF Has
<1>3. \A i \in 1 .. Len(posted) : posted[i].work = w => Has(w, posted[i].result)
  BY DEF Has
<1>4. Len(results[w]) = 0
  <2>1. CASE Len(results[w]) # 0
    <3>1. 1 \in 1 .. Len(results[w])
      BY <1>1, <2>1
    <3>. QED BY <1>2, <3>1
  <2>. QED BY <2>1
<1>5. results[w] = <<>>
  BY <1>1, <1>4
<1>. QED BY <1>3, <1>4, <1>5

\* A result is posted.
LEMMA Posting ==
  ASSUME TypeOK, NEW x \in Works, NEW y \in Works \cup {Timeout},
         posted' = Append(posted, [work |-> x, result |-> y]),
         UNCHANGED <<isPromise, results>>
  PROVE  /\ \A w, r : Has(w, r)' => Has(w, r) \/ (w = x /\ r = y)
         /\ \A v : Late(v) => Late(v)'
         /\ y = Timeout /\ (isPromise[x] => \A r : ~Has(x, r)) => TimesOut(x)'
         /\ \A w : Single(w) /\ (w # x \/ \A r : ~Has(x, r)) => Single(w)'
<1>. DEFINE p == [work |-> x, result |-> y]
            n == Len(posted)
<1>1. /\ n \in Nat /\ Len(posted') = n + 1 /\ posted'[n + 1] = p
      /\ \A i \in 1 .. n : posted'[i] = posted[i]
      /\ p.work = x /\ p.result = y
  <2>1. p \in Answers /\ posted \in Seq(Answers)
    BY DEF Answers, TypeOK
  <2>. QED BY <2>1
<1>. HIDE DEF p
<1>2. \A w, r : Has(w, r)' => Has(w, r) \/ (w = x /\ r = y)
  BY <1>1 DEF Has
<1>3. \A w : TimesOut(w) => TimesOut(w)'
  <2>. SUFFICES ASSUME NEW w, TimesOut(w)
                PROVE  TimesOut(w)'
    OBVIOUS
  <2>1. CASE \E i \in 1 .. Len(results[w]) : results[w][i] = Timeout
    BY <2>1 DEF TimesOut, Timeout
  <2>2. CASE PostedFor(w)
    <3>1. PICK i \in 1 .. n :
             /\ posted[i].work = w /\ posted[i].result = Timeout
             /\ isPromise[w] => /\ results[w] = <<>>
                                /\ \A j \in 1 .. (i - 1) : posted[j].work # w
      BY <2>2 DEF PostedFor
    <3>2. i \in 1 .. Len(posted') /\ posted'[i] = posted[i]
          /\ \A j \in 1 .. (i - 1) : posted'[j] = posted[j]
      BY <1>1
    <3>. QED BY <3>1, <3>2 DEF TimesOut, PostedFor, Timeout
  <2>. QED BY <2>1, <2>2 DEF TimesOut
<1>4. \A v : Late(v) => Late(v)'
  BY <1>3 DEF Late
<1>5. ASSUME y = Timeout, isPromise[x] => \A r : ~Has(x, r)
      PROVE  TimesOut(x)'
  <2>1. n + 1 \in 1 .. Len(posted') /\ posted'[n + 1].work = x
        /\ posted'[n + 1].result = Timeout
    BY <1>1, <1>5
  <2>2. ASSUME isPromise[x]
        PROVE  results[x] = <<>> /\ \A j \in 1 .. n : posted'[j].work # x
    BY <1>1, <1>5, <2>2, NothingHad
  <2>3. (n + 1) - 1 = n
    BY <1>1
  <2>. QED BY <2>1, <2>2, <2>3 DEF TimesOut, PostedFor, Timeout
<1>6. ASSUME NEW w, Single(w), w # x \/ \A r : ~Has(x, r)
      PROVE  Single(w)'
  <2>1. ASSUME w # x
        PROVE  \A i \in 1 .. (n + 1) :
                 posted'[i].work = w => i \in 1 .. n /\ posted[i].work = w
    BY <1>1, <2>1
  <2>2. CASE w # x
    BY <1>1, <1>6, <2>1, <2>2 DEF Single
  <2>3. CASE w = x
    <3>1. results[x] = <<>> /\ Len(results[x]) = 0
          /\ \A i \in 1 .. n : posted'[i].work # x
      BY <1>1, <1>6, <2>3, NothingHad
    <3>. QED BY <1>1, <2>3, <3>1 DEF Single
  <2>. QED BY <2>2, <2>3
<1>. QED BY <1>2, <1>4, <1>5, <1>6

\* A result is given to the application.
LEMMA CallJsEffect ==
  ASSUME TypeOK, NEW x \in Works, NEW y \in Works \cup {Timeout, Error}, CallJs(x, y)
  PROVE  /\ results' \in [Works -> Seq(Works \cup {Timeout, Error})]
         /\ \A w \in Works : w # x => results'[w] = results[w]
         /\ \/ isPromise[x] /\ results[x] # <<>> /\ results'[x] = results[x]
            \/ /\ isPromise[x] => results[x] = <<>>
               /\ Len(results'[x]) = Len(results[x]) + 1
               /\ results'[x][Len(results[x]) + 1] = y
               /\ \A i \in 1 .. Len(results[x]) : results'[x][i] = results[x][i]
<1>1. results[x] \in Seq(Works \cup {Timeout, Error})
  BY DEF TypeOK
<1>2. CASE isPromise[x] /\ results[x] # <<>>
  BY <1>2 DEF CallJs, TypeOK
<1>3. CASE ~(isPromise[x] /\ results[x] # <<>>)
  <2>1. results' = [results EXCEPT ![x] = Append(results[x], y)]
    BY <1>3 DEF CallJs
  <2>2. Append(results[x], y) \in Seq(Works \cup {Timeout, Error})
    BY <1>1
  <2>3. /\ results' \in [Works -> Seq(Works \cup {Timeout, Error})]
        /\ \A w \in Works : w # x => results'[w] = results[w]
        /\ results'[x] = Append(results[x], y)
    BY <2>1, <2>2 DEF TypeOK
  <2>. QED BY <1>1, <1>3, <2>3
<1>. QED BY <1>2, <1>3

LEMMA RunPostedEffect ==
  ASSUME TypeOK, OnceInv, RunPosted
  PROVE  /\ posted' \in Seq(Answers)
         /\ results' \in [Works -> Seq(Works \cup {Timeout, Error})]
         /\ Keeps /\ OnceInv'
<1>. DEFINE x == posted[1].work
            y == posted[1].result
            n == Len(posted)
            m == Len(results[x])
<1>1. /\ n \in Nat \ {0} /\ posted[1] \in Answers
      /\ Head(posted) = posted[1]
      /\ posted' \in Seq(Answers)
      /\ Len(posted') = n - 1
      /\ \A i \in 1 .. (n - 1) : posted'[i] = posted[i + 1]
  <2>1. posted \in Seq(Answers) /\ posted # <<>> /\ posted' = Tail(posted)
    BY DEF RunPosted, TypeOK
  <2>. QED BY <2>1
<1>2. x \in Works /\ y \in Works \cup {Timeout, Error}
  BY <1>1 DEF Answers
<1>3. CallJs(x, y) /\ isPromise' = isPromise
  BY <1>1 DEF RunPosted
<1>. HIDE DEF x, y
<1>4. /\ results' \in [Works -> Seq(Works \cup {Timeout, Error})]
      /\ \A w \in Works : w # x => results'[w] = results[w]
      /\ \/ isPromise[x] /\ results[x] # <<>> /\ results'[x] = results[x]
         \/ /\ isPromise[x] => results[x] = <<>>
            /\ Len(results'[x]) = m + 1
            /\ results'[x][m + 1] = y
            /\ \A i \in 1 .. m : results'[x][i] = results[x][i]
  BY <1>2, <1>3, CallJsEffect
<1>5. m \in Nat /\ results[x] \in Seq(Works \cup {Timeout, Error})
  BY <1>2 DEF TypeOK
<1>6. ASSUME NEW w \in Works, NEW r, Has(w, r)'
      PROVE  Has(w, r)
  <2>1. CASE \E i \in 1 .. Len(results'[w]) : results'[w][i] = r
    <3>1. CASE \E i \in 1 .. Len(results[w]) : results[w][i] = r
      BY <3>1 DEF Has
    <3>2. CASE ~ \E i \in 1 .. Len(results[w]) : results[w][i] = r
      <4>1. w = x
        BY <1>4, <2>1, <3>2
      <4>2. r = y
        BY <1>4, <1>5, <2>1, <3>2, <4>1
      <4>. QED BY <1>1, <4>1, <4>2 DEF Has, x, y
    <3>. QED BY <3>1, <3>2
  <2>2. CASE \E i \in 1 .. Len(posted') : posted'[i].work = w /\ posted'[i].result = r
    <3>1. PICK i \in 1 .. (n - 1) : posted[i + 1].work = w /\ posted[i + 1].result = r
      BY <1>1, <2>2
    <3>2. i + 1 \in 1 .. Len(posted)
      BY <1>1
    <3>. QED BY <3>1, <3>2 DEF Has
  <2>. QED BY <1>6, <2>1, <2>2 DEF Has
<1>7. ASSUME NEW w \in Works, TimesOut(w)
      PROVE  TimesOut(w)'
  <2>1. CASE \E i \in 1 .. Len(results[w]) : results[w][i] = Timeout
    <3>1. PICK i \in 1 .. Len(results[w]) : results[w][i] = Timeout
      BY <2>1
    <3>2. i \in 1 .. Len(results'[w]) /\ results'[w][i] = Timeout
      BY <1>4, <1>5, <3>1
    <3>. QED BY <3>2 DEF TimesOut, Timeout
  <2>2. CASE PostedFor(w)
    <3>1. PICK i \in 1 .. n :
             /\ posted[i].work = w /\ posted[i].result = Timeout
             /\ isPromise[w] => /\ results[w] = <<>>
                                /\ \A j \in 1 .. (i - 1) : posted[j].work # w
      BY <2>2 DEF PostedFor
    <3>2. CASE i = 1
      <4>1. w = x /\ y = Timeout
        BY <3>1, <3>2 DEF x, y
      <4>2. m + 1 \in 1 .. Len(results'[w]) /\ results'[w][m + 1] = Timeout
        BY <1>4, <1>5, <3>1, <4>1
      <4>. QED BY <4>2 DEF TimesOut, Timeout
    <3>3. CASE i # 1
      <4>1. /\ i - 1 \in 1 .. Len(posted') /\ posted'[i - 1] = posted[i]
            /\ \A j \in 1 .. ((i - 1) - 1) :
                 posted'[j] = posted[j + 1] /\ j + 1 \in 1 .. (i - 1)
            /\ 1 \in 1 .. (i - 1)
        BY <1>1, <3>3
      <4>2. isPromise[w] => w # x
        BY <3>1, <4>1 DEF x
      <4>3. isPromise[w] => results'[w] = <<>>
        BY <1>4, <3>1, <4>2
      <4>4. isPromise[w] => \A j \in 1 .. ((i - 1) - 1) : posted'[j].work # w
        BY <3>1, <4>1
      <4>5. PostedFor(w)'
        BY <1>3, <3>1, <4>1, <4>3, <4>4 DEF PostedFor, Timeout
      <4>. QED BY <4>5 DEF TimesOut
    <3>. QED BY <3>2, <3>3
  <2>. QED BY <1>7, <2>1, <2>2 DEF TimesOut
<1>8. \A v \in Works : Late(v) => Late(v)'
  BY <1>7, WorksAreNumbers DEF Late
<1>9. ASSUME NEW w \in Works, Single(w)
      PROVE  Single(w)'
  <2>1. \A i \in 1 .. (n - 1) : i + 1 \in 1 .. n /\ i + 1 # 1 /\ 1 \in 1 .. n
    BY <1>1
  <2>2. CASE w = x
    <3>1. \A i \in 1 .. (n - 1) : posted'[i].work # w
      BY <1>1, <1>9, <2>1, <2>2 DEF Single, x
    <3>2. results[w] = <<>>
      BY <1>1, <1>9, <2>2 DEF Single, x
    <3>3. Len(results'[w]) <= 1
      <4>1. m = 0
        BY <2>2, <3>2
      <4>2. Len(results'[w]) = m + 1
        BY <1>4, <2>2, <3>2
      <4>. QED BY <4>1, <4>2
    <3>. QED BY <1>1, <3>1, <3>3 DEF Single
  <2>3. CASE w # x
    <3>1. results'[w] = results[w]
      BY <1>4, <2>3
    <3>2. \A i \in 1 .. (n - 1) : posted'[i].work = w => results[w] = <<>>
      BY <1>1, <1>9, <2>1 DEF Single
    <3>3. \A i, j \in 1 .. (n - 1) :
            posted'[i].work = w /\ posted'[j].work = w => i + 1 = j + 1
      BY <1>1, <1>9, <2>1 DEF Single
    <3>4. \A i, j \in 1 .. (n - 1) : i + 1 = j + 1 => i = j
      BY <1>1
    <3>. QED BY <1>1, <1>9, <3>1, <3>2, <3>3, <3>4 DEF Single
  <2>. QED BY <2>2, <2>3
<1>10. ASSUME NEW w \in Works, isPromise[w], Len(results[w]) <= 1
       PROVE  Len(results'[w]) <= 1
  BY <1>4, <1>5, <1>10
<1>11. OnceInv'
  BY <1>3, <1>8, <1>9, <1>10 DEF OnceInv
<1>. QED BY <1>1, <1>4, <1>6, <1>8, <1>11 DEF Keeps

LEMMA HandlerMoves ==
  ASSUME TypeOK, NEW h \in Handlers, NEW p \in {"idle", "erase", "unregister", "post"},
         handler' = [handler EXCEPT ![h].pc = p]
  PROVE  /\ handler' \in [Handlers -> HandlerStates]
         /\ handler'[h].pc = p
         /\ handler'[h].work = handler[h].work
         /\ handler'[h].result = handler[h].result
         /\ \A k \in Handlers : k # h => handler'[k] = handler[k]
BY DEF TypeOK, HandlerStates

LEMMA HandlerSet ==
  ASSUME TypeOK, NEW h \in Handlers, NEW s \in HandlerStates,
         handler' = [handler EXCEPT ![h] = s]
  PROVE  /\ handler' \in [Handlers -> HandlerStates]
         /\ handler'[h] = s
         /\ \A k \in Handlers : k # h => handler'[k] = handler[k]
BY DEF TypeOK

LEMMA StageSet ==
  ASSUME TypeOK, NEW w \in Works, NEW s \in Stages, stage' = [stage EXCEPT ![w] = s]
  PROVE  /\ stage' \in [Works -> Stages]
         /\ stage'[w] = s
         /\ \A v \in Works : v # w => stage'[v] = stage[v]
BY DEF TypeOK

-----------------------------------------------------------------------------
(***************************************************************************)
(* The JavaScript thread                                                   *)
(***************************************************************************)
LEMMA RequestStep ==
  ASSUME IInv, NEW w \in Works, Request(w)
  PROVE  IInv'
<1>. USE WorksAreNumbers DEF IInv
<1>1. /\ stage[w] = "none" /\ \A r : ~Has(w, r)
      /\ \A v \in Works : stage[v] # "none" => v < w
  BY DEF Request, FreshInv
<1>2. PICK p \in BOOLEAN : isPromise' = [isPromise EXCEPT ![w] = p]
  BY DEF Request
<1>3. /\ isPromise' \in [Works -> BOOLEAN]
      /\ \A v \in Works : v # w => isPromise'[v] = isPromise[v]
  BY <1>2 DEF TypeOK
<1>4. UNCHANGED <<triggered, timerId, timer, js, posted, handler, sent, results, displaced>>
  BY DEF Request
<1>5. \A v \in Works : TimesOut(v) => TimesOut(v)'
  <2>1. ~TimesOut(w)
    BY <1>1 DEF TimesOut, PostedFor, Has
  <2>2. ASSUME NEW v \in Works, v # w
        PROVE  TimesOut(v) => TimesOut(v)'
    BY <1>3, <1>4, <2>2 DEF TimesOut, PostedFor, Timeout
  <2>. QED BY <2>1, <2>2
<1>6. Keeps
  <2>1. \A v \in Works : Late(v) => Late(v)'
    BY <1>5 DEF Late
  <2>2. \A v \in Works : \A r : Has(v, r)' => Has(v, r)
    BY <1>4 DEF Has
  <2>. QED BY <2>1, <2>2 DEF Keeps
<1>7. /\ stage' \in [Works -> Stages] /\ stage'[w] # "none"
      /\ \A v \in Works : v # w => stage'[v] = stage[v]
      /\ \/ map_' = w /\ Replaceable
         \/ map_' = map_ /\ stage'[w] = "refused"
  <2>1. CASE Replaceable
    <3>1. PICK s \in {"queued", "notRun"} : stage' = [stage EXCEPT ![w] = s]
      BY <2>1 DEF Request
    <3>. QED BY <2>1, <3>1, StageSet DEF Request, Stages
  <2>2. CASE ~Replaceable
    BY <2>2, StageSet DEF Request, Stages
  <2>. QED BY <2>1, <2>2
<1>8. TypeOK'
  BY <1>3, <1>4, <1>7 DEF TypeOK
<1>9. HandlerInv'
  BY <1>4 DEF HandlerInv, Answering, Expiring, Timeout
<1>10. FreshInv'
  <2>. SUFFICES ASSUME NEW v \in Works, stage'[v] = "none"
                PROVE  /\ \A u \in Works : v < u => stage'[u] = "none"
                       /\ map_' # v /\ ~triggered'[v] /\ v \notin timer' /\ js'.work # v
                       /\ \A h \in Handlers : handler'[h].work # v
                       /\ \A r : ~Has(v, r)'
    BY DEF FreshInv, Handlers
  <2>1. v # w /\ stage[v] = "none"
    BY <1>7
  <2>2. \A u \in Works : v < u => stage'[u] = "none"
    BY <1>1, <1>7, <2>1 DEF FreshInv, Request
  <2>3. /\ map_' # v /\ ~triggered'[v] /\ v \notin timer' /\ js'.work # v
        /\ \A h \in Handlers : handler'[h].work # v
    BY <1>4, <1>7, <2>1 DEF FreshInv
  <2>4. \A r : ~Has(v, r)'
    BY <1>6, <2>1 DEF FreshInv, Keeps
  <2>. QED BY <2>2, <2>3, <2>4
<1>11. TimerInv'
  <2>1. w \notin timer /\ js.work # w /\ ~Expiring(w) /\ ~Has(w, Timeout)
    BY <1>1 DEF FreshInv, Expiring, Handlers
  <2>2. \A v \in Works : Has(v, Timeout)' => Has(v, Timeout)
    BY <1>6 DEF Keeps, Timeout
  <2>. QED BY <1>4, <1>7, <2>1, <2>2 DEF TimerInv, Expiring
<1>12. AnswerInv'
  <2>1. \A v \in Works : Has(v, Error)' => Has(v, Error)
    BY <1>6 DEF Keeps, Error
  <2>2. /\ w \notin sent /\ \A v \in Works : ~Answering(v, w) /\ ~Has(v, w)
    BY <1>1 DEF AnswerInv
  <2>. QED BY <1>1, <1>4, <1>6, <1>7, <2>1, <2>2 DEF AnswerInv, Answering, Keeps
<1>13. MapInv'
  <2>1. ASSUME handler["callback"].pc = "erase", map_' = w
        PROVE  handler["callback"].work <= w
    <3>1. handler["callback"].work \in Works
      BY <2>1 DEF HandlerInv, Answering
    <3>2. map_ \in Works /\ map_ # w /\ handler["callback"].work <= map_
      BY <1>1, <2>1 DEF MapInv, TypeOK, FreshInv
    <3>3. stage[map_] # "none"
      BY <3>2 DEF FreshInv
    <3>4. map_ < w
      BY <1>1, <3>2, <3>3
    <3>5. \A a, b, c \in Works : a <= b /\ b < c => a <= c
      OBVIOUS
    <3>. QED BY <3>1, <3>2, <3>4, <3>5
  <2>. QED BY <1>4, <1>7, <2>1 DEF MapInv
<1>14. PendingInv'
  <2>. SUFFICES ASSUME NEW v \in Works, Pending(v)'
                PROVE  /\ map_' # v => Late(v)' /\ (map_' = None \/ v < map_')
                       /\ triggered'[v] => Late(v)'
                       /\ \A r : Has(v, r)' => Late(v)'
    BY DEF PendingInv, None
  <2>1. CASE v = w
    <3>1. stage'[w] = "queued"
      <4>1. w \notin sent /\ \A u \in Works : ~Answering(u, w)
        BY <1>1 DEF AnswerInv
      <4>2. ~(handler["callback"].pc = "erase" /\ handler["callback"].result = w)
        BY <4>1 DEF HandlerInv, Answering
      <4>. QED BY <1>4, <2>1, <4>1, <4>2 DEF Pending
    <3>. QED BY <1>1, <1>4, <1>6, <1>7, <2>1, <3>1 DEF FreshInv, Keeps
  <2>2. CASE v # w
    <3>1. Pending(v) /\ stage[v] # "none"
      BY <1>4, <1>7, <2>2 DEF Pending, AnswerInv, HandlerInv, Answering
    <3>2. v < w
      BY <1>1, <3>1
    <3>3. map_' # v => Late(v) /\ (map_' = None \/ v < map_')
      BY <1>7, <2>2, <3>1, <3>2 DEF PendingInv, Replaceable
    <3>. QED BY <1>4, <1>6, <3>1, <3>3 DEF PendingInv, Keeps
  <2>. QED BY <2>1, <2>2
<1>15. ReachInv'
  BY <1>4, <1>6 DEF ReachInv, Answering, Keeps
<1>16. OnceInv'
  <2>1. results[w] = <<>> /\ Len(results[w]) = 0
        /\ \A i \in 1 .. Len(posted) : posted[i].work # w
    BY <1>1, NothingHad
  <2>2. Single(w)'
    BY <1>4, <2>1 DEF Single
  <2>3. \A v \in Works : Single(v) => Single(v)'
    BY <1>4 DEF Single
  <2>4. ASSUME NEW v \in Works
        PROVE  IF isPromise'[v] THEN Len(results'[v]) <= 1 ELSE Late(v)' \/ Single(v)'
    <3>1. CASE v = w
      BY <1>4, <2>1, <2>2, <3>1
    <3>2. CASE v # w
      BY <1>3, <1>4, <1>6, <2>3, <3>2 DEF OnceInv, Keeps
    <3>. QED BY <3>1, <3>2
  <2>. QED BY <2>4 DEF OnceInv
<1>. QED BY <1>8, <1>9, <1>10, <1>11, <1>12, <1>13, <1>14, <1>15, <1>16

LEMMA CompleteFailedStep ==
  ASSUME IInv, NEW x \in Works, CompleteFailed(x)
  PROVE  IInv'
<1>. USE WorksAreNumbers DEF IInv
<1>1. UNCHANGED <<map_, isPromise, timerId, timer, js, posted, handler, sent, displaced>>
  BY DEF CompleteFailed
<1>2. stage[x] = "failed" /\ CallJs(x, Error)
  BY DEF CompleteFailed
<1>3. /\ stage' \in [Works -> Stages] /\ stage'[x] = "completed"
      /\ \A v \in Works : v # x => stage'[v] = stage[v]
  BY StageSet DEF CompleteFailed, Stages
<1>4. /\ triggered' \in [Works -> BOOLEAN]
      /\ \A v \in Works : v # x => triggered'[v] = triggered[v]
  BY DEF CompleteFailed, TypeOK
<1>5. /\ results' \in [Works -> Seq(Works \cup {Timeout, Error})]
      /\ \A w \in Works : w # x => results'[w] = results[w]
      /\ \/ isPromise[x] /\ results[x] # <<>> /\ results'[x] = results[x]
         \/ /\ isPromise[x] => results[x] = <<>>
            /\ Len(results'[x]) = Len(results[x]) + 1
            /\ results'[x][Len(results[x]) + 1] = Error
            /\ \A i \in 1 .. Len(results[x]) : results'[x][i] = results[x][i]
  BY <1>2, CallJsEffect
<1>6. Len(results[x]) \in Nat /\ results[x] \in Seq(Works \cup {Timeout, Error})
  BY DEF TypeOK
<1>7. \* The request of x was never sent.
      /\ x \notin sent /\ ~Has(x, Timeout) /\ ~Has(x, Error)
      /\ \A w \in Works : ~Answering(w, x) /\ ~Has(w, x)
  BY <1>2 DEF AnswerInv, TimerInv
<1>8. ASSUME NEW w \in Works, NEW r, Has(w, r)'
      PROVE  Has(w, r) \/ (w = x /\ r = Error)
  <2>1. CASE \E i \in 1 .. Len(posted') : posted'[i].work = w /\ posted'[i].result = r
    BY <1>1, <2>1 DEF Has
  <2>2. CASE \E i \in 1 .. Len(results'[w]) : results'[w][i] = r
    <3>1. CASE w # x
      BY <1>5, <2>2, <3>1 DEF Has
    <3>2. CASE w = x
      BY <1>5, <1>6, <2>2, <3>2 DEF Has
    <3>. QED BY <3>1, <3>2
  <2>. QED BY <1>8, <2>1, <2>2 DEF Has
<1>9. \A v \in Works : Late(v) => Late(v)'
  <2>1. ~TimesOut(x)
    BY <1>7 DEF TimesOut, PostedFor, Has
  <2>2. ASSUME NEW v \in Works, v # x
        PROVE  TimesOut(v) => TimesOut(v)'
    BY <1>1, <1>5, <2>2 DEF TimesOut, PostedFor, Timeout
  <2>. QED BY <2>1, <2>2 DEF Late
<1>10. TypeOK'
  BY <1>1, <1>3, <1>4, <1>5 DEF TypeOK
<1>11. HandlerInv'
  BY <1>1 DEF HandlerInv, Answering, Expiring, Timeout
<1>12. FreshInv'
  <2>. SUFFICES ASSUME NEW v \in Works, stage'[v] = "none"
                PROVE  /\ \A u \in Works : v < u => stage'[u] = "none"
                       /\ map_' # v /\ ~triggered'[v] /\ v \notin timer' /\ js'.work # v
                       /\ \A h \in Handlers : handler'[h].work # v
                       /\ \A r : ~Has(v, r)'
    BY DEF FreshInv, Handlers
  <2>1. v # x /\ stage[v] = "none"
    BY <1>3
  <2>2. \A u \in Works : v < u => stage'[u] = "none"
    BY <1>2, <1>3, <2>1 DEF FreshInv
  <2>3. /\ map_' # v /\ ~triggered'[v] /\ v \notin timer' /\ js'.work # v
        /\ \A h \in Handlers : handler'[h].work # v
    BY <1>1, <1>4, <2>1 DEF FreshInv
  <2>4. \A r : ~Has(v, r)'
    BY <1>8, <2>1 DEF FreshInv
  <2>. QED BY <2>2, <2>3, <2>4
<1>13. TimerInv'
  <2>1. \A v \in Works : Has(v, Timeout)' => Has(v, Timeout)
    BY <1>8 DEF Timeout
  <2>. QED BY <1>1, <1>3, <2>1 DEF TimerInv, Expiring
<1>14. AnswerInv'
  <2>1. \A v, w \in Works : Has(w, v)' => Has(w, v)
    BY <1>8
  <2>2. \A v \in Works : v # x /\ Has(v, Error)' => Has(v, Error)
    BY <1>8 DEF Error
  <2>. QED BY <1>1, <1>3, <1>7, <2>1, <2>2 DEF AnswerInv, Answering
<1>15. MapInv'
  BY <1>1 DEF MapInv
<1>16. PendingInv'
  <2>. SUFFICES ASSUME NEW v \in Works, Pending(v)'
                PROVE  /\ map_' # v => Late(v)' /\ (map_' = None \/ v < map_')
                       /\ triggered'[v] => Late(v)'
                       /\ \A r : Has(v, r)' => Late(v)'
    BY DEF PendingInv, None
  <2>1. v # x
    <3>1. ~(handler["callback"].pc = "erase" /\ handler["callback"].result = x)
      BY <1>7 DEF HandlerInv, Answering
    <3>. QED BY <1>1, <1>3, <1>7, <3>1 DEF Pending
  <2>2. Pending(v)
    BY <1>1, <1>3, <2>1 DEF Pending
  <2>. QED BY <1>1, <1>4, <1>8, <1>9, <2>1, <2>2 DEF PendingInv
<1>17. ReachInv'
  <2>1. \A v, w \in Works : Has(w, v)' => Has(w, v)
    BY <1>8
  <2>. QED BY <1>1, <1>9, <2>1 DEF ReachInv, Answering
<1>18. OnceInv'
  <2>1. ASSUME NEW v \in Works, v # x, Single(v)
        PROVE  Single(v)'
    BY <1>1, <1>5, <2>1 DEF Single
  <2>2. isPromise[x] => Len(results'[x]) <= 1
    <3>1. results[x] = <<>> => Len(results[x]) = 0
      OBVIOUS
    <3>. QED BY <1>5, <3>1 DEF OnceInv
  <2>3. ASSUME ~isPromise[x], ~Late(x)
        PROVE  Single(x)'
    <3>1. ASSUME NEW r, Has(x, r)
          PROVE  FALSE
      <4>1. r \in Works \cup {Timeout, Error}
        BY <3>1, HasResult
      <4>2. r \in Works /\ r # x
        BY <1>7, <3>1, <4>1
      <4>3. r < x /\ Late(r)
        BY <3>1, <4>2 DEF ReachInv
      <4>. QED BY <2>3, <4>2, <4>3, LateLater
    <3>2. results[x] = <<>> /\ Len(results[x]) = 0
          /\ \A i \in 1 .. Len(posted) : posted[i].work # x
      BY <3>1, NothingHad
    <3>3. Len(results'[x]) = 1
      BY <1>5, <2>3, <3>2
    <3>. QED BY <1>1, <3>2, <3>3 DEF Single
  <2>4. ASSUME NEW v \in Works
        PROVE  IF isPromise'[v] THEN Len(results'[v]) <= 1 ELSE Late(v)' \/ Single(v)'
    <3>1. CASE v = x
      BY <1>1, <1>9, <2>2, <2>3, <3>1
    <3>2. CASE v # x
      BY <1>1, <1>5, <1>9, <2>1, <3>2 DEF OnceInv
    <3>. QED BY <3>1, <3>2
  <2>. QED BY <2>4 DEF OnceInv
<1>. QED BY <1>10, <1>11, <1>12, <1>13, <1>14, <1>15, <1>16, <1>17, <1>18

LEMMA CompleteWaitingStep ==
  ASSUME IInv, NEW x \in Works, CompleteWaiting(x)
  PROVE  IInv'
<1>. USE WorksAreNumbers DEF IInv
<1>1. UNCHANGED <<map_, isPromise, triggered, timerId, timer, posted, handler, sent,
                results, displaced>>
  BY DEF CompleteWaiting
<1>2. Keeps /\ OnceInv'
  BY <1>1, NothingReceived
<1>3. stage[x] = "executed"
  BY DEF CompleteWaiting
<1>4. /\ stage' \in [Works -> Stages] /\ stage'[x] \in {"executed", "completed"}
      /\ \A v \in Works : v # x => stage'[v] = stage[v]
  <2>1. CASE triggered[x]
    BY <2>1, StageSet DEF CompleteWaiting, Stages
  <2>2. CASE ~triggered[x]
    BY <1>3, <2>2 DEF CompleteWaiting, TypeOK
  <2>. QED BY <2>1, <2>2
<1>5. \/ js' = js
      \/ js'.pc = "register" /\ js'.work = x /\ js' \in [pc : {"register"}, work : Works]
  BY DEF CompleteWaiting
<1>6. TypeOK'
  BY <1>1, <1>2, <1>3, <1>4, <1>5 DEF TypeOK
<1>7. HandlerInv'
  BY <1>1, <1>2, <1>3, <1>4, <1>5 DEF HandlerInv, Answering, Expiring, Timeout
<1>8. FreshInv'
  <2>. SUFFICES ASSUME NEW v \in Works, stage'[v] = "none"
                PROVE  /\ \A u \in Works : v < u => stage'[u] = "none"
                       /\ map_' # v /\ ~triggered'[v] /\ v \notin timer' /\ js'.work # v
                       /\ \A h \in Handlers : handler'[h].work # v
                       /\ \A r : ~Has(v, r)'
    BY DEF FreshInv, Handlers
  <2>1. stage[v] = "none" /\ \A r : ~Has(v, r)'
    BY <1>1, <1>2, <1>3, <1>4, <1>5 DEF FreshInv, Keeps
  <2>. QED BY <1>1, <1>2, <1>3, <1>4, <1>5, <2>1 DEF FreshInv
<1>9. TimerInv'
  <2>1. \A v \in Works : Has(v, Timeout)' => Has(v, Timeout)
    BY <1>2 DEF Keeps, Timeout
  <2>. QED BY <1>1, <1>2, <1>3, <1>4, <1>5, <2>1 DEF TimerInv, Expiring
<1>10. AnswerInv'
  <2>1. \A v \in Works : Has(v, Error)' => Has(v, Error)
    BY <1>2 DEF Keeps, Error
  <2>2. \A v, w \in Works : Has(w, v)' => Has(w, v)
    BY <1>2 DEF Keeps
  <2>. QED BY <1>1, <1>2, <1>3, <1>4, <1>5, <2>1, <2>2 DEF AnswerInv, Answering
<1>11. MapInv'
  BY <1>1, <1>2, <1>3, <1>4, <1>5 DEF MapInv
<1>12. PendingInv'
  BY <1>1, <1>2, <1>3, <1>4, <1>5 DEF PendingInv, Pending, Keeps, None
<1>13. ReachInv'
  BY <1>1, <1>2, <1>3, <1>4, <1>5 DEF ReachInv, Answering, Keeps
<1>. QED BY <1>2, <1>6, <1>7, <1>8, <1>9, <1>10, <1>11, <1>12, <1>13

LEMMA RegisterTimerStep ==
  ASSUME IInv, RegisterTimer
  PROVE  IInv'
<1>. USE WorksAreNumbers DEF IInv
<1>1. UNCHANGED <<map_, stage, isPromise, triggered, timerId, posted, handler, sent,
                results, displaced>>
  BY DEF RegisterTimer
<1>2. Keeps /\ OnceInv'
  BY <1>1, NothingReceived
<1>3. js.work \in Works /\ timer' = timer \cup {js.work}
  BY DEF RegisterTimer, TypeOK
<1>4. js'.pc = "store" /\ js'.work = js.work /\ js' \in [pc : {"store"}, work : Works]
  BY <1>3 DEF RegisterTimer, TypeOK
<1>5. TypeOK'
  BY <1>1, <1>2, <1>3, <1>4 DEF TypeOK
<1>6. HandlerInv'
  BY <1>1, <1>2, <1>3, <1>4 DEF HandlerInv, Answering, Expiring, Timeout
<1>7. FreshInv'
  <2>. SUFFICES ASSUME NEW v \in Works, stage'[v] = "none"
                PROVE  /\ \A u \in Works : v < u => stage'[u] = "none"
                       /\ map_' # v /\ ~triggered'[v] /\ v \notin timer' /\ js'.work # v
                       /\ \A h \in Handlers : handler'[h].work # v
                       /\ \A r : ~Has(v, r)'
    BY DEF FreshInv, Handlers
  <2>1. stage[v] = "none" /\ \A r : ~Has(v, r)'
    BY <1>1, <1>2, <1>3, <1>4 DEF FreshInv, Keeps
  <2>. QED BY <1>1, <1>2, <1>3, <1>4, <2>1 DEF FreshInv
<1>8. TimerInv'
  <2>1. \A v \in Works : Has(v, Timeout)' => Has(v, Timeout)
    BY <1>2 DEF Keeps, Timeout
  <2>. QED BY <1>1, <1>2, <1>3, <1>4, <2>1 DEF TimerInv, Expiring
<1>9. AnswerInv'
  <2>1. \A v \in Works : Has(v, Error)' => Has(v, Error)
    BY <1>2 DEF Keeps, Error
  <2>2. \A v, w \in Works : Has(w, v)' => Has(w, v)
    BY <1>2 DEF Keeps
  <2>. QED BY <1>1, <1>2, <1>3, <1>4, <2>1, <2>2 DEF AnswerInv, Answering
<1>10. MapInv'
  BY <1>1, <1>2, <1>3, <1>4 DEF MapInv
<1>11. PendingInv'
  BY <1>1, <1>2, <1>3, <1>4 DEF PendingInv, Pending, Keeps, None
<1>12. ReachInv'
  BY <1>1, <1>2, <1>3, <1>4 DEF ReachInv, Answering, Keeps
<1>. QED BY <1>2, <1>5, <1>6, <1>7, <1>8, <1>9, <1>10, <1>11, <1>12

LEMMA StoreTimerIdStep ==
  ASSUME IInv, StoreTimerId
  PROVE  IInv'
<1>. USE WorksAreNumbers DEF IInv
<1>1. UNCHANGED <<map_, isPromise, triggered, timer, posted, handler, sent,
                results, displaced>>
  BY DEF StoreTimerId
<1>2. Keeps /\ OnceInv'
  BY <1>1, NothingReceived
<1>3. js.work \in Works /\ stage[js.work] \in {"executed", "completed"}
  BY DEF StoreTimerId, TypeOK, TimerInv
<1>4. /\ stage' \in [Works -> Stages] /\ stage'[js.work] = "completed"
      /\ \A v \in Works : v # js.work => stage'[v] = stage[v]
  BY <1>3, StageSet DEF StoreTimerId, Stages
<1>5. timerId' \in [Works -> BOOLEAN]
  BY DEF StoreTimerId, TypeOK
<1>6. js'.pc = "idle" /\ js'.work = None /\ js' \in [pc : {"idle"}, work : {None}]
  BY DEF StoreTimerId
<1>7. TypeOK'
  BY <1>1, <1>2, <1>3, <1>4, <1>5, <1>6 DEF TypeOK
<1>8. HandlerInv'
  BY <1>1, <1>2, <1>3, <1>4, <1>5, <1>6 DEF HandlerInv, Answering, Expiring, Timeout
<1>9. FreshInv'
  <2>. SUFFICES ASSUME NEW v \in Works, stage'[v] = "none"
                PROVE  /\ \A u \in Works : v < u => stage'[u] = "none"
                       /\ map_' # v /\ ~triggered'[v] /\ v \notin timer' /\ js'.work # v
                       /\ \A h \in Handlers : handler'[h].work # v
                       /\ \A r : ~Has(v, r)'
    BY DEF FreshInv, Handlers
  <2>1. stage[v] = "none" /\ \A r : ~Has(v, r)'
    BY <1>1, <1>2, <1>3, <1>4, <1>5, <1>6 DEF FreshInv, Keeps
  <2>. QED BY <1>1, <1>2, <1>3, <1>4, <1>5, <1>6, <2>1 DEF FreshInv
<1>10. TimerInv'
  <2>1. \A v \in Works : Has(v, Timeout)' => Has(v, Timeout)
    BY <1>2 DEF Keeps, Timeout
  <2>. QED BY <1>1, <1>2, <1>3, <1>4, <1>5, <1>6, <2>1 DEF TimerInv, Expiring
<1>11. AnswerInv'
  <2>1. \A v \in Works : Has(v, Error)' => Has(v, Error)
    BY <1>2 DEF Keeps, Error
  <2>2. \A v, w \in Works : Has(w, v)' => Has(w, v)
    BY <1>2 DEF Keeps
  <2>. QED BY <1>1, <1>2, <1>3, <1>4, <1>5, <1>6, <2>1, <2>2 DEF AnswerInv, Answering
<1>12. MapInv'
  BY <1>1, <1>2, <1>3, <1>4, <1>5, <1>6 DEF MapInv
<1>13. PendingInv'
  BY <1>1, <1>2, <1>3, <1>4, <1>5, <1>6 DEF PendingInv, Pending, Keeps, None
<1>14. ReachInv'
  BY <1>1, <1>2, <1>3, <1>4, <1>5, <1>6 DEF ReachInv, Answering, Keeps
<1>. QED BY <1>2, <1>7, <1>8, <1>9, <1>10, <1>11, <1>12, <1>13, <1>14

LEMMA RunPostedStep ==
  ASSUME IInv, RunPosted
  PROVE  IInv'
<1>. USE WorksAreNumbers DEF IInv
<1>1. UNCHANGED <<map_, stage, isPromise, triggered, timerId, timer, js, handler, sent,
                displaced>>
  BY DEF RunPosted
<1>2. /\ posted' \in Seq(Answers)
      /\ results' \in [Works -> Seq(Works \cup {Timeout, Error})]
      /\ Keeps /\ OnceInv'
  BY RunPostedEffect
<1>3. TypeOK'
  BY <1>1, <1>2 DEF TypeOK
<1>4. HandlerInv'
  BY <1>1 DEF HandlerInv, Answering, Expiring, Timeout
<1>5. FreshInv'
  BY <1>1, <1>2 DEF FreshInv, Keeps
<1>6. TimerInv'
  <2>1. \A v \in Works : Has(v, Timeout)' => Has(v, Timeout)
    BY <1>2 DEF Keeps, Timeout
  <2>. QED BY <1>1, <2>1 DEF TimerInv, Expiring
<1>7. AnswerInv'
  <2>1. \A v \in Works : Has(v, Error)' => Has(v, Error)
    BY <1>2 DEF Keeps, Error
  <2>2. \A v, w \in Works : Has(w, v)' => Has(w, v)
    BY <1>2 DEF Keeps
  <2>. QED BY <1>1, <2>1, <2>2 DEF AnswerInv, Answering
<1>8. MapInv'
  BY <1>1 DEF MapInv
<1>9. PendingInv'
  BY <1>1, <1>2 DEF PendingInv, Pending, Keeps, None
<1>10. ReachInv'
  BY <1>1, <1>2 DEF ReachInv, Answering, Keeps
<1>. QED BY <1>2, <1>3, <1>4, <1>5, <1>6, <1>7, <1>8, <1>9, <1>10

-----------------------------------------------------------------------------
(***************************************************************************)
(* The worker, the callback thread and the timer thread                    *)
(***************************************************************************)
LEMMA ExecuteStep ==
  ASSUME IInv, NEW x \in Works, Execute(x)
  PROVE  IInv'
<1>. USE WorksAreNumbers DEF IInv
<1>1. UNCHANGED <<map_, isPromise, triggered, timerId, timer, js, posted, handler,
                results, displaced>>
  BY DEF Execute
<1>2. Keeps /\ OnceInv'
  BY <1>1, NothingReceived
<1>3. /\ stage[x] = "queued"
      /\ \/ stage'[x] = "executed" /\ sent' = sent \cup {x}
         \/ stage'[x] = "failed" /\ sent' = sent
  BY StageSet DEF Execute, Stages
<1>4. /\ stage' \in [Works -> Stages]
      /\ \A v \in Works : v # x => stage'[v] = stage[v]
  BY StageSet DEF Execute, Stages
<1>5. TypeOK'
  BY <1>1, <1>2, <1>3, <1>4 DEF TypeOK
<1>6. HandlerInv'
  BY <1>1, <1>2, <1>3, <1>4 DEF HandlerInv, Answering, Expiring, Timeout
<1>7. FreshInv'
  <2>. SUFFICES ASSUME NEW v \in Works, stage'[v] = "none"
                PROVE  /\ \A u \in Works : v < u => stage'[u] = "none"
                       /\ map_' # v /\ ~triggered'[v] /\ v \notin timer' /\ js'.work # v
                       /\ \A h \in Handlers : handler'[h].work # v
                       /\ \A r : ~Has(v, r)'
    BY DEF FreshInv, Handlers
  <2>1. stage[v] = "none" /\ \A r : ~Has(v, r)'
    BY <1>1, <1>2, <1>3, <1>4 DEF FreshInv, Keeps
  <2>. QED BY <1>1, <1>2, <1>3, <1>4, <2>1 DEF FreshInv
<1>8. TimerInv'
  <2>1. \A v \in Works : Has(v, Timeout)' => Has(v, Timeout)
    BY <1>2 DEF Keeps, Timeout
  <2>. QED BY <1>1, <1>2, <1>3, <1>4, <2>1 DEF TimerInv, Expiring
<1>9. AnswerInv'
  <2>1. \A v \in Works : Has(v, Error)' => Has(v, Error)
    BY <1>2 DEF Keeps, Error
  <2>2. \A v, w \in Works : Has(w, v)' => Has(w, v)
    BY <1>2 DEF Keeps
  <2>. QED BY <1>1, <1>2, <1>3, <1>4, <2>1, <2>2 DEF AnswerInv, Answering
<1>10. MapInv'
  BY <1>1, <1>2, <1>3, <1>4 DEF MapInv
<1>11. PendingInv'
  BY <1>1, <1>2, <1>3, <1>4 DEF PendingInv, Pending, Keeps, None
<1>12. ReachInv'
  BY <1>1, <1>2, <1>3, <1>4 DEF ReachInv, Answering, Keeps
<1>. QED BY <1>2, <1>5, <1>6, <1>7, <1>8, <1>9, <1>10, <1>11, <1>12

LEMMA AnswerGetStep ==
  ASSUME IInv, NEW x \in Works, AnswerGet(x)
  PROVE  IInv'
<1>. USE WorksAreNumbers DEF IInv
<1>1. UNCHANGED <<map_, stage, isPromise, triggered, timerId, timer, js, posted,
                results, displaced>>
  BY DEF AnswerGet
<1>2. Keeps /\ OnceInv'
  BY <1>1, NothingReceived
<1>3. /\ x \in sent /\ sent' = sent \ {x} /\ handler["callback"].pc = "idle"
  BY DEF AnswerGet
<1>4. \/ handler' = handler /\ map_ = None
      \/ /\ map_ \in Works
         /\ handler' \in [Handlers -> HandlerStates]
         /\ handler'["callback"].pc = "erase" /\ handler'["callback"].work = map_
         /\ handler'["callback"].result = x
         /\ handler'["timer"] = handler["timer"]
  <2>. DEFINE s == [pc |-> "erase", work |-> map_, result |-> x]
  <2>1. CASE map_ = None
    BY <2>1 DEF AnswerGet
  <2>2. CASE map_ # None
    <3>1. s \in HandlerStates /\ map_ \in Works
          /\ s.pc = "erase" /\ s.work = map_ /\ s.result = x
      BY <2>2 DEF HandlerStates, TypeOK
    <3>2. handler' = [handler EXCEPT !["callback"] = s]
      BY <2>2 DEF AnswerGet
    <3>. HIDE DEF s
    <3>. QED BY <3>1, <3>2, HandlerSet DEF Handlers
  <2>. QED BY <2>1, <2>2
<1>5. TypeOK'
  BY <1>1, <1>2, <1>3, <1>4 DEF TypeOK
<1>6. HandlerInv'
  BY <1>1, <1>2, <1>3, <1>4 DEF HandlerInv, Answering, Expiring, Timeout
<1>7. FreshInv'
  <2>. SUFFICES ASSUME NEW v \in Works, stage'[v] = "none"
                PROVE  /\ \A u \in Works : v < u => stage'[u] = "none"
                       /\ map_' # v /\ ~triggered'[v] /\ v \notin timer' /\ js'.work # v
                       /\ \A h \in Handlers : handler'[h].work # v
                       /\ \A r : ~Has(v, r)'
    BY DEF FreshInv, Handlers
  <2>1. stage[v] = "none" /\ \A r : ~Has(v, r)'
    BY <1>1, <1>2, <1>3, <1>4 DEF FreshInv, Keeps
  <2>2. handler'["callback"].work # v /\ handler'["timer"].work # v
    <3>1. /\ handler["callback"].work # v /\ handler["timer"].work # v
          /\ map_ # v /\ v \notin timer
      BY <2>1 DEF FreshInv, Handlers
    <3>. QED BY <1>3, <1>4, <3>1
  <2>3. \A h \in Handlers : handler'[h].work # v
    BY <2>2 DEF Handlers
  <2>. QED BY <1>1, <1>3, <2>1, <2>3 DEF FreshInv
<1>8. TimerInv'
  <2>1. \A v \in Works : Has(v, Timeout)' => Has(v, Timeout)
    BY <1>2 DEF Keeps, Timeout
  <2>. QED BY <1>1, <1>2, <1>3, <1>4, <2>1 DEF TimerInv, Expiring
<1>9. AnswerInv'
  <2>1. \A v \in Works : Has(v, Error)' => Has(v, Error)
    BY <1>2 DEF Keeps, Error
  <2>2. \A v, w \in Works : Has(w, v)' => Has(w, v)
    BY <1>2 DEF Keeps
  <2>. QED BY <1>1, <1>2, <1>3, <1>4, <2>1, <2>2 DEF AnswerInv, Answering
<1>10. MapInv'
  <2>1. map_ \in Works => map_ <= map_ /\ map_ # None
    OBVIOUS
  <2>. QED BY <1>1, <1>3, <1>4, <2>1 DEF MapInv
<1>11. PendingInv'
  BY <1>1, <1>2, <1>3, <1>4 DEF PendingInv, Pending, Keeps, None
<1>12. ReachInv'
  <2>1. map_ \in Works /\ map_ # x => x < map_ /\ Late(x)
    BY <1>3 DEF PendingInv, Pending
  <2>2. \A w, v \in Works : Answering(w, v)' => Answering(w, v) \/ (w = map_ /\ v = x)
    BY <1>3, <1>4 DEF Answering
  <2>. QED BY <1>2, <1>4, <2>1, <2>2 DEF ReachInv, Keeps
<1>. QED BY <1>2, <1>5, <1>6, <1>7, <1>8, <1>9, <1>10, <1>11, <1>12

LEMMA AnswerEraseStep ==
  ASSUME IInv, AnswerErase
  PROVE  IInv'
<1>. USE WorksAreNumbers DEF IInv
<1>1. UNCHANGED <<stage, isPromise, triggered, timerId, timer, js, posted, sent, results>>
  BY DEF AnswerErase
<1>2. Keeps /\ OnceInv'
  BY <1>1, NothingReceived
<1>3. /\ handler["callback"].pc = "erase" /\ map_' = None /\ displaced' \subseteq Works
  BY DEF AnswerErase, TypeOK
<1>4. /\ handler' \in [Handlers -> HandlerStates]
      /\ handler'["callback"].pc = "unregister"
      /\ handler'["callback"].work = handler["callback"].work
      /\ handler'["callback"].result = handler["callback"].result
      /\ handler'["timer"] = handler["timer"]
  BY HandlerMoves DEF AnswerErase, Handlers
<1>5. TypeOK'
  BY <1>1, <1>2, <1>3, <1>4 DEF TypeOK
<1>6. HandlerInv'
  BY <1>1, <1>2, <1>3, <1>4 DEF HandlerInv, Answering, Expiring, Timeout
<1>7. FreshInv'
  <2>. SUFFICES ASSUME NEW v \in Works, stage'[v] = "none"
                PROVE  /\ \A u \in Works : v < u => stage'[u] = "none"
                       /\ map_' # v /\ ~triggered'[v] /\ v \notin timer' /\ js'.work # v
                       /\ \A h \in Handlers : handler'[h].work # v
                       /\ \A r : ~Has(v, r)'
    BY DEF FreshInv, Handlers
  <2>1. stage[v] = "none" /\ \A r : ~Has(v, r)'
    BY <1>1, <1>2, <1>3, <1>4 DEF FreshInv, Keeps
  <2>2. handler'["callback"].work # v /\ handler'["timer"].work # v
    <3>1. /\ handler["callback"].work # v /\ handler["timer"].work # v
          /\ map_ # v /\ v \notin timer
      BY <2>1 DEF FreshInv, Handlers
    <3>. QED BY <1>3, <1>4, <3>1
  <2>3. \A h \in Handlers : handler'[h].work # v
    BY <2>2 DEF Handlers
  <2>. QED BY <1>1, <1>3, <2>1, <2>3 DEF FreshInv
<1>8. TimerInv'
  <2>1. \A v \in Works : Has(v, Timeout)' => Has(v, Timeout)
    BY <1>2 DEF Keeps, Timeout
  <2>. QED BY <1>1, <1>2, <1>3, <1>4, <2>1 DEF TimerInv, Expiring
<1>9. AnswerInv'
  <2>1. \A v \in Works : Has(v, Error)' => Has(v, Error)
    BY <1>2 DEF Keeps, Error
  <2>2. \A v, w \in Works : Has(w, v)' => Has(w, v)
    BY <1>2 DEF Keeps
  <2>. QED BY <1>1, <1>2, <1>3, <1>4, <2>1, <2>2 DEF AnswerInv, Answering
<1>10. MapInv'
  BY <1>1, <1>2, <1>3, <1>4 DEF MapInv
<1>11. PendingInv'
  <2>. SUFFICES ASSUME NEW v \in Works, Pending(v)'
                PROVE  /\ Late(v)' /\ map_' = None
    BY <1>1 DEF PendingInv, None
  <2>1. stage[v] = "queued" \/ v \in sent
    BY <1>1, <1>4 DEF Pending
  <2>2. PICK a, r \in Works : Answering(a, r)
    BY <1>3 DEF HandlerInv
  <2>3. /\ handler["callback"].work = a /\ handler["callback"].result = r
    BY <2>2 DEF Answering
  <2>4. r # v /\ map_ \in Works /\ a <= map_ /\ Pending(r)
    BY <1>3, <2>1, <2>2, <2>3 DEF AnswerInv, MapInv, TypeOK, Pending
  <2>5. CASE map_ # v
    BY <2>1, <2>5, <1>2, <1>3 DEF PendingInv, Pending, Keeps
  <2>6. CASE map_ = v
    <3>1. CASE a # r
      <4>1. r < a /\ Late(r)
        BY <2>2, <3>1 DEF ReachInv
      <4>2. r <= v
        BY <2>4, <2>6, <4>1
      <4>. QED BY <1>2, <1>3, <4>1, <4>2, LateLater DEF Keeps
    <3>2. CASE a = r
      <4>1. Late(r)
        BY <2>4, <2>6 DEF PendingInv
      <4>2. r <= v
        BY <2>4, <2>6, <3>2
      <4>. QED BY <1>2, <1>3, <4>1, <4>2, LateLater DEF Keeps
    <3>. QED BY <3>1, <3>2
  <2>. QED BY <2>5, <2>6
<1>12. ReachInv'
  BY <1>1, <1>2, <1>3, <1>4 DEF ReachInv, Answering, Keeps
<1>. QED BY <1>2, <1>5, <1>6, <1>7, <1>8, <1>9, <1>10, <1>11, <1>12

LEMMA TimerExpiresStep ==
  ASSUME IInv, NEW x \in Works, TimerExpires(x)
  PROVE  IInv'
<1>. USE WorksAreNumbers DEF IInv
<1>1. UNCHANGED <<map_, stage, isPromise, triggered, timerId, js, posted, sent,
                results, displaced>>
  BY DEF TimerExpires
<1>2. Keeps /\ OnceInv'
  BY <1>1, NothingReceived
<1>3. x \in timer /\ timer' \subseteq timer /\ handler["timer"].pc = "idle"
  BY DEF TimerExpires
<1>4. \/ handler' = handler
      \/ /\ handler' \in [Handlers -> HandlerStates]
         /\ handler'["timer"].pc = "unregister" /\ handler'["timer"].work = x
         /\ handler'["timer"].result = Timeout
         /\ handler'["callback"] = handler["callback"]
  <2>. DEFINE s == [pc |-> "unregister", work |-> x, result |-> Timeout]
  <2>1. s \in HandlerStates /\ s.pc = "unregister" /\ s.work = x /\ s.result = Timeout
    BY DEF HandlerStates
  <2>2. handler' = handler \/ handler' = [handler EXCEPT !["timer"] = s]
    BY DEF TimerExpires
  <2>. HIDE DEF s
  <2>. QED BY <2>1, <2>2, HandlerSet DEF Handlers
<1>5. TypeOK'
  BY <1>1, <1>2, <1>3, <1>4 DEF TypeOK
<1>6. HandlerInv'
  BY <1>1, <1>2, <1>3, <1>4 DEF HandlerInv, Answering, Expiring, Timeout
<1>7. FreshInv'
  <2>. SUFFICES ASSUME NEW v \in Works, stage'[v] = "none"
                PROVE  /\ \A u \in Works : v < u => stage'[u] = "none"
                       /\ map_' # v /\ ~triggered'[v] /\ v \notin timer' /\ js'.work # v
                       /\ \A h \in Handlers : handler'[h].work # v
                       /\ \A r : ~Has(v, r)'
    BY DEF FreshInv, Handlers
  <2>1. stage[v] = "none" /\ \A r : ~Has(v, r)'
    BY <1>1, <1>2, <1>3, <1>4 DEF FreshInv, Keeps
  <2>2. handler'["callback"].work # v /\ handler'["timer"].work # v
    <3>1. /\ handler["callback"].work # v /\ handler["timer"].work # v
          /\ map_ # v /\ v \notin timer
      BY <2>1 DEF FreshInv, Handlers
    <3>. QED BY <1>3, <1>4, <3>1
  <2>3. \A h \in Handlers : handler'[h].work # v
    BY <2>2 DEF Handlers
  <2>. QED BY <1>1, <1>3, <2>1, <2>3 DEF FreshInv
<1>8. TimerInv'
  <2>1. \A v \in Works : Has(v, Timeout)' => Has(v, Timeout)
    BY <1>2 DEF Keeps, Timeout
  <2>. QED BY <1>1, <1>2, <1>3, <1>4, <2>1 DEF TimerInv, Expiring
<1>9. AnswerInv'
  <2>1. \A v \in Works : Has(v, Error)' => Has(v, Error)
    BY <1>2 DEF Keeps, Error
  <2>2. \A v, w \in Works : Has(w, v)' => Has(w, v)
    BY <1>2 DEF Keeps
  <2>. QED BY <1>1, <1>2, <1>3, <1>4, <2>1, <2>2 DEF AnswerInv, Answering
<1>10. MapInv'
  BY <1>1, <1>2, <1>3, <1>4 DEF MapInv
<1>11. PendingInv'
  BY <1>1, <1>2, <1>3, <1>4 DEF PendingInv, Pending, Keeps, None
<1>12. ReachInv'
  BY <1>1, <1>2, <1>3, <1>4 DEF ReachInv, Answering, Keeps
<1>. QED BY <1>2, <1>5, <1>6, <1>7, <1>8, <1>9, <1>10, <1>11, <1>12

LEMMA CallUnregisterStep ==
  ASSUME IInv, NEW h \in Handlers, CallUnregister(h)
  PROVE  IInv'
<1>. USE WorksAreNumbers DEF IInv
<1>1. UNCHANGED <<map_, stage, isPromise, triggered, timerId, js, posted, sent,
                results, displaced>>
  BY DEF CallUnregister
<1>2. Keeps /\ OnceInv'
  BY <1>1, NothingReceived
<1>3. handler[h].pc = "unregister" /\ timer' \subseteq timer
  BY DEF CallUnregister
<1>4. /\ handler' \in [Handlers -> HandlerStates]
      /\ handler'[h].pc = "post"
      /\ handler'[h].work = handler[h].work
      /\ handler'[h].result = handler[h].result
      /\ \A k \in Handlers : k # h => handler'[k] = handler[k]
  BY HandlerMoves DEF CallUnregister
<1>5. \A k \in {"callback", "timer"} :
        /\ handler'[k].work = handler[k].work /\ handler'[k].result = handler[k].result
        /\ (handler'[k].pc = "idle") <=> (handler[k].pc = "idle")
        /\ handler'[k].pc # "erase" \/ handler[k].pc = "erase"
  BY <1>3, <1>4 DEF Handlers
<1>6. TypeOK'
  BY <1>1, <1>3, <1>4 DEF TypeOK
<1>7. HandlerInv'
  BY <1>1, <1>2, <1>3, <1>5 DEF HandlerInv, Answering, Expiring, Timeout
<1>8. FreshInv'
  <2>. SUFFICES ASSUME NEW v \in Works, stage'[v] = "none"
                PROVE  /\ \A u \in Works : v < u => stage'[u] = "none"
                       /\ map_' # v /\ ~triggered'[v] /\ v \notin timer' /\ js'.work # v
                       /\ \A k \in Handlers : handler'[k].work # v
                       /\ \A r : ~Has(v, r)'
    BY DEF FreshInv, Handlers
  <2>1. stage[v] = "none" /\ \A r : ~Has(v, r)'
    BY <1>1, <1>2, <1>3, <1>5 DEF FreshInv, Keeps
  <2>. QED BY <1>1, <1>2, <1>3, <1>5, <2>1 DEF FreshInv, Handlers
<1>9. TimerInv'
  <2>1. \A v \in Works : Has(v, Timeout)' => Has(v, Timeout)
    BY <1>2 DEF Keeps, Timeout
  <2>. QED BY <1>1, <1>2, <1>3, <1>5, <2>1 DEF TimerInv, Expiring
<1>10. AnswerInv'
  <2>1. \A v \in Works : Has(v, Error)' => Has(v, Error)
    BY <1>2 DEF Keeps, Error
  <2>2. \A v, w \in Works : Has(w, v)' => Has(w, v)
    BY <1>2 DEF Keeps
  <2>. QED BY <1>1, <1>2, <1>3, <1>5, <2>1, <2>2 DEF AnswerInv, Answering
<1>11. MapInv'
  BY <1>1, <1>2, <1>3, <1>5 DEF MapInv
<1>12. PendingInv'
  BY <1>1, <1>2, <1>3, <1>5 DEF PendingInv, Pending, Keeps, None
<1>13. ReachInv'
  BY <1>1, <1>2, <1>3, <1>5 DEF ReachInv, Answering, Keeps
<1>. QED BY <1>2, <1>6, <1>7, <1>8, <1>9, <1>10, <1>11, <1>12, <1>13

LEMMA CallPostStep ==
  ASSUME IInv, NEW h \in Handlers, CallPost(h)
  PROVE  IInv'
<1>. USE WorksAreNumbers DEF IInv
<1>1. UNCHANGED <<map_, stage, isPromise, timerId, timer, js, sent, results, displaced>>
  BY DEF CallPost
<1>2. PICK x \in Works, y \in Works \cup {Timeout} :
         /\ x = handler[h].work /\ y = handler[h].result
         /\ h = "callback" => y \in Works /\ Answering(x, y)
         /\ h = "timer" => y = Timeout /\ Expiring(x)
  BY DEF CallPost, HandlerInv, Handlers, Answering, Expiring
<1>3. /\ triggered' \in [Works -> BOOLEAN]
      /\ \A v \in Works : v # x => triggered'[v] = triggered[v]
  BY <1>2 DEF CallPost, TypeOK
<1>4. posted' = Append(posted, [work |-> x, result |-> y])
  BY <1>2 DEF CallPost
<1>5. /\ handler[h].pc = "post"
      /\ handler' \in [Handlers -> HandlerStates]
      /\ handler'[h].pc = "idle" /\ handler'[h].work = None
      /\ \A k \in Handlers : k # h => handler'[k] = handler[k]
  <2>1. Free \in HandlerStates /\ Free.pc = "idle" /\ Free.work = None
    BY DEF Free, HandlerStates
  <2>. QED BY <2>1, HandlerSet DEF CallPost
<1>6. /\ \A w, v : Answering(w, v)' => Answering(w, v) /\ h # "callback"
      /\ \A w : Expiring(w)' => Expiring(w)
      /\ handler'["callback"].pc # "idle" =>
           handler'["callback"] = handler["callback"] /\ h # "callback"
      /\ handler'["timer"].pc # "idle" => handler'["timer"] = handler["timer"]
  BY <1>5 DEF Handlers, Answering, Expiring
<1>7. /\ \A w, r : Has(w, r)' => Has(w, r) \/ (w = x /\ r = y)
      /\ \A v : Late(v) => Late(v)'
      /\ y = Timeout /\ (isPromise[x] => \A r : ~Has(x, r)) => TimesOut(x)'
      /\ \A w : Single(w) /\ (w # x \/ \A r : ~Has(x, r)) => Single(w)'
  BY <1>1, <1>4, Posting
<1>8. stage[x] # "none"
  BY <1>2 DEF FreshInv
<1>9. \* An answer that belongs to another call comes after a timeout.
      ASSUME h = "callback", y # x
      PROVE  y < x /\ Late(y) /\ Late(x)
  <2>1. y \in Works /\ y < x /\ Late(y)
    BY <1>2, <1>9 DEF ReachInv
  <2>. QED BY <2>1, LateLater
<1>10. ASSUME Pending(x)'
       PROVE  Late(x)'
  <2>1. Pending(x)
    BY <1>1, <1>6, <1>10 DEF Pending
  <2>2. CASE h = "callback"
    <3>1. y # x
      BY <1>1, <1>2, <1>6, <1>10, <2>2 DEF Pending, AnswerInv
    <3>. QED BY <1>7, <1>9, <2>2, <3>1
  <2>3. CASE h = "timer"
    <3>1. CASE \E r : Has(x, r)
      BY <1>7, <2>1, <3>1 DEF PendingInv
    <3>2. CASE \A r : ~Has(x, r)
      <4>1. TimesOut(x)'
        BY <1>2, <1>7, <2>3, <3>2
      <4>. QED BY <4>1 DEF Late
    <3>. QED BY <3>1, <3>2
  <2>. QED BY <2>2, <2>3 DEF Handlers
<1>11. TypeOK'
  <2>1. posted' \in Seq(Answers)
    <3>1. [work |-> x, result |-> y] \in Answers /\ posted \in Seq(Answers)
      BY DEF Answers, TypeOK
    <3>. QED BY <1>4, <3>1
  <2>. QED BY <1>1, <1>3, <1>5, <2>1 DEF TypeOK
<1>12. HandlerInv'
  <2>1. handler'["callback"].pc # "idle" => \E w, r \in Works : Answering(w, r)'
    BY <1>6 DEF HandlerInv, Answering
  <2>2. handler'["timer"].pc # "idle" =>
          handler'["timer"].result = Timeout /\ \E w \in Works : Expiring(w)'
    BY <1>6 DEF HandlerInv, Expiring
  <2>. QED BY <2>1, <2>2 DEF HandlerInv, Timeout
<1>13. FreshInv'
  <2>. SUFFICES ASSUME NEW v \in Works, stage'[v] = "none"
                PROVE  /\ \A u \in Works : v < u => stage'[u] = "none"
                       /\ map_' # v /\ ~triggered'[v] /\ v \notin timer' /\ js'.work # v
                       /\ \A k \in Handlers : handler'[k].work # v
                       /\ \A r : ~Has(v, r)'
    BY DEF FreshInv, Handlers
  <2>1. v # x /\ stage[v] = "none"
    BY <1>1, <1>8
  <2>2. \A k \in Handlers : handler'[k].work # v
    BY <1>5, <2>1 DEF FreshInv
  <2>3. \A r : ~Has(v, r)'
    BY <1>7, <2>1 DEF FreshInv
  <2>. QED BY <1>1, <1>3, <2>1, <2>2, <2>3 DEF FreshInv
<1>14. TimerInv'
  <2>1. ASSUME NEW v \in Works, Has(v, Timeout)'
        PROVE  stage[v] \in {"executed", "completed"}
    <3>1. Has(v, Timeout) \/ (v = x /\ y = Timeout)
      BY <1>7, <2>1 DEF Timeout
    <3>2. CASE v = x /\ y = Timeout
      BY <1>2, <3>2 DEF TimerInv, Handlers
    <3>. QED BY <3>1, <3>2 DEF TimerInv
  <2>. QED BY <1>1, <1>6, <2>1 DEF TimerInv
<1>15. AnswerInv'
  <2>. SUFFICES ASSUME NEW v \in Works
                PROVE  /\ v \in sent' => stage'[v] \in {"executed", "completed"}
                       /\ \A w \in Works :
                            Answering(w, v)' \/ Has(w, v)' =>
                              stage'[v] \in {"executed", "completed"} /\ v \notin sent'
                       /\ \A w, u \in Works : ~(Answering(w, v)' /\ Has(u, v)')
                       /\ Has(v, Error)' => /\ stage'[v] = "completed" /\ v \notin sent'
                                            /\ \A w \in Works : ~Answering(w, v)'
    BY DEF AnswerInv
  <2>1. ASSUME NEW w \in Works, Has(w, v)'
        PROVE  Has(w, v) \/ (Answering(w, v) /\ h = "callback")
    BY <1>2, <1>7, <2>1 DEF Handlers
  <2>2. Has(v, Error)' => Has(v, Error)
    BY <1>7 DEF Error
  <2>3. \A w \in Works : Answering(w, v)' => Answering(w, v) /\ h # "callback"
    BY <1>6
  <2>. QED BY <1>1, <2>1, <2>2, <2>3 DEF AnswerInv
<1>16. MapInv'
  BY <1>1, <1>6 DEF MapInv
<1>17. PendingInv'
  <2>. SUFFICES ASSUME NEW v \in Works, Pending(v)'
                PROVE  /\ map_' # v => Late(v)' /\ (map_' = None \/ v < map_')
                       /\ triggered'[v] => Late(v)'
                       /\ \A r : Has(v, r)' => Late(v)'
    BY DEF PendingInv, None
  <2>1. Pending(v)
    BY <1>1, <1>6 DEF Pending
  <2>2. map_' # v => Late(v)' /\ (map_' = None \/ v < map_')
    BY <1>1, <1>7, <2>1 DEF PendingInv
  <2>3. CASE v = x
    BY <1>10, <2>2, <2>3
  <2>4. CASE v # x
    BY <1>3, <1>7, <2>1, <2>2, <2>4 DEF PendingInv
  <2>. QED BY <2>3, <2>4
<1>18. ReachInv'
  <2>. SUFFICES ASSUME NEW w \in Works, NEW v \in Works, v # w,
                       Answering(w, v)' \/ Has(w, v)'
                PROVE  v < w /\ Late(v)'
    BY DEF ReachInv
  <2>1. Answering(w, v) \/ Has(w, v)
    BY <1>2, <1>6, <1>7 DEF Handlers
  <2>. QED BY <1>7, <2>1 DEF ReachInv
<1>19. OnceInv'
  <2>1. ASSUME ~isPromise[x], ~Late(x)'
        PROVE  Single(x)'
    <3>1. h = "callback" /\ y = x
      <4>1. h # "timer"
        BY <1>2, <1>7, <2>1 DEF Late
      <4>. QED BY <1>7, <1>9, <2>1, <4>1 DEF Handlers
    <3>2. ASSUME NEW r, Has(x, r)
          PROVE  FALSE
      <4>1. r \in Works \cup {Timeout, Error}
        BY <3>2, HasResult
      <4>2. r # x /\ r # Error
        BY <1>2, <3>1, <3>2 DEF AnswerInv
      <4>3. CASE r = Timeout
        <5>1. TimesOut(x)
          BY <2>1, <3>2, <4>3 DEF TimesOut, PostedFor, Has
        <5>. QED BY <1>7, <2>1, <5>1, TimeoutIsLate
      <4>4. CASE r \in Works
        <5>1. r < x /\ Late(r)
          BY <3>2, <4>2, <4>4 DEF ReachInv
        <5>. QED BY <1>7, <2>1, <4>4, <5>1, LateLater
      <4>. QED BY <4>1, <4>2, <4>3, <4>4
    <3>. QED BY <1>7, <2>1, <3>2 DEF OnceInv
  <2>2. ASSUME NEW v \in Works
        PROVE  IF isPromise'[v] THEN Len(results'[v]) <= 1 ELSE Late(v)' \/ Single(v)'
    <3>1. CASE v = x
      BY <1>1, <2>1, <3>1 DEF OnceInv
    <3>2. CASE v # x
      BY <1>1, <1>7, <3>2 DEF OnceInv
    <3>. QED BY <3>1, <3>2
  <2>. QED BY <2>2 DEF OnceInv
<1>. QED BY <1>11, <1>12, <1>13, <1>14, <1>15, <1>16, <1>17, <1>18, <1>19

-----------------------------------------------------------------------------
(***************************************************************************)
(* The theorems                                                            *)
(***************************************************************************)
LEMMA InitHolds ==
  ASSUME Init
  PROVE  IInv
<1>. USE WorksAreNumbers
<1>1. /\ posted = <<>> /\ Len(posted) = 0
      /\ \A w \in Works : results[w] = <<>> /\ Len(results[w]) = 0
  BY DEF Init
<1>2. /\ handler["callback"].pc = "idle" /\ handler["timer"].pc = "idle"
      /\ \A h \in Handlers : handler[h].work = None
      /\ handler \in [Handlers -> HandlerStates]
  BY DEF Init, Free, Handlers, HandlerStates
<1>3. \A w \in Works : \A r : ~Has(w, r)
  BY <1>1 DEF Has
<1>4. TypeOK
  <2>1. posted \in Seq(Answers) /\ results \in [Works -> Seq(Works \cup {Timeout, Error})]
    BY DEF Init
  <2>. QED BY <1>2, <2>1 DEF Init, TypeOK, Stages
<1>5. HandlerInv /\ MapInv
  BY <1>2 DEF HandlerInv, MapInv
<1>6. FreshInv /\ TimerInv
  BY <1>2, <1>3 DEF Init, FreshInv, TimerInv, Expiring
<1>7. AnswerInv /\ PendingInv /\ ReachInv
  BY <1>2, <1>3 DEF Init, AnswerInv, PendingInv, Pending, ReachInv, Answering
<1>8. OnceInv
  BY <1>1 DEF OnceInv, Single
<1>. QED BY <1>4, <1>5, <1>6, <1>7, <1>8 DEF IInv

LEMMA NextPreserves ==
  ASSUME IInv, [Next]_vars
  PROVE  IInv'
<1>1. CASE UNCHANGED vars
  <2>1. /\ Keeps /\ (OnceInv => OnceInv')
    BY <1>1, NothingReceived DEF vars
  <2>2. TypeOK' /\ HandlerInv' /\ MapInv'
    BY <1>1 DEF IInv, vars, TypeOK, HandlerInv, MapInv, Answering, Expiring, Timeout
  <2>3. FreshInv' /\ ReachInv' /\ PendingInv'
    BY <1>1, <2>1 DEF IInv, vars, FreshInv, ReachInv, PendingInv, Pending, Answering, Keeps
  <2>4. \A v \in Works :
          (Has(v, Timeout)' => Has(v, Timeout)) /\ (Has(v, Error)' => Has(v, Error))
    BY <2>1 DEF Keeps, Timeout, Error
  <2>5. TimerInv' /\ AnswerInv'
    BY <1>1, <2>1, <2>4 DEF IInv, vars, TimerInv, AnswerInv, Answering, Expiring, Keeps
  <2>. QED BY <2>1, <2>2, <2>3, <2>5 DEF IInv
<1>2. ASSUME NEW w \in Works, Request(w) \/ Execute(w) \/ AnswerGet(w)
      PROVE  IInv'
  BY <1>2, RequestStep, ExecuteStep, AnswerGetStep
<1>3. CASE JsThread
  BY <1>3, CompleteFailedStep, CompleteWaitingStep, RegisterTimerStep, StoreTimerIdStep,
     RunPostedStep DEF JsThread
<1>4. CASE TimerThread
  BY <1>4, TimerExpiresStep, CallUnregisterStep, CallPostStep DEF TimerThread, Handlers
<1>5. CASE CallbackThread
  BY <1>5, AnswerEraseStep, CallUnregisterStep, CallPostStep DEF CallbackThread, Handlers
<1>. QED BY <1>1, <1>2, <1>3, <1>4, <1>5 DEF Next

LEMMA LateIsTimedOut ==
  ASSUME TypeOK, NEW v \in Works, Late(v)
  PROVE  \E u \in 1 .. v : TimedOut(u)
<1>1. PICK u \in 1 .. v : TimesOut(u)
  BY DEF Late
<1>2. u \in Works
  BY WorksAreNumbers
<1>3. CASE \E i \in 1 .. Len(results[u]) : results[u][i] = Timeout
  <2>1. results[u] \in Seq(Works \cup {Timeout, Error})
    BY <1>2 DEF TypeOK
  <2>2. Timeout \in ToSet(results[u])
    BY <1>3, <2>1 DEF ToSet
  <2>. QED BY <2>2 DEF TimedOut
<1>4. CASE PostedFor(u)
  <2>1. PICK i \in 1 .. Len(posted) : posted[i].work = u /\ posted[i].result = Timeout
    BY <1>4 DEF PostedFor
  <2>2. i \in DOMAIN posted /\ posted[i] \in Answers
    BY DEF TypeOK
  <2>3. posted[i] = [work |-> u, result |-> Timeout]
    BY <2>1, <2>2 DEF Answers
  <2>. QED BY <2>2, <2>3 DEF TimedOut
<1>. QED BY <1>1, <1>3, <1>4 DEF TimesOut

\* The inductive invariant holds.
THEOREM Invariance == Spec => []IInv
<1>1. Init => IInv
  BY InitHolds
<1>2. IInv /\ [Next]_vars => IInv'
  BY NextPreserves
<1>. QED BY <1>1, <1>2, PTL DEF Spec

\* NapiAsyncWork::CallFunction (napi_async_work.cpp) calls the function of the
\* application a second time only around a timeout, for any number of calls.
THEOREM CalledOnceWithoutTimeout == Spec => []CalledTwiceOnlyAroundTimeout
<1>1. ASSUME IInv
      PROVE  CalledTwiceOnlyAroundTimeout
  <2>. SUFFICES ASSUME NEW w \in Works, Len(results[w]) > 1
                PROVE  \E v \in 1 .. w : TimedOut(v)
    BY DEF CalledTwiceOnlyAroundTimeout
  <2>1. Len(results[w]) \in Nat
    BY <1>1 DEF IInv, TypeOK
  <2>2. Late(w)
    BY <1>1, <2>1 DEF IInv, OnceInv, Single
  <2>. QED BY <1>1, <2>2, LateIsTimedOut DEF IInv
<1>. QED BY <1>1, Invariance, PTL

\* AsyncWorkCallFunction gives an answer to the call that asked for it, unless
\* that call or an earlier one timed out; then to a later one.
THEOREM AnswersAreNotMixed == Spec => []AnswersReachTheirCall
<1>1. ASSUME IInv
      PROVE  AnswersReachTheirCall
  <2>. SUFFICES ASSUME NEW w \in Works, NEW v \in Works, v # w, v \in ToSet(results[w])
                PROVE  v < w /\ \E u \in 1 .. v : TimedOut(u)
    BY DEF AnswersReachTheirCall
  <2>1. results[w] \in Seq(Works \cup {Timeout, Error})
    BY <1>1 DEF IInv, TypeOK
  <2>2. Has(w, v)
    BY <2>1 DEF ToSet, Has
  <2>3. v < w /\ Late(v)
    BY <1>1, <2>2 DEF IInv, ReachInv
  <2>. QED BY <1>1, <2>3, LateIsTimedOut DEF IInv
<1>. QED BY <1>1, Invariance, PTL

=============================================================================
