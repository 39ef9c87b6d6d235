-------------------- MODULE BluetoothBleAdvertiserProofs --------------------
(***************************************************************************)
(* Proofs about BluetoothBleAdvertiser, for every set of threads and of    *)
(* callbacks and every number of handles, calls and deaths.                *)
(*                                                                         *)
(* That a callback has one handle is decided when StartAdvertising looks   *)
(* it up, and broken, if at all, when it registers it two steps later:     *)
(* StartingInv carries the answer across.  That the entry of a set is not  *)
(* lost needs all that could erase it: CleanInv says that, from the moment *)
(* a handle is given out with no excuse, no report, no notice, no Close    *)
(* and no automatic stop under way is about it or its callback.            *)
(***************************************************************************)
EXTENDS BluetoothBleAdvertiser, WellFoundedInduction, TLAPS

Pcs == {"idle", "lookUp", "getHandle", "register", "start", "stop", "closeSet", "closeGet",
        "closeDereg"}

Calls == [pc : Pcs, callback : Callbacks \cup {NoCallback}, handle : Handles \cup {Invalid}]

Kinds == {"started", "startFailed", "stopped", "autoStop"}

Reports == [kind : Kinds, handle : Handles]

Reasons == {"report", "death", "call", "close", "stop"}

TypeOK ==
  /\ DOMAIN callbacks \subseteq Handles
  /\ callbacks \in [DOMAIN callbacks -> Callbacks]
  /\ thread \in [Threads -> Calls]
  /\ reporter \in Callbacks \cup {NoCallback}
  /\ sets \in [Handles -> Callbacks \cup {NoCallback}]
  /\ reports \in Seq(Reports)
  /\ up \in BOOLEAN /\ noticed \in BOOLEAN
  /\ calls \in Nat /\ deaths \in Nat
  /\ excuse \in [Handles -> SUBSET Reasons]
  /\ twice \subseteq Callbacks

\* A call knows its callback, and from a certain step on its handle.
CallInv ==
  \A t \in Threads :
    /\ pc(t) # "idle" => thread[t].callback \in Callbacks
    /\ pc(t) \notin {"idle", "lookUp", "getHandle"} => thread[t].handle \in Handles

\* Two calls that start the same callback are noted, and while one is under way
\* the callback has no handle yet.
StartingInv ==
  /\ \A t, u \in Threads : \A c \in Callbacks :
       Starting(t, c) /\ Starting(u, c) /\ t # u => c \in twice
  /\ \A t \in Threads : \A c \in Callbacks :
       Starting(t, c) => c \in twice \/ \A h \in DOMAIN callbacks : callbacks[h] # c

\* A set whose loss nothing excuses.
Clean(h) == sets[h] # NoCallback /\ excuse[h] = {} /\ sets[h] \notin twice

OnlyStarted(h) ==
  \A n \in 1 .. Len(reports) : reports[n].handle = h => reports[n].kind = "started"

Entered(h) == h \in DOMAIN callbacks /\ callbacks[h] = sets[h]

\* It is in the map or about to be, and nothing under way takes it out.
CleanAt(h) ==
  /\ noticed
  /\ reporter # sets[h]
  /\ OnlyStarted(h)
  /\ \A t \in Threads :
       /\ pc(t) = "register" /\ thread[t].handle = h => thread[t].callback = sets[h]
       /\ pc(t) = "closeGet" => thread[t].handle # h
       /\ pc(t) = "closeDereg" => thread[t].callback # sets[h]
  /\ Entered(h) \/ \E t \in Threads : pc(t) = "register" /\ thread[t].handle = h

CleanInv == \A h \in Handles : Clean(h) => CleanAt(h)

IInv == TypeOK /\ CallInv /\ StartingInv /\ CleanInv /\ OneHandlePerCallback

-----------------------------------------------------------------------------
(***************************************************************************)
(* The map of handles                                                      *)
(***************************************************************************)
LEMMA MinIsMember ==
  ASSUME NEW S \in SUBSET Nat, S # {}
  PROVE  Min(S) \in S
<1>1. PICK x \in S : \A y \in S : ~(<<y, x>> \in OpToRel(<, Nat))
  BY NatLessThanWellFounded, WFMin
<1>2. ASSUME NEW y \in S
      PROVE  x <= y
  <2>1. y \in Nat /\ x \in Nat
    OBVIOUS
  <2>2. <<y, x>> \in Nat \X Nat /\ <<y, x>>[1] = y /\ <<y, x>>[2] = x
    BY <2>1
  <2>3. ~(y < x)
    BY <1>1, <2>2 DEF OpToRel
  <2>. QED BY <2>1, <2>3
<1>. QED BY <1>2 DEF Min

LEMMA HandlesAreNumbers == Handles \subseteq Nat /\ Invalid \notin Handles
BY AdvertiserAssumption DEF Handles, Invalid

\* GetAdvertiserHandle finds an entry of the callback if there is one.
LEMMA HandleFound ==
  ASSUME TypeOK, NEW c
  PROVE  \/ /\ GetAdvertiserHandle(c) = Invalid
            /\ \A h \in DOMAIN callbacks : callbacks[h] # c
         \/ /\ GetAdvertiserHandle(c) \in DOMAIN callbacks
            /\ GetAdvertiserHandle(c) \in Handles
            /\ GetAdvertiserHandle(c) # Invalid
            /\ callbacks[GetAdvertiserHandle(c)] = c
<1>1. HandlesOf(c) \in SUBSET Nat
  BY HandlesAreNumbers DEF HandlesOf, TypeOK
<1>2. CASE HandlesOf(c) = {}
  BY <1>2 DEF HandlesOf, GetAdvertiserHandle
<1>3. CASE HandlesOf(c) # {}
  <2>1. GetAdvertiserHandle(c) \in HandlesOf(c)
    BY <1>1, <1>3, MinIsMember DEF GetAdvertiserHandle
  <2>. QED BY <2>1, HandlesAreNumbers DEF HandlesOf, TypeOK
<1>. QED BY <1>2, <1>3

\* The map loses at most the entry of h.
Loses(h) ==
  /\ DOMAIN callbacks' = DOMAIN callbacks \ {h}
  /\ \A k \in DOMAIN callbacks' : callbacks'[k] = callbacks[k]
  /\ callbacks' \in [DOMAIN callbacks' -> Callbacks]

LEMMA PopEffect ==
  ASSUME TypeOK, NEW h, PopAdvertiserObserver(h)
  PROVE  Loses(h)
BY DEF TypeOK, PopAdvertiserObserver, Without, Loses

LEMMA DeregisterEffect ==
  ASSUME TypeOK, NEW c, Deregister(c)
  PROVE  /\ Loses(GetAdvertiserHandle(c))
         /\ \A h \in DOMAIN callbacks : callbacks[h] # c => h \in DOMAIN callbacks'
<1>1. Loses(GetAdvertiserHandle(c))
  BY DEF TypeOK, Deregister, Without, Loses
<1>2. ASSUME NEW h \in DOMAIN callbacks, callbacks[h] # c
      PROVE  h # GetAdvertiserHandle(c)
  BY <1>2, HandleFound, HandlesAreNumbers DEF TypeOK
<1>. QED BY <1>1, <1>2 DEF Loses

LEMMA RegisterEffect ==
  ASSUME TypeOK, NEW h \in Handles, NEW c \in Callbacks, Register(h, c)
  PROVE  /\ DOMAIN callbacks' = DOMAIN callbacks \cup {h}
         /\ callbacks'[h] = c
         /\ \A k \in DOMAIN callbacks : k # h => callbacks'[k] = callbacks[k]
         /\ DOMAIN callbacks' \subseteq Handles
         /\ callbacks' \in [DOMAIN callbacks' -> Callbacks]
BY DEF TypeOK, Register

-----------------------------------------------------------------------------
(***************************************************************************)
(* Reports and calls                                                       *)
(***************************************************************************)
LEMMA ReportEffect ==
  ASSUME TypeOK, NEW kind \in Kinds, NEW h \in Handles, Report(kind, h)
  PROVE  /\ reports' \in Seq(Reports)
         /\ \A k : OnlyStarted(k) /\ (k = h => kind = "started") => OnlyStarted(k)'
<1>. DEFINE report == [kind |-> kind, handle |-> h]
<1>1. report \in Reports /\ report.kind = kind /\ report.handle = h
  BY DEF Reports
<1>2. reports \in Seq(Reports) /\ reports' = Append(reports, report)
  BY DEF TypeOK, Report
<1>. HIDE DEF report
<1>3. /\ reports' \in Seq(Reports) /\ Len(reports) \in Nat
      /\ Len(reports') = Len(reports) + 1 /\ reports'[Len(reports) + 1] = report
      /\ \A n \in 1 .. Len(reports) : reports'[n] = reports[n]
  BY <1>1, <1>2
<1>4. \A n \in 1 .. Len(reports') : n \in 1 .. Len(reports) \/ n = Len(reports) + 1
  BY <1>3
<1>. QED BY <1>1, <1>3, <1>4 DEF OnlyStarted

LEMMA ReportTaken ==
  ASSUME TypeOK, reports # <<>>, reports' = Tail(reports)
  PROVE  /\ reports' \in Seq(Reports)
         /\ Head(reports).handle \in Handles /\ Head(reports).kind \in Kinds
         /\ \A k : OnlyStarted(k) => OnlyStarted(k)'
         /\ \A k : OnlyStarted(k) /\ k = Head(reports).handle =>
              Head(reports).kind = "started"
<1>1. /\ reports' \in Seq(Reports) /\ reports \in Seq(Reports)
      /\ Len(reports) \in Nat \ {0} /\ Len(reports') = Len(reports) - 1
      /\ \A n \in 1 .. Len(reports') : reports'[n] = reports[n + 1]
      /\ Head(reports) = reports[1] /\ 1 \in 1 .. Len(reports)
      /\ \A n \in 1 .. Len(reports') : n + 1 \in 1 .. Len(reports)
  BY DEF TypeOK
<1>2. Head(reports).handle \in Handles /\ Head(reports).kind \in Kinds
  <2>1. Head(reports) \in Reports
    BY <1>1
  <2>. QED BY <2>1 DEF Reports
<1>. QED BY <1>1, <1>2 DEF OnlyStarted

LEMMA ReportsAreKept ==
  ASSUME UNCHANGED reports
  PROVE  \A k : OnlyStarted(k)' <=> OnlyStarted(k)
BY DEF OnlyStarted

\* Thread t is now at p with this callback and handle, the others where they were.
MovesTo(t, p, c, h) ==
  /\ thread' \in [Threads -> Calls]
  /\ thread'[t].pc = p /\ thread'[t].callback = c /\ thread'[t].handle = h
  /\ \A u \in Threads : u # t => thread'[u] = thread[u]

LEMMA MoveEffect ==
  ASSUME TypeOK, NEW t \in Threads, NEW p \in Pcs, NEW c \in Callbacks \cup {NoCallback},
         NEW h \in Handles \cup {Invalid},
         thread' = [thread EXCEPT ![t] = [pc |-> p, callback |-> c, handle |-> h]]
  PROVE  MovesTo(t, p, c, h)
<1>. DEFINE call == [pc |-> p, callback |-> c, handle |-> h]
<1>1. call \in Calls /\ call.pc = p /\ call.callback = c /\ call.handle = h
  BY DEF Calls
<1>2. thread' = [thread EXCEPT ![t] = call] /\ thread \in [Threads -> Calls]
  BY DEF TypeOK
<1>. HIDE DEF call
<1>. QED BY <1>1, <1>2 DEF MovesTo

\* A record of the set is made of its fields.
LEMMA CallFields ==
  ASSUME TypeOK, NEW t \in Threads
  PROVE  /\ thread[t].pc \in Pcs
         /\ thread[t].callback \in Callbacks \cup {NoCallback}
         /\ thread[t].handle \in Handles \cup {Invalid}
         /\ thread[t] = [pc |-> thread[t].pc, callback |-> thread[t].callback,
                         handle |-> thread[t].handle]
<1>1. thread[t] \in Calls
  BY DEF TypeOK
<1>. QED BY <1>1 DEF Calls

LEMMA GotoEffect ==
  ASSUME TypeOK, NEW t \in Threads, NEW p \in Pcs, Goto(t, p)
  PROVE  MovesTo(t, p, thread[t].callback, thread[t].handle)
<1>1. [thread[t] EXCEPT !.pc = p] =
        [pc |-> p, callback |-> thread[t].callback, handle |-> thread[t].handle]
  BY CallFields DEF TypeOK, Calls
<1>. QED BY <1>1, CallFields, MoveEffect DEF Goto

LEMMA ReturnEffect ==
  ASSUME TypeOK, NEW t \in Threads, Return(t)
  PROVE  MovesTo(t, "idle", NoCallback, Invalid)
BY MoveEffect DEF Return, Idle, Pcs

LEMMA HandleEffect ==
  ASSUME TypeOK, NEW t \in Threads, NEW p \in Pcs, NEW h \in Handles \cup {Invalid},
         thread' = [thread EXCEPT ![t].pc = p, ![t].handle = h]
  PROVE  MovesTo(t, p, thread[t].callback, h)
<1>1. thread \in [Threads -> Calls] /\ thread[t] \in Calls
  BY DEF TypeOK
<1>2. /\ thread'[t].pc = p /\ thread'[t].callback = thread[t].callback
      /\ thread'[t].handle = h
      /\ \A u \in Threads : u # t => thread'[u] = thread[u]
  BY <1>1 DEF Calls
<1>3. thread' \in [Threads -> Calls]
  BY <1>1 DEF Calls
<1>. QED BY <1>2, <1>3 DEF MovesTo

LEMMA CallEffect ==
  ASSUME TypeOK, NEW t \in Threads, NEW p \in Pcs, NEW c \in Callbacks,
         NEW h \in Handles \cup {Invalid}, Call(t, p, c, h)
  PROVE  MovesTo(t, p, c, h) /\ pc(t) = "idle" /\ calls' \in Nat
<1>1. thread' = [thread EXCEPT ![t] = [pc |-> p, callback |-> c, handle |-> h]]
  BY DEF Call
<1>2. MovesTo(t, p, c, h)
  BY <1>1, MoveEffect
<1>3. calls' \in Nat /\ pc(t) = "idle"
  BY DEF Call, TypeOK
<1>. QED BY <1>2, <1>3

LEMMA CloseEffect ==
  ASSUME TypeOK, NEW t \in Threads, NEW c \in Callbacks,
         thread' = [thread EXCEPT ![t] = [@ EXCEPT !.pc = "closeDereg", !.callback = c]]
  PROVE  MovesTo(t, "closeDereg", c, thread[t].handle)
<1>1. thread \in [Threads -> Calls] /\ thread[t] \in Calls
  BY DEF TypeOK
<1>2. /\ thread'[t].pc = "closeDereg" /\ thread'[t].callback = c
      /\ thread'[t].handle = thread[t].handle
      /\ \A u \in Threads : u # t => thread'[u] = thread[u]
  BY <1>1 DEF Calls
<1>3. thread' \in [Threads -> Calls]
  BY <1>1 DEF Calls, Pcs
<1>. QED BY <1>2, <1>3 DEF MovesTo

-----------------------------------------------------------------------------
(***************************************************************************)
(* The steps                                                               *)
(***************************************************************************)
\* No other handle has the callback of a clean set.
LEMMA CleanIsAlone ==
  ASSUME IInv, NEW k \in Handles, Clean(k), NEW h \in DOMAIN callbacks, h # k
  PROVE  callbacks[h] # sets[k]
<1>. USE DEF IInv
<1>1. sets[k] \in Callbacks /\ sets[k] \notin twice
  BY DEF Clean, TypeOK
<1>2. CASE Entered(k)
  BY <1>1, <1>2 DEF Entered, OneHandlePerCallback
<1>3. CASE \E t \in Threads : pc(t) = "register" /\ thread[t].handle = k
  BY <1>1, <1>3 DEF CleanInv, CleanAt, StartingInv, Starting
<1>. QED BY <1>2, <1>3 DEF CleanInv, CleanAt

\* What the absence of an excuse means.
LEMMA NoExcuse ==
  ASSUME TypeOK, NEW h, Excuses(h) = {}
  PROVE  /\ noticed /\ reporter = NoCallback
         /\ OnlyStarted(h)
         /\ \A u \in Threads : thread[u].handle # h /\ pc(u) # "closeDereg"
<1>1. \A e \in {"report", "death", "call", "close"} : e \notin Excuses(h)
  OBVIOUS
<1>2. ~((\E i \in DOMAIN reports : reports[i].handle = h) \/ reporter # NoCallback)
  BY <1>1 DEF Excuses
<1>3. noticed
  BY <1>1 DEF Excuses
<1>4. \A u \in Threads : thread[u].handle # h
  BY <1>1 DEF Excuses
<1>5. \A u \in Threads : pc(u) # "closeDereg"
  BY <1>1 DEF Excuses
<1>6. DOMAIN reports = 1 .. Len(reports)
  BY DEF TypeOK
<1>. QED BY <1>2, <1>3, <1>4, <1>5, <1>6 DEF OnlyStarted

LEMMA ServiceStartsStep ==
  ASSUME IInv, ServiceStarts
  PROVE  IInv'
<1>. USE HandlesAreNumbers DEF IInv
<1>1. \A k : OnlyStarted(k)' <=> OnlyStarted(k)
  BY ReportsAreKept DEF ServiceStarts, service, history
<1>2. TypeOK'
  BY <1>1 DEF TypeOK, ServiceStarts, service, history
<1>3. CallInv'
  BY <1>1 DEF CallInv, pc, ServiceStarts, service, history
<1>4. StartingInv'
  BY <1>1 DEF StartingInv, Starting, pc, ServiceStarts, service, history
<1>5. CleanInv'
  BY <1>1 DEF CleanInv, CleanAt, Clean, Entered, pc, ServiceStarts, service, history
<1>6. OneHandlePerCallback'
  BY <1>1 DEF OneHandlePerCallback, ServiceStarts, service, history
<1>. QED BY <1>2, <1>3, <1>4, <1>5, <1>6

LEMMA ServiceDiesStep ==
  ASSUME IInv, ServiceDies
  PROVE  IInv'
<1>. USE HandlesAreNumbers DEF IInv
<1>1. \A k : OnlyStarted(k)' <=> OnlyStarted(k)
  BY ReportsAreKept DEF ServiceDies, service, history
<1>2. TypeOK'
  <2>1. UNCHANGED <<callbacks, thread, reporter, reports, calls, excuse, twice>>
    BY DEF ServiceDies, service, history
  <2>2. up' = FALSE /\ noticed' = FALSE
    BY DEF ServiceDies
  <2>3. sets' \in [Handles -> Callbacks \cup {NoCallback}] /\ deaths' \in Nat
    BY DEF ServiceDies, TypeOK
  <2>. QED BY <2>1, <2>2, <2>3 DEF TypeOK
<1>3. CallInv'
  BY <1>1 DEF CallInv, pc, ServiceDies, service, history
<1>4. StartingInv'
  BY <1>1 DEF StartingInv, Starting, pc, ServiceDies, service, history
<1>5. CleanInv'
  BY <1>1 DEF CleanInv, CleanAt, Clean, Entered, pc, ServiceDies, service, history
<1>6. OneHandlePerCallback'
  BY <1>1 DEF OneHandlePerCallback, ServiceDies, service, history
<1>. QED BY <1>2, <1>3, <1>4, <1>5, <1>6

LEMMA OnRemoteDiedStep ==
  ASSUME IInv, OnRemoteDied
  PROVE  IInv'
<1>. USE HandlesAreNumbers DEF IInv
<1>1. \A k : OnlyStarted(k)' <=> OnlyStarted(k)
  BY ReportsAreKept DEF OnRemoteDied, service, history
<1>2. TypeOK'
  BY <1>1 DEF TypeOK, OnRemoteDied, service, history
<1>3. CallInv'
  BY <1>1 DEF CallInv, pc, OnRemoteDied, service, history
<1>4. StartingInv'
  BY <1>1 DEF StartingInv, Starting, pc, OnRemoteDied, service, history
<1>5. CleanInv'
  BY <1>1 DEF CleanInv, CleanAt, Clean, Entered, pc, OnRemoteDied, service, history
<1>6. OneHandlePerCallback'
  BY <1>1 DEF OneHandlePerCallback, OnRemoteDied, service, history
<1>. QED BY <1>2, <1>3, <1>4, <1>5, <1>6

LEMMA AutoStopStep ==
  ASSUME IInv, NEW h \in Handles, AutoStop(h)
  PROVE  IInv'
<1>. USE HandlesAreNumbers DEF IInv
<1>1. /\ reports' \in Seq(Reports)
      /\ \A k : OnlyStarted(k) /\ k # h => OnlyStarted(k)'
  BY ReportEffect DEF AutoStop, Kinds
<1>2. TypeOK'
  BY <1>1 DEF TypeOK, AutoStop, service, history
<1>3. CallInv'
  BY <1>1 DEF CallInv, pc, AutoStop, service, history
<1>4. StartingInv'
  BY <1>1 DEF StartingInv, Starting, pc, AutoStop, service, history
<1>5. CleanInv'
  <2>. SUFFICES ASSUME NEW k \in Handles, Clean(k)'
                PROVE  CleanAt(k)'
    BY DEF CleanInv
  <2>1. k # h /\ Clean(k) /\ CleanAt(k) /\ sets'[k] = sets[k]
    BY DEF CleanInv, Clean, AutoStop, TypeOK, history
  <2>. QED BY <1>1, <2>1 DEF CleanAt, Entered, pc, AutoStop
<1>6. OneHandlePerCallback'
  BY <1>1 DEF OneHandlePerCallback, AutoStop, service, history
<1>. QED BY <1>2, <1>3, <1>4, <1>5, <1>6

LEMMA StartAdvertisingStep ==
  ASSUME IInv, NEW t \in Threads, NEW c \in Callbacks, StartAdvertising(t, c)
  PROVE  IInv'
<1>. USE HandlesAreNumbers DEF IInv
<1>1. MovesTo(t, "lookUp", c, Invalid) /\ pc(t) = "idle" /\ calls' \in Nat
  BY CallEffect DEF StartAdvertising, Pcs
<1>2. \A k : OnlyStarted(k)' <=> OnlyStarted(k)
  BY ReportsAreKept DEF StartAdvertising, service, history
<1>3. TypeOK'
  BY <1>1, <1>2 DEF TypeOK, MovesTo, StartAdvertising, service, history
<1>4. CallInv'
  BY <1>1, <1>2 DEF CallInv, pc, MovesTo, StartAdvertising, service, history
<1>5. StartingInv'
  BY <1>1, <1>2 DEF StartingInv, Starting, pc, MovesTo, StartAdvertising, service, history
<1>6. CleanInv'
  BY <1>1, <1>2 DEF CleanInv, CleanAt, Clean, Entered, pc, MovesTo, StartAdvertising,
       service, history
<1>7. OneHandlePerCallback'
  BY <1>1, <1>2 DEF OneHandlePerCallback, MovesTo, StartAdvertising, service, history
<1>. QED BY <1>3, <1>4, <1>5, <1>6, <1>7

LEMMA StopAdvertisingStep ==
  ASSUME IInv, NEW t \in Threads, NEW c \in Callbacks, StopAdvertising(t, c)
  PROVE  IInv'
<1>. USE HandlesAreNumbers DEF IInv
<1>1. /\ GetAdvertiserHandle(c) \in Handles
      /\ MovesTo(t, "stop", c, GetAdvertiserHandle(c))
      /\ pc(t) = "idle" /\ calls' \in Nat
  BY HandleFound, CallEffect DEF StopAdvertising, Pcs
<1>2. \A k : OnlyStarted(k)' <=> OnlyStarted(k)
  BY ReportsAreKept DEF StopAdvertising, service, history
<1>3. TypeOK'
  BY <1>1, <1>2 DEF TypeOK, MovesTo, StopAdvertising, service, history
<1>4. CallInv'
  BY <1>1, <1>2 DEF CallInv, pc, MovesTo, StopAdvertising, service, history
<1>5. StartingInv'
  BY <1>1, <1>2 DEF StartingInv, Starting, pc, MovesTo, StopAdvertising, service, history
<1>6. CleanInv'
  BY <1>1, <1>2 DEF CleanInv, CleanAt, Clean, Entered, pc, MovesTo, StopAdvertising,
       service, history
<1>7. OneHandlePerCallback'
  BY <1>1, <1>2 DEF OneHandlePerCallback, MovesTo, StopAdvertising, service, history
<1>. QED BY <1>3, <1>4, <1>5, <1>6, <1>7

LEMMA CloseStep ==
  ASSUME IInv, NEW t \in Threads, NEW c \in Callbacks, Close(t, c)
  PROVE  IInv'
<1>. USE HandlesAreNumbers DEF IInv
<1>1. /\ GetAdvertiserHandle(c) \in Handles
      /\ MovesTo(t, "closeSet", c, GetAdvertiserHandle(c))
      /\ pc(t) = "idle" /\ calls' \in Nat
  BY HandleFound, CallEffect DEF Close, Pcs
<1>2. \A k : OnlyStarted(k)' <=> OnlyStarted(k)
  BY ReportsAreKept DEF Close, service, history
<1>3. TypeOK'
  BY <1>1, <1>2 DEF TypeOK, MovesTo, Close, service, history
<1>4. CallInv'
  BY <1>1, <1>2 DEF CallInv, pc, MovesTo, Close, service, history
<1>5. StartingInv'
  BY <1>1, <1>2 DEF StartingInv, Starting, pc, MovesTo, Close, service, history
<1>6. CleanInv'
  BY <1>1, <1>2 DEF CleanInv, CleanAt, Clean, Entered, pc, MovesTo, Close, service, history
<1>7. OneHandlePerCallback'
  BY <1>1, <1>2 DEF OneHandlePerCallback, MovesTo, Close, service, history
<1>. QED BY <1>3, <1>4, <1>5, <1>6, <1>7

LEMMA LookUpStep ==
  ASSUME IInv, NEW t \in Threads, LookUp(t)
  PROVE  IInv'
<1>. USE HandlesAreNumbers DEF IInv
<1>1. /\ pc(t) = "lookUp" /\ thread[t].callback \in Callbacks /\ twice \subseteq twice'
  BY DEF LookUp, CallInv
<1>2. \/ /\ MovesTo(t, "getHandle", thread[t].callback, Invalid)
         /\ \A h \in DOMAIN callbacks : callbacks[h] # thread[t].callback
         /\ (\E u \in Threads : Starting(u, thread[t].callback))
               => thread[t].callback \in twice'
      \/ \E h \in Handles : MovesTo(t, "start", thread[t].callback, h)
  <2>. DEFINE c == thread[t].callback
               h == GetAdvertiserHandle(c)
  <2>1. CASE h = Invalid
    <3>1. thread' = [thread EXCEPT ![t].pc = "getHandle", ![t].handle = Invalid]
      BY <2>1 DEF LookUp
    <3>2. MovesTo(t, "getHandle", c, Invalid)
      BY <3>1, HandleEffect DEF Pcs
    <3>3. \A k \in DOMAIN callbacks : callbacks[k] # c
      BY <2>1, HandleFound
    <3>4. (\E u \in Threads : Starting(u, c)) => c \in twice'
      BY <2>1 DEF LookUp
    <3>. QED BY <3>2, <3>3, <3>4
  <2>2. CASE h # Invalid
    <3>1. thread' = [thread EXCEPT ![t].pc = "start", ![t].handle = h] /\ h \in Handles
      BY <2>2, HandleFound DEF LookUp
    <3>2. MovesTo(t, "start", c, h)
      <4>. HIDE DEF h
      <4>. QED BY <3>1, HandleEffect DEF Pcs
    <3>. QED BY <3>1, <3>2
  <2>. QED BY <2>1, <2>2
<1>3. \A k : OnlyStarted(k)' <=> OnlyStarted(k)
  BY ReportsAreKept DEF LookUp, service, history
<1>4. TypeOK'
  <2>1. UNCHANGED <<callbacks, reporter, up, sets, reports, noticed, calls, deaths, excuse>>
    BY DEF LookUp, service
  <2>2. thread' \in [Threads -> Calls] /\ twice' \subseteq Callbacks
    BY <1>1, <1>2 DEF MovesTo, LookUp, TypeOK
  <2>. QED BY <2>1, <2>2 DEF TypeOK
<1>5. CallInv'
  BY <1>1, <1>2, <1>3 DEF CallInv, pc, MovesTo, LookUp, service, history
<1>6. StartingInv'
  BY <1>1, <1>2, <1>3 DEF StartingInv, Starting, pc, MovesTo, LookUp, service, history
<1>7. CleanInv'
  <2>. SUFFICES ASSUME NEW k \in Handles, Clean(k)'
                PROVE  CleanAt(k)'
    BY DEF CleanInv
  <2>1. Clean(k) /\ CleanAt(k) /\ sets'[k] = sets[k]
    BY <1>1 DEF CleanInv, Clean, LookUp, service
  <2>. QED BY <1>1, <1>2, <1>3, <2>1 DEF CleanAt, Entered, pc, MovesTo, LookUp, service
<1>8. OneHandlePerCallback'
  BY <1>1, <1>2, <1>3 DEF OneHandlePerCallback, MovesTo, LookUp, service, history
<1>. QED BY <1>4, <1>5, <1>6, <1>7, <1>8

\* The service has given a handle.
LEMMA HandleGiven ==
  ASSUME IInv, NEW t \in Threads, pc(t) = "getHandle", NEW h \in FreeHandles,
         sets' = [sets EXCEPT ![h] = thread[t].callback],
         thread' = [thread EXCEPT ![t].pc = "register", ![t].handle = h],
         excuse' = [excuse EXCEPT ![h] = Excuses(h)],
         UNCHANGED <<callbacks, reporter, up, reports, noticed, calls, deaths, twice>>
  PROVE  IInv'
<1>. USE HandlesAreNumbers DEF IInv
<1>1. h \in Handles /\ sets[h] = NoCallback
  BY DEF FreeHandles
<1>2. MovesTo(t, "register", thread[t].callback, h) /\ thread[t].callback \in Callbacks
  BY <1>1, HandleEffect DEF CallInv, Pcs
<1>3. /\ sets'[h] = thread[t].callback /\ excuse'[h] = Excuses(h)
      /\ \A k \in Handles : k # h => sets'[k] = sets[k] /\ excuse'[k] = excuse[k]
      /\ sets' \in [Handles -> Callbacks \cup {NoCallback}]
      /\ excuse' \in [Handles -> SUBSET Reasons]
  <2>1. Excuses(h) \subseteq Reasons
    BY DEF Excuses, Reasons
  <2>. QED BY <1>1, <1>2, <2>1 DEF TypeOK
<1>4. \A k : OnlyStarted(k)' <=> OnlyStarted(k)
  BY ReportsAreKept
<1>5. TypeOK'
  BY <1>2, <1>3 DEF TypeOK, MovesTo
<1>6. CallInv'
  BY <1>1, <1>2 DEF CallInv, pc, MovesTo
<1>7. StartingInv'
  BY <1>2 DEF StartingInv, Starting, pc, MovesTo
<1>8. CleanInv'
  <2>. SUFFICES ASSUME NEW k \in Handles, Clean(k)'
                PROVE  CleanAt(k)'
    BY DEF CleanInv
  <2>1. CASE k = h
    <3>1. /\ noticed /\ reporter = NoCallback /\ OnlyStarted(h)
          /\ \A u \in Threads : thread[u].handle # h /\ pc(u) # "closeDereg"
      BY <2>1, <1>3, NoExcuse DEF Clean
    <3>2. reporter' # sets'[h]
      BY <2>1, <3>1 DEF Clean
    <3>. QED BY <2>1, <3>1, <3>2, <1>2, <1>3, <1>4 DEF CleanAt, pc, MovesTo
  <2>2. CASE k # h
    <3>1. Clean(k) /\ CleanAt(k) /\ sets'[k] = sets[k]
      BY <2>2, <1>3 DEF Clean, CleanInv
    <3>. QED BY <2>2, <3>1, <1>2, <1>4 DEF CleanAt, Entered, pc, MovesTo
  <2>. QED BY <2>1, <2>2
<1>9. OneHandlePerCallback'
  BY DEF OneHandlePerCallback
<1>. QED BY <1>5, <1>6, <1>7, <1>8, <1>9

LEMMA HandleRefused ==
  ASSUME IInv, NEW t \in Threads, pc(t) = "getHandle", Return(t),
         UNCHANGED <<callbacks, reporter, sets, up, reports, noticed, calls, deaths,
                     excuse, twice>>
  PROVE  IInv'
<1>. USE HandlesAreNumbers DEF IInv
<1>1. MovesTo(t, "idle", NoCallback, Invalid)
  BY ReturnEffect
<1>2. \A k : OnlyStarted(k)' <=> OnlyStarted(k)
  BY ReportsAreKept
<1>3. TypeOK'
  BY <1>1 DEF TypeOK, MovesTo
<1>4. CallInv'
  BY <1>1 DEF CallInv, pc, MovesTo
<1>5. StartingInv'
  BY <1>1 DEF StartingInv, Starting, pc, MovesTo
<1>6. CleanInv'
  <2>. SUFFICES ASSUME NEW k \in Handles, Clean(k)'
                PROVE  CleanAt(k)'
    BY DEF CleanInv
  <2>1. Clean(k) /\ CleanAt(k)
    BY DEF CleanInv, Clean
  <2>. QED BY <1>1, <1>2, <2>1 DEF CleanAt, Entered, pc, MovesTo
<1>7. OneHandlePerCallback'
  BY DEF OneHandlePerCallback
<1>. QED BY <1>3, <1>4, <1>5, <1>6, <1>7

LEMMA GetHandleStep ==
  ASSUME IInv, NEW t \in Threads, GetHandle(t)
  PROVE  IInv'
<1>1. CASE Return(t) /\ UNCHANGED <<sets, excuse>>
  BY <1>1, HandleRefused DEF GetHandle
<1>2. CASE ~(Return(t) /\ UNCHANGED <<sets, excuse>>)
  <2>1. Min(FreeHandles) \in FreeHandles
    <3>1. FreeHandles \in SUBSET Nat /\ FreeHandles # {}
      BY <1>2, HandlesAreNumbers DEF GetHandle, FreeHandles
    <3>. QED BY <3>1, MinIsMember
  <2>. QED BY <1>2, <2>1, HandleGiven DEF GetHandle
<1>. QED BY <1>1, <1>2

LEMMA RegisterCallbackStep ==
  ASSUME IInv, NEW t \in Threads, RegisterCallback(t)
  PROVE  IInv'
<1>. USE HandlesAreNumbers DEF IInv
<1>1. /\ thread[t].handle \in Handles /\ thread[t].callback \in Callbacks
      /\ pc(t) = "register"
      /\ MovesTo(t, "start", thread[t].callback, thread[t].handle)
  BY GotoEffect DEF RegisterCallback, CallInv, Pcs
<1>2. /\ DOMAIN callbacks' = DOMAIN callbacks \cup {thread[t].handle}
      /\ callbacks'[thread[t].handle] = thread[t].callback
      /\ \A k \in DOMAIN callbacks : k # thread[t].handle => callbacks'[k] = callbacks[k]
      /\ DOMAIN callbacks' \subseteq Handles
      /\ callbacks' \in [DOMAIN callbacks' -> Callbacks]
  BY <1>1, RegisterEffect DEF RegisterCallback
<1>3. \A k : OnlyStarted(k)' <=> OnlyStarted(k)
  BY ReportsAreKept DEF RegisterCallback, service, history
<1>4. TypeOK'
  <2>1. UNCHANGED <<reporter, up, sets, reports, noticed, calls, deaths, excuse, twice>>
    BY DEF RegisterCallback, service, history
  <2>. QED BY <1>1, <1>2, <2>1 DEF TypeOK, MovesTo
<1>5. CallInv'
  BY <1>1, <1>2, <1>3 DEF CallInv, pc, MovesTo, RegisterCallback, service, history
<1>6. StartingInv'
  BY <1>1, <1>2 DEF StartingInv, Starting, pc, MovesTo, RegisterCallback, history
<1>7. CleanInv'
  <2>. SUFFICES ASSUME NEW k \in Handles, Clean(k)'
                PROVE  CleanAt(k)'
    BY DEF CleanInv
  <2>1. Clean(k) /\ CleanAt(k) /\ sets'[k] = sets[k]
    BY DEF CleanInv, Clean, RegisterCallback, service, history
  <2>2. k = thread[t].handle => callbacks'[k] = sets[k]
    BY <1>1, <1>2, <2>1 DEF CleanAt
  <2>. QED BY <1>1, <1>2, <1>3, <2>1, <2>2 DEF CleanAt, Entered, pc, MovesTo,
       RegisterCallback, service, history
<1>8. OneHandlePerCallback'
  BY <1>1, <1>2 DEF OneHandlePerCallback, StartingInv, Starting, RegisterCallback, history
<1>. QED BY <1>4, <1>5, <1>6, <1>7, <1>8

LEMMA StartSetStep ==
  ASSUME IInv, NEW t \in Threads, StartSet(t)
  PROVE  IInv'
<1>. USE HandlesAreNumbers DEF IInv
<1>1. /\ thread[t].handle \in Handles /\ pc(t) = "start"
      /\ MovesTo(t, "idle", NoCallback, Invalid)
  BY ReturnEffect DEF StartSet, CallInv
<1>2. /\ sets' \in [Handles -> Callbacks \cup {NoCallback}] /\ reports' \in Seq(Reports)
      /\ excuse' \in [Handles -> SUBSET Reasons]
      /\ \A k \in Handles : Clean(k)' =>
           Clean(k) /\ sets'[k] = sets[k] /\ (OnlyStarted(k) => OnlyStarted(k)')
  <2>. DEFINE h == thread[t].handle
  <2>. HIDE DEF h
  <2>0. h \in Handles
    BY <1>1 DEF h
  <2>1. CASE Report("started", h) /\ UNCHANGED <<sets, excuse, twice>>
    <3>1. reports' \in Seq(Reports) /\ \A k : OnlyStarted(k) => OnlyStarted(k)'
      BY <2>0, <2>1, ReportEffect DEF Kinds
    <3>. QED BY <2>1, <3>1 DEF Clean, TypeOK
  <2>2. CASE /\ Report("startFailed", h) /\ UNCHANGED <<excuse, twice>>
             /\ sets' = [sets EXCEPT ![h] = NoCallback]
    <3>1. reports' \in Seq(Reports) /\ \A k : OnlyStarted(k) /\ k # h => OnlyStarted(k)'
      BY <2>0, <2>2, ReportEffect DEF Kinds
    <3>2. /\ sets' \in [Handles -> Callbacks \cup {NoCallback}]
          /\ \A k \in Handles : sets'[k] = IF k = h THEN NoCallback ELSE sets[k]
      BY <2>0, <2>2 DEF TypeOK
    <3>. QED BY <2>2, <3>1, <3>2 DEF Clean, TypeOK
  <2>3. CASE UNCHANGED <<sets, reports, excuse, twice>>
    BY <2>3, ReportsAreKept DEF Clean, TypeOK
  <2>. QED BY <2>1, <2>2, <2>3 DEF StartSet, h, history
<1>3. TypeOK'
  <2>1. UNCHANGED <<callbacks, reporter, up, noticed, calls, deaths, twice>>
    BY DEF StartSet, history
  <2>. QED BY <1>1, <1>2, <2>1 DEF TypeOK, MovesTo
<1>4. CallInv'
  BY <1>1, <1>2 DEF CallInv, pc, MovesTo, StartSet, service, history
<1>5. StartingInv'
  BY <1>1, <1>2 DEF StartingInv, Starting, pc, MovesTo, StartSet, service, history
<1>6. CleanInv'
  <2>. SUFFICES ASSUME NEW k \in Handles, Clean(k)'
                PROVE  CleanAt(k)'
    BY DEF CleanInv
  <2>1. Clean(k) /\ CleanAt(k) /\ sets'[k] = sets[k] /\ OnlyStarted(k)'
    BY <1>2 DEF CleanInv, CleanAt
  <2>. QED BY <1>1, <2>1 DEF CleanAt, Entered, pc, MovesTo, StartSet
<1>7. OneHandlePerCallback'
  BY DEF OneHandlePerCallback, StartSet, history
<1>. QED BY <1>3, <1>4, <1>5, <1>6, <1>7

LEMMA StopSetStep ==
  ASSUME IInv, NEW t \in Threads, StopSet(t)
  PROVE  IInv'
<1>. USE HandlesAreNumbers DEF IInv
<1>1. /\ thread[t].handle \in Handles /\ pc(t) = "stop"
      /\ MovesTo(t, "idle", NoCallback, Invalid)
  BY ReturnEffect DEF StopSet, CallInv
<1>2. /\ sets' \in [Handles -> Callbacks \cup {NoCallback}] /\ reports' \in Seq(Reports)
      /\ excuse' \in [Handles -> SUBSET Reasons]
      /\ \A k \in Handles : Clean(k)' =>
           Clean(k) /\ sets'[k] = sets[k] /\ (OnlyStarted(k) => OnlyStarted(k)')
  <2>. DEFINE h == thread[t].handle
  <2>. HIDE DEF h
  <2>0. h \in Handles
    BY <1>1 DEF h
  <2>1. CASE UNCHANGED <<sets, reports, excuse, twice>>
    BY <2>1, ReportsAreKept DEF Clean, TypeOK
  <2>2. CASE /\ Report("stopped", h) /\ UNCHANGED <<excuse, twice>>
             /\ sets' = [sets EXCEPT ![h] = NoCallback]
    <3>1. reports' \in Seq(Reports) /\ \A k : OnlyStarted(k) /\ k # h => OnlyStarted(k)'
      BY <2>0, <2>2, ReportEffect DEF Kinds
    <3>2. /\ sets' \in [Handles -> Callbacks \cup {NoCallback}]
          /\ \A k \in Handles : sets'[k] = IF k = h THEN NoCallback ELSE sets[k]
      BY <2>0, <2>2 DEF TypeOK
    <3>. QED BY <2>2, <3>1, <3>2 DEF Clean, TypeOK
  <2>3. CASE /\ Report("stopped", h) /\ UNCHANGED <<sets, twice>>
             /\ excuse' = [excuse EXCEPT ![h] = @ \cup {"stop"}]
    <3>1. reports' \in Seq(Reports) /\ \A k : OnlyStarted(k) /\ k # h => OnlyStarted(k)'
      BY <2>0, <2>3, ReportEffect DEF Kinds
    <3>2. /\ excuse' \in [Handles -> SUBSET Reasons] /\ excuse'[h] # {}
          /\ \A k \in Handles : k # h => excuse'[k] = excuse[k]
      BY <2>0, <2>3 DEF TypeOK, Reasons
    <3>. QED BY <2>3, <3>1, <3>2 DEF Clean, TypeOK
  <2>. QED BY <2>1, <2>2, <2>3 DEF StopSet, h
<1>3. TypeOK'
  <2>1. UNCHANGED <<callbacks, reporter, up, noticed, calls, deaths, twice>>
    BY DEF StopSet, history
  <2>. QED BY <1>1, <1>2, <2>1 DEF TypeOK, MovesTo
<1>4. CallInv'
  BY <1>1, <1>2 DEF CallInv, pc, MovesTo, StopSet, service, history
<1>5. StartingInv'
  BY <1>1, <1>2 DEF StartingInv, Starting, pc, MovesTo, StopSet, service, history
<1>6. CleanInv'
  <2>. SUFFICES ASSUME NEW k \in Handles, Clean(k)'
                PROVE  CleanAt(k)'
    BY DEF CleanInv
  <2>1. Clean(k) /\ CleanAt(k) /\ sets'[k] = sets[k] /\ OnlyStarted(k)'
    BY <1>2 DEF CleanInv, CleanAt
  <2>. QED BY <1>1, <2>1 DEF CleanAt, Entered, pc, MovesTo, StopSet
<1>7. OneHandlePerCallback'
  BY DEF OneHandlePerCallback, StopSet, history
<1>. QED BY <1>3, <1>4, <1>5, <1>6, <1>7

LEMMA CloseSetStep ==
  ASSUME IInv, NEW t \in Threads, CloseSet(t)
  PROVE  IInv'
<1>. USE HandlesAreNumbers DEF IInv
<1>1. /\ MovesTo(t, "closeGet", thread[t].callback, thread[t].handle)
      /\ thread[t].handle \in Handles
  BY GotoEffect DEF CloseSet, CallInv, Pcs
<1>2. \A k : OnlyStarted(k)' <=> OnlyStarted(k)
  BY ReportsAreKept DEF CloseSet, service, history
<1>3. TypeOK'
  BY <1>1, <1>2 DEF TypeOK, MovesTo, CloseSet, service, history
<1>4. CallInv'
  BY <1>1, <1>2 DEF CallInv, pc, MovesTo, CloseSet, service, history
<1>5. StartingInv'
  BY <1>1, <1>2 DEF StartingInv, Starting, pc, MovesTo, CloseSet, service, history
<1>6. CleanInv'
  <2>. SUFFICES ASSUME NEW k \in Handles, Clean(k)'
                PROVE  CleanAt(k)'
    BY DEF CleanInv
  <2>1. k # thread[t].handle /\ Clean(k) /\ CleanAt(k) /\ sets'[k] = sets[k]
    BY <1>1 DEF CleanInv, Clean, CloseSet, TypeOK, history
  <2>. QED BY <1>1, <1>2, <2>1 DEF CleanAt, Entered, pc, MovesTo, CloseSet
<1>7. OneHandlePerCallback'
  BY <1>1, <1>2 DEF OneHandlePerCallback, MovesTo, CloseSet, service, history
<1>. QED BY <1>3, <1>4, <1>5, <1>6, <1>7

LEMMA CloseGetStep ==
  ASSUME IInv, NEW t \in Threads, CloseGet(t)
  PROVE  IInv'
<1>. USE HandlesAreNumbers DEF IInv
<1>1. /\ thread[t].handle \in Handles /\ pc(t) = "closeGet"
      /\ \/ MovesTo(t, "idle", NoCallback, Invalid)
         \/ /\ thread[t].handle \in DOMAIN callbacks
            /\ MovesTo(t, "closeDereg", callbacks[thread[t].handle], thread[t].handle)
            /\ callbacks[thread[t].handle] \in Callbacks
  <2>. DEFINE h == thread[t].handle
               c == GetAdvertiserObserver(h)
  <2>1. h \in Handles /\ pc(t) = "closeGet"
    BY DEF CloseGet, CallInv
  <2>2. CASE c = NoCallback
    <3>1. Return(t)
      BY <2>2 DEF CloseGet, Return
    <3>. QED BY <2>1, <3>1, ReturnEffect
  <2>3. CASE c # NoCallback
    <3>1. h \in DOMAIN callbacks /\ c = callbacks[h] /\ c \in Callbacks
      BY <2>3 DEF GetAdvertiserObserver, TypeOK
    <3>2. thread' = [thread EXCEPT ![t] = [@ EXCEPT !.pc = "closeDereg", !.callback = c]]
      BY <2>3 DEF CloseGet
    <3>3. MovesTo(t, "closeDereg", c, thread[t].handle)
      <4>. HIDE DEF c
      <4>. QED BY <3>1, <3>2, CloseEffect
    <3>. QED BY <2>1, <3>1, <3>3
  <2>. QED BY <2>2, <2>3
<1>2. \A k : OnlyStarted(k)' <=> OnlyStarted(k)
  BY ReportsAreKept DEF CloseGet, service, history
<1>3. TypeOK'
  BY <1>1, <1>2 DEF TypeOK, MovesTo, CloseGet, service, history
<1>4. CallInv'
  BY <1>1, <1>2 DEF CallInv, pc, MovesTo, CloseGet, service, history
<1>5. StartingInv'
  BY <1>1, <1>2 DEF StartingInv, Starting, pc, MovesTo, CloseGet, service, history
<1>6. CleanInv'
  <2>. SUFFICES ASSUME NEW k \in Handles, Clean(k)'
                PROVE  CleanAt(k)'
    BY DEF CleanInv
  <2>1. Clean(k) /\ CleanAt(k) /\ sets'[k] = sets[k]
    BY DEF CleanInv, Clean, CloseGet, service, history
  <2>2. thread[t].handle \in DOMAIN callbacks => callbacks[thread[t].handle] # sets[k]
    BY <1>1, <2>1, CleanIsAlone DEF CleanAt
  <2>. QED BY <1>1, <1>2, <2>1, <2>2 DEF CleanAt, Entered, pc, MovesTo, CloseGet, service,
       history
<1>7. OneHandlePerCallback'
  BY <1>1, <1>2 DEF OneHandlePerCallback, MovesTo, CloseGet, service, history
<1>. QED BY <1>3, <1>4, <1>5, <1>6, <1>7

LEMMA CloseDeregisterStep ==
  ASSUME IInv, NEW t \in Threads, CloseDeregister(t)
  PROVE  IInv'
<1>. USE HandlesAreNumbers DEF IInv
<1>1. /\ Loses(GetAdvertiserHandle(thread[t].callback))
      /\ \A h \in DOMAIN callbacks :
           callbacks[h] # thread[t].callback => h \in DOMAIN callbacks'
  BY DeregisterEffect DEF CloseDeregister
<1>2. MovesTo(t, "idle", NoCallback, Invalid)
  BY ReturnEffect DEF CloseDeregister
<1>3. \A k : OnlyStarted(k)' <=> OnlyStarted(k)
  BY ReportsAreKept DEF CloseDeregister, service, history
<1>4. TypeOK'
  <2>1. UNCHANGED <<reporter, up, sets, reports, noticed, calls, deaths, excuse, twice>>
    BY DEF CloseDeregister, service, history
  <2>2. /\ DOMAIN callbacks' \subseteq Handles
        /\ callbacks' \in [DOMAIN callbacks' -> Callbacks]
    BY <1>1 DEF Loses, TypeOK
  <2>. QED BY <2>1, <2>2, <1>2 DEF TypeOK, MovesTo
<1>5. CallInv'
  BY <1>1, <1>2, <1>3 DEF CallInv, pc, MovesTo, CloseDeregister, service, history
<1>6. StartingInv'
  BY <1>1, <1>2, <1>3 DEF StartingInv, Starting, pc, Loses, MovesTo, CloseDeregister,
       service, history
<1>7. CleanInv'
  <2>. SUFFICES ASSUME NEW k \in Handles, Clean(k)'
                PROVE  CleanAt(k)'
    BY DEF CleanInv
  <2>1. Clean(k) /\ CleanAt(k) /\ sets'[k] = sets[k]
    BY DEF CleanInv, Clean, CloseDeregister, service, history
  <2>2. Entered(k) => k \in DOMAIN callbacks' /\ callbacks'[k] = sets[k]
    BY <1>1, <2>1 DEF Entered, CleanAt, Loses, CloseDeregister
  <2>. QED BY <1>1, <1>2, <1>3, <2>1, <2>2 DEF Clean, CleanAt, Entered, pc, MovesTo,
       CloseDeregister, service, history
<1>8. OneHandlePerCallback'
  BY <1>1 DEF OneHandlePerCallback, Loses, CloseDeregister, service, history
<1>. QED BY <1>4, <1>5, <1>6, <1>7, <1>8

LEMMA OnReportStep ==
  ASSUME IInv, OnReport
  PROVE  IInv'
<1>. USE HandlesAreNumbers DEF IInv
<1>1. /\ reports' \in Seq(Reports)
      /\ Head(reports).handle \in Handles /\ Head(reports).kind \in Kinds
      /\ \A k : OnlyStarted(k) => OnlyStarted(k)'
      /\ \A k : OnlyStarted(k) /\ k = Head(reports).handle =>
           Head(reports).kind = "started"
  BY ReportTaken DEF OnReport
<1>2. \/ UNCHANGED <<callbacks, reporter>>
      \/ /\ Loses(Head(reports).handle) /\ Head(reports).kind # "started"
         /\ UNCHANGED reporter
      \/ /\ Head(reports).handle \in DOMAIN callbacks /\ Head(reports).kind # "started"
         /\ reporter' = callbacks[Head(reports).handle]
         /\ UNCHANGED callbacks
  <2>1. CASE Head(reports).kind = "started"
    BY <2>1 DEF OnReport
  <2>2. CASE Head(reports).kind \in {"startFailed", "stopped"}
    BY <2>2, PopEffect DEF OnReport
  <2>3. CASE Head(reports).kind = "autoStop"
    BY <2>3 DEF OnReport, GetAdvertiserObserver
  <2>. QED BY <1>1, <2>1, <2>2, <2>3 DEF Kinds
<1>3. UNCHANGED <<thread, up, sets, noticed, calls, deaths, excuse, twice>>
  BY DEF OnReport, service, history
<1>4. TypeOK'
  <2>1. /\ DOMAIN callbacks' \subseteq Handles
        /\ callbacks' \in [DOMAIN callbacks' -> Callbacks]
        /\ reporter' \in Callbacks \cup {NoCallback}
    BY <1>2 DEF Loses, TypeOK
  <2>. QED BY <1>1, <1>3, <2>1 DEF TypeOK
<1>5. CallInv'
  BY <1>3 DEF CallInv, pc
<1>6. StartingInv'
  BY <1>2, <1>3 DEF StartingInv, Starting, pc, Loses
<1>7. CleanInv'
  <2>. SUFFICES ASSUME NEW k \in Handles, Clean(k)'
                PROVE  CleanAt(k)'
    BY DEF CleanInv
  <2>1. Clean(k) /\ CleanAt(k) /\ sets'[k] = sets[k]
    BY <1>3 DEF CleanInv, Clean
  <2>2. Head(reports).kind # "started" => Head(reports).handle # k
    BY <1>1, <2>1 DEF CleanAt
  <2>3. reporter' # sets[k]
    BY <1>2, <2>1, <2>2, CleanIsAlone DEF CleanAt
  <2>4. Entered(k) => Entered(k)'
    BY <1>2, <1>3, <2>2 DEF Entered, Loses
  <2>. QED BY <1>1, <1>3, <2>1, <2>3, <2>4 DEF CleanAt, pc
<1>8. OneHandlePerCallback'
  BY <1>2, <1>3 DEF OneHandlePerCallback, Loses
<1>. QED BY <1>4, <1>5, <1>6, <1>7, <1>8

LEMMA AutoStopDeregisterStep ==
  ASSUME IInv, AutoStopDeregister
  PROVE  IInv'
<1>. USE HandlesAreNumbers DEF IInv
<1>1. /\ Loses(GetAdvertiserHandle(reporter))
      /\ \A h \in DOMAIN callbacks : callbacks[h] # reporter => h \in DOMAIN callbacks'
  BY DeregisterEffect DEF AutoStopDeregister
<1>2. \A k : OnlyStarted(k)' <=> OnlyStarted(k)
  BY ReportsAreKept DEF AutoStopDeregister, service, history
<1>3. TypeOK'
  <2>1. UNCHANGED <<thread, up, sets, reports, noticed, calls, deaths, excuse, twice>>
    BY DEF AutoStopDeregister, service, history
  <2>2. /\ DOMAIN callbacks' \subseteq Handles
        /\ callbacks' \in [DOMAIN callbacks' -> Callbacks]
    BY <1>1 DEF Loses, TypeOK
  <2>3. reporter' = NoCallback
    BY DEF AutoStopDeregister
  <2>. QED BY <2>1, <2>2, <2>3 DEF TypeOK
<1>4. CallInv'
  BY <1>1, <1>2 DEF CallInv, pc, AutoStopDeregister, service, history
<1>5. StartingInv'
  BY <1>1, <1>2 DEF StartingInv, Starting, pc, Loses, AutoStopDeregister, service, history
<1>6. CleanInv'
  <2>. SUFFICES ASSUME NEW k \in Handles, Clean(k)'
                PROVE  CleanAt(k)'
    BY DEF CleanInv
  <2>1. Clean(k) /\ CleanAt(k) /\ sets'[k] = sets[k]
    BY DEF CleanInv, Clean, AutoStopDeregister, service, history
  <2>2. Entered(k) => k \in DOMAIN callbacks' /\ callbacks'[k] = sets[k]
    BY <1>1, <2>1 DEF Entered, CleanAt, Loses, AutoStopDeregister
  <2>. QED BY <1>1, <1>2, <2>1, <2>2 DEF Clean, CleanAt, Entered, pc, AutoStopDeregister,
       service, history
<1>7. OneHandlePerCallback'
  BY <1>1 DEF OneHandlePerCallback, Loses, AutoStopDeregister, service, history
<1>. QED BY <1>3, <1>4, <1>5, <1>6, <1>7

-----------------------------------------------------------------------------
(***************************************************************************)
(* The theorems                                                            *)
(***************************************************************************)
LEMMA InitEstablishes == Init => IInv
<1>. SUFFICES ASSUME Init
              PROVE  IInv
  OBVIOUS
<1>. USE HandlesAreNumbers DEF Init
<1>1. DOMAIN callbacks = {} /\ callbacks \in [{} -> Callbacks]
  OBVIOUS
<1>2. TypeOK
  <2>1. Idle \in Calls
    BY DEF Idle, Calls, Pcs
  <2>2. thread \in [Threads -> Calls]
    BY <2>1
  <2>3. /\ sets \in [Handles -> Callbacks \cup {NoCallback}] /\ reports \in Seq(Reports)
        /\ excuse \in [Handles -> SUBSET Reasons]
    OBVIOUS
  <2>. QED BY <1>1, <2>2, <2>3 DEF TypeOK
<1>3. \A t \in Threads : pc(t) = "idle"
  BY DEF pc, Idle
<1>4. CallInv /\ StartingInv
  BY <1>3 DEF CallInv, StartingInv, Starting
<1>5. CleanInv /\ OneHandlePerCallback
  BY <1>1 DEF CleanInv, Clean, OneHandlePerCallback
<1>. QED BY <1>2, <1>4, <1>5 DEF IInv

LEMMA StutterStep ==
  ASSUME IInv, UNCHANGED vars
  PROVE  IInv'
<1>. USE DEF IInv, vars, service, history
<1>1. TypeOK' /\ CallInv' /\ StartingInv' /\ OneHandlePerCallback'
  BY DEF TypeOK, CallInv, StartingInv, Starting, OneHandlePerCallback, pc
<1>2. \A k : OnlyStarted(k)' <=> OnlyStarted(k)
  BY ReportsAreKept
<1>3. CleanInv'
  BY <1>2 DEF CleanInv, CleanAt, Clean, Entered, pc
<1>. QED BY <1>1, <1>3

LEMMA NextPreserves == IInv /\ [Next]_vars => IInv'
<1>. SUFFICES ASSUME IInv, [Next]_vars
              PROVE  IInv'
  OBVIOUS
<1>1. CASE \E t \in Threads : Step(t)
  BY <1>1, LookUpStep, GetHandleStep, RegisterCallbackStep, StartSetStep, StopSetStep,
       CloseSetStep, CloseGetStep, CloseDeregisterStep DEF Step
<1>2. CASE \E t \in Threads : \E c \in Callbacks :
             StartAdvertising(t, c) \/ StopAdvertising(t, c) \/ Close(t, c)
  BY <1>2, StartAdvertisingStep, StopAdvertisingStep, CloseStep
<1>3. CASE OnReport \/ AutoStopDeregister
  BY <1>3, OnReportStep, AutoStopDeregisterStep
<1>4. CASE ServiceStarts \/ ServiceDies \/ OnRemoteDied
  BY <1>4, ServiceStartsStep, ServiceDiesStep, OnRemoteDiedStep
<1>5. CASE \E h \in Handles : AutoStop(h)
  BY <1>5, AutoStopStep
<1>6. CASE UNCHANGED vars
  BY <1>6, StutterStep
<1>. QED BY <1>1, <1>2, <1>3, <1>4, <1>5, <1>6 DEF Next

\* The inductive invariant holds in every behaviour of the advertiser.
THEOREM Invariance == Spec => []IInv
BY InitEstablishes, NextPreserves, PTL DEF Spec

(***************************************************************************)
(* callbacks_ keeps the handle of every advertising set, or a              *)
(* StartAdvertising is about to put it there, unless what was under way    *)
(* when the service gave the handle out took it away.                      *)
(***************************************************************************)
THEOREM SetsStayReachable == Spec => []SetsCanBeStopped
<1>1. IInv => SetsCanBeStopped
  BY DEF IInv, SetsCanBeStopped, CleanInv, CleanAt, Clean, Entered, GetAdvertiserObserver
<1>. QED BY <1>1, Invariance, PTL

(***************************************************************************)
(* callbacks_ has at most one handle for a callback, unless two            *)
(* StartAdvertising calls looked it up before either registered it.        *)
(***************************************************************************)
THEOREM HandlesAreNotDoubled == Spec => []OneHandlePerCallback
<1>1. IInv => OneHandlePerCallback
  BY DEF IInv
<1>. QED BY <1>1, Invariance, PTL

=============================================================================
