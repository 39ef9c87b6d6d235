------------------------------ MODULE OhosBtProofs ------------------------------
(***************************************************************************)
(* Proofs about two parts of the C interface: advertising (OhosBtGattAdv)  *)
(* and the sockets it hands out by id (BluetoothSocket).  The parts share  *)
(* nothing but this module and the lemma on least members.                 *)
(*                                                                         *)
(* Advertising, for every size of the table, every number of starts and    *)
(* deaths and every choice of the starts that give an address of their     *)
(* own.  The invariants that the runs check speak of sets that the service *)
(* keeps.  Why they hold is decided earlier: while the start task of an    *)
(* advertisement is queued, the table must keep its object, nothing may    *)
(* have been reported about it, and its timer must run or a stop be queued *)
(* behind the start.  StartInv and TimedInv say so.                        *)
(*                                                                         *)
(* Sockets, for every number of threads, sockets, descriptors, ids and     *)
(* calls.  See SocketInv below.                                            *)
(***************************************************************************)
EXTENDS OhosBtGattAdv, BluetoothSocket, WellFoundedInduction, TLAPS

-----------------------------------------------------------------------------
(***************************************************************************)
(* Least members, for the lowest free advId and the lowest free descriptor *)
(***************************************************************************)
LEMMA LeastMember ==
  ASSUME NEW S \in SUBSET Nat, S # {}
  PROVE  \E x \in S : \A y \in S : x <= y
<1>1. PICK x \in S : \A y \in S : ~(<<y, x>> \in OpToRel(<, Nat))
  BY NatLessThanWellFounded, WFMin
<1>2. ASSUME NEW y \in S
      PROVE  x <= y
  <2>1. y \in Nat /\ x \in Nat
    OBVIOUS
  <2>2. <<y, x>> \in Nat \X Nat /\ <<y, x>>[1] = y /\ <<y, x>>[2] = x
    BY <2>1
  <2>3. ~(y < x)
    BY <1>1, <2>2 DEF OpToRel
  <2>. QED BY <2>1, <2>3
<1>. QED BY <1>2

LEMMA MinIsMember ==
  ASSUME NEW S \in SUBSET Nat, S # {}
  PROVE  Min(S) \in S
BY LeastMember DEF Min

-----------------------------------------------------------------------------
(***************************************************************************)
(* Advertising.                                                            *)
(***************************************************************************)
Tasks == [kind : {"start", "stop"}, advId : AdvIds, object : Objects]

Reports == [kind : {"stopped", "startFailed"}, object : Objects]

TypeOK ==
  /\ slots \in [AdvIds -> Objects \cup {None}]
  /\ timerIds \in [AdvIds -> Objects \cup {None}]
  /\ wanted \in [AdvIds -> Objects \cup {None}]
  /\ advertiser \in BOOLEAN /\ up \in BOOLEAN
  /\ advIds \in Seq(AdvIds) /\ Len(advIds) <= MaxStarts
  /\ queue \in Seq(Tasks) /\ reports \in Seq(Reports)
  /\ reporter \in [pc : {"idle", "clear", "timer"}, object : Objects \cup {None}]
  /\ timers \subseteq Objects /\ fired \subseteq Objects
  /\ registered \subseteq Objects /\ sets \subseteq Objects
  /\ untracked \subseteq Objects /\ untimed \subseteq Objects
  /\ notices \subseteq {"remoteDied", "clearGlobal"} /\ deaths \in Nat
  /\ crashed \in Objects \cup {None}

\* The objects that were made.
Made == 1 .. Len(advIds)

\* A start task for o, and one that no stop of o's advId follows.
StartAt(n, o) == queue[n].kind = "start" /\ queue[n].object = o

StopAt(n, o) == queue[n].kind = "stop" /\ queue[n].advId = advIds[o]

StartPending(o) == \E n \in 1 .. Len(queue) : StartAt(n, o)

StopPending(o) == \E n \in 1 .. Len(queue) : StopAt(n, o)

StartUnstopped(o) ==
  \E m \in 1 .. Len(queue) :
    StartAt(m, o) /\ \A n \in 1 .. Len(queue) : m < n => ~StopAt(n, o)

ReportPending(o) ==
  \/ \E n \in 1 .. Len(reports) : reports[n].object = o
  \/ reporter.pc # "idle" /\ reporter.object = o

\* Only objects that were made are named anywhere.
MadeInv ==
  /\ timers \cup fired \cup registered \cup sets \subseteq Made
  /\ \A o \in Objects : StartPending(o) \/ ReportPending(o) => o \in Made
  /\ reporter.pc # "idle" => reporter.object \in Made

\* A slot and the timer noted for an advId belong to an object of that advId,
\* and a start task names the advId of its object.
AdvIdInv ==
  /\ \A i \in AdvIds : slots[i] # None => slots[i] \in Made /\ advIds[slots[i]] = i
  /\ \A i \in AdvIds : timerIds[i] # None => timerIds[i] \in Made /\ advIds[timerIds[i]] = i
  /\ \A n \in 1 .. Len(queue) :
       queue[n].kind = "start" => queue[n].advId = advIds[queue[n].object]

\* Without an advertiser the table is empty, and a dead service keeps no set.
EmptyInv ==
  /\ ~advertiser => \A i \in AdvIds : slots[i] = None
  /\ ~up => sets = {}

\* An object is started once.
OnceInv ==
  \A o \in Objects :
    \A m, n \in 1 .. Len(queue) : StartAt(m, o) /\ StartAt(n, o) => m = n

\* Until that task has run, the table keeps the object and the service knows
\* nothing of it.
StartInv ==
  \A o \in Made :
    StartPending(o) =>
      \/ /\ slots[advIds[o]] = o
         /\ o \notin registered /\ o \notin sets
         /\ ~ReportPending(o)
      \/ o \in untracked

\* What the service reports about is no longer a set, or a stop of it failed.
ReportInv == \A o \in Made : ReportPending(o) => o \notin sets \/ o \in untracked

Timed(o) == o \in timers \/ o \in fired \/ o \in untracked \/ o \in untimed

\* The end of an addressed advertisement is arranged for from its start on.
TimedInv ==
  \A o \in Addressed \cap Made :
    /\ o \in sets => Timed(o) \/ StopPending(o)
    /\ StartUnstopped(o) => Timed(o)

IInv ==
  /\ TypeOK /\ MadeInv /\ AdvIdInv /\ EmptyInv /\ OnceInv /\ StartInv /\ ReportInv
  /\ SetsHaveAnAdvId /\ StartFindsAdvertiser /\ TimedInv

-----------------------------------------------------------------------------
(***************************************************************************)
(* What a step does to the queue of tasks                                  *)
(***************************************************************************)
LEMMA QueueIsKept ==
  ASSUME UNCHANGED <<queue, advIds>>
  PROVE  /\ \A o : /\ StartPending(o)' <=> StartPending(o)
                   /\ StopPending(o)' <=> StopPending(o)
                   /\ StartUnstopped(o)' <=> StartUnstopped(o)
         /\ OnceInv' <=> OnceInv
         /\ Made' = Made
BY DEF StartPending, StopPending, StartUnstopped, OnceInv, StartAt, StopAt, Made

LEMMA SubmitEffect ==
  ASSUME TypeOK, NEW kind \in {"start", "stop"}, NEW i \in AdvIds, NEW o \in Objects,
         Submit(kind, i, o)
  PROVE  /\ queue' \in Seq(Tasks)
         /\ Len(queue) \in Nat /\ Len(queue') = Len(queue) + 1
         /\ \A n \in 1 .. Len(queue) : queue'[n] = queue[n]
         /\ queue'[Len(queue) + 1].kind = kind
         /\ queue'[Len(queue) + 1].advId = i
         /\ queue'[Len(queue) + 1].object = o
<1>. DEFINE task == [kind |-> kind, advId |-> i, object |-> o]
<1>1. task \in Tasks /\ task.kind = kind /\ task.advId = i /\ task.object = o
  BY DEF Tasks
<1>2. queue \in Seq(Tasks) /\ queue' = Append(queue, task)
  BY DEF TypeOK, Submit
<1>. HIDE DEF task
<1>. QED BY <1>1, <1>2

LEMMA StopSubmitted ==
  ASSUME TypeOK, NEW i \in AdvIds, NEW o \in Objects, Submit("stop", i, o), UNCHANGED advIds
  PROVE  /\ queue' \in Seq(Tasks)
         /\ \A p : /\ StartPending(p)' <=> StartPending(p)
                   /\ StopPending(p)' <=> StopPending(p) \/ advIds[p] = i
                   /\ StartUnstopped(p)' => StartUnstopped(p) /\ advIds[p] # i
         /\ OnceInv => OnceInv'
         /\ AdvIdInv => \A n \in 1 .. Len(queue') : queue'[n].kind = "start" =>
                          queue'[n].advId = advIds[queue'[n].object]
         /\ Made' = Made
<1>0. PICK last : last = Len(queue) + 1
  OBVIOUS
<1>1. /\ queue' \in Seq(Tasks)
      /\ Len(queue) \in Nat /\ Len(queue') = last
      /\ \A n \in 1 .. Len(queue) : queue'[n] = queue[n]
      /\ queue'[last].kind = "stop" /\ queue'[last].advId = i
  BY <1>0, SubmitEffect
<1>2. /\ \A n \in 1 .. Len(queue) : n \in 1 .. Len(queue')
      /\ last \in 1 .. Len(queue')
      /\ \A n \in 1 .. Len(queue') : n \in 1 .. Len(queue) \/ n = last
      /\ \A n \in 1 .. Len(queue) : n < last
  BY <1>0, <1>1
<1>3. /\ \A p : \A n \in 1 .. Len(queue) : /\ StartAt(n, p)' <=> StartAt(n, p)
                                           /\ StopAt(n, p)' <=> StopAt(n, p)
      /\ \A p : ~StartAt(last, p)' /\ (StopAt(last, p)' <=> advIds[p] = i)
  BY <1>1 DEF StartAt, StopAt
<1>4. ASSUME NEW p
      PROVE  /\ StartPending(p)' <=> StartPending(p)
             /\ StopPending(p)' <=> StopPending(p) \/ advIds[p] = i
  BY <1>2, <1>3 DEF StartPending, StopPending
<1>5. ASSUME NEW p, StartUnstopped(p)'
      PROVE  StartUnstopped(p) /\ advIds[p] # i
  <2>1. PICK m \in 1 .. Len(queue') :
          StartAt(m, p)' /\ \A n \in 1 .. Len(queue') : m < n => ~StopAt(n, p)'
    BY <1>5 DEF StartUnstopped
  <2>2. m \in 1 .. Len(queue) /\ StartAt(m, p) /\ m < last
    BY <2>1, <1>2, <1>3
  <2>3. \A n \in 1 .. Len(queue) : m < n => ~StopAt(n, p)
    BY <2>1, <1>2, <1>3
  <2>. QED BY <2>1, <2>2, <2>3, <1>2, <1>3 DEF StartUnstopped
<1>6. OnceInv => OnceInv'
  BY <1>2, <1>3 DEF OnceInv
<1>7. AdvIdInv => \A n \in 1 .. Len(queue') : queue'[n].kind = "start" =>
                    queue'[n].advId = advIds[queue'[n].object]
  BY <1>1, <1>2 DEF AdvIdInv
<1>. QED BY <1>1, <1>4, <1>5, <1>6, <1>7 DEF Made

LEMMA StartSubmitted ==
  ASSUME TypeOK, MadeInv, NEW i \in AdvIds, Len(advIds) + 1 \in Objects,
         Submit("start", i, Len(advIds) + 1), advIds' = Append(advIds, i)
  PROVE  /\ queue' \in Seq(Tasks) /\ advIds' \in Seq(AdvIds)
         /\ Len(advIds') = Len(advIds) + 1 /\ advIds'[Len(advIds) + 1] = i
         /\ Made' = Made \cup {Len(advIds) + 1} /\ Len(advIds) + 1 \notin Made
         /\ \A p \in Made :
              /\ advIds'[p] = advIds[p]
              /\ StartPending(p)' <=> StartPending(p)
              /\ StopPending(p)' <=> StopPending(p)
              /\ StartUnstopped(p)' <=> StartUnstopped(p)
         /\ \A p \in Objects : StartPending(p)' => p \in Made'
         /\ OnceInv => OnceInv'
         /\ AdvIdInv => \A n \in 1 .. Len(queue') : queue'[n].kind = "start" =>
                          queue'[n].advId = advIds'[queue'[n].object]
<1>0. PICK last, o : last = Len(queue) + 1 /\ o = Len(advIds) + 1
  OBVIOUS
<1>1. /\ queue' \in Seq(Tasks) /\ queue \in Seq(Tasks)
      /\ Len(queue) \in Nat /\ Len(queue') = last
      /\ \A n \in 1 .. Len(queue) : queue'[n] = queue[n]
      /\ queue'[last].kind = "start" /\ queue'[last].advId = i /\ queue'[last].object = o
  BY <1>0, SubmitEffect DEF TypeOK
<1>2. /\ \A n \in 1 .. Len(queue) : n \in 1 .. Len(queue')
      /\ last \in 1 .. Len(queue')
      /\ \A n \in 1 .. Len(queue') : n \in 1 .. Len(queue) \/ n = last
      /\ \A n \in 1 .. Len(queue) : n < last
  BY <1>0, <1>1
<1>3. /\ advIds' \in Seq(AdvIds) /\ Len(advIds') = o /\ advIds'[o] = i
      /\ Made' = Made \cup {o} /\ o \notin Made
      /\ \A p \in Made : advIds'[p] = advIds[p] /\ p # o
  BY <1>0 DEF TypeOK, Made
<1>4. /\ \A p \in Made : \A n \in 1 .. Len(queue) : /\ StartAt(n, p)' <=> StartAt(n, p)
                                                    /\ StopAt(n, p)' <=> StopAt(n, p)
      /\ \A p : \A n \in 1 .. Len(queue) : StartAt(n, p)' <=> StartAt(n, p)
      /\ \A p : ~StopAt(last, p)' /\ (StartAt(last, p)' <=> p = o)
  BY <1>1, <1>3 DEF StartAt, StopAt
<1>5. ASSUME NEW p \in Made
      PROVE  /\ StartPending(p)' <=> StartPending(p)
             /\ StopPending(p)' <=> StopPending(p)
             /\ StartUnstopped(p)' <=> StartUnstopped(p)
  BY <1>2, <1>3, <1>4 DEF StartPending, StopPending, StartUnstopped
<1>6. \A p \in Objects : StartPending(p)' => p \in Made'
  BY <1>2, <1>3, <1>4 DEF StartPending, MadeInv
<1>7. ~StartPending(o)
  BY <1>3 DEF MadeInv
<1>8. OnceInv => OnceInv'
  BY <1>2, <1>4, <1>7 DEF OnceInv, StartPending
<1>9. AdvIdInv => \A n \in 1 .. Len(queue') : queue'[n].kind = "start" =>
                    queue'[n].advId = advIds'[queue'[n].object]
  <2>. SUFFICES ASSUME AdvIdInv, NEW n \in 1 .. Len(queue'), queue'[n].kind = "start"
                PROVE  queue'[n].advId = advIds'[queue'[n].object]
    OBVIOUS
  <2>1. CASE n = last
    BY <2>1, <1>1, <1>3
  <2>2. CASE n \in 1 .. Len(queue)
    <3>1. queue[n] \in Tasks /\ queue'[n] = queue[n]
      BY <2>2, <1>1
    <3>2. queue[n].object \in Objects
      BY <3>1 DEF Tasks
    <3>3. queue[n].object \in Made
      BY <2>2, <3>1, <3>2 DEF MadeInv, StartPending, StartAt
    <3>4. advIds'[queue[n].object] = advIds[queue[n].object]
      BY <3>3, <1>3
    <3>5. queue[n].advId = advIds[queue[n].object]
      BY <2>2, <3>1 DEF AdvIdInv
    <3>. QED BY <3>1, <3>4, <3>5
  <2>. QED BY <1>2, <2>1, <2>2
<1>. QED BY <1>0, <1>1, <1>3, <1>5, <1>6, <1>8, <1>9

LEMMA TaskTaken ==
  ASSUME TypeOK, queue # <<>>, queue' = Tail(queue), UNCHANGED advIds
  PROVE  /\ queue' \in Seq(Tasks)
         /\ Task.advId \in AdvIds /\ Task.object \in Objects /\ Task = queue[1]
         /\ \A p : /\ StartPending(p) <=> StartPending(p)' \/ StartAt(1, p)
                   /\ StopPending(p) <=> StopPending(p)' \/ StopAt(1, p)
                   /\ StartUnstopped(p)' => StartUnstopped(p)
                   /\ StartAt(1, p) => StopPending(p)' \/ StartUnstopped(p)
         /\ OnceInv => OnceInv' /\ \A p \in Objects : StartAt(1, p) => ~StartPending(p)'
         /\ AdvIdInv => \A n \in 1 .. Len(queue') : queue'[n].kind = "start" =>
                          queue'[n].advId = advIds[queue'[n].object]
         /\ Made' = Made
<1>1. /\ queue' \in Seq(Tasks) /\ queue \in Seq(Tasks)
      /\ Len(queue) \in Nat \ {0} /\ Len(queue') = Len(queue) - 1
      /\ \A n \in 1 .. Len(queue') : queue'[n] = queue[n + 1]
      /\ Task = queue[1]
  BY DEF TypeOK, Task
<1>2. /\ 1 \in 1 .. Len(queue)
      /\ \A n \in 1 .. Len(queue') : n + 1 \in 1 .. Len(queue) /\ n + 1 # 1
      /\ \A n \in 1 .. Len(queue) : n = 1 \/ (n - 1 \in 1 .. Len(queue') /\ (n - 1) + 1 = n)
  BY <1>1
<1>3. /\ \A p : \A n \in 1 .. Len(queue') : /\ StartAt(n, p)' <=> StartAt(n + 1, p)
                                            /\ StopAt(n, p)' <=> StopAt(n + 1, p)
  BY <1>1 DEF StartAt, StopAt
<1>4. Task.advId \in AdvIds /\ Task.object \in Objects
  <2>1. Task \in Tasks
    BY <1>1, <1>2
  <2>. QED BY <2>1 DEF Tasks
<1>5. ASSUME NEW p
      PROVE  /\ StartPending(p) <=> StartPending(p)' \/ StartAt(1, p)
             /\ StopPending(p) <=> StopPending(p)' \/ StopAt(1, p)
  <2>1. ASSUME NEW n \in 1 .. Len(queue), n # 1
        PROVE  /\ StartAt(n, p) => StartPending(p)'
               /\ StopAt(n, p) => StopPending(p)'
    <3>. DEFINE k == n - 1
    <3>1. k \in 1 .. Len(queue') /\ k + 1 = n
      BY <2>1, <1>2
    <3>. HIDE DEF k
    <3>. QED BY <3>1, <1>3 DEF StartPending, StopPending
  <2>2. ASSUME NEW n \in 1 .. Len(queue')
        PROVE  /\ StartAt(n, p)' => StartPending(p)
               /\ StopAt(n, p)' => StopPending(p)
    BY <1>2, <1>3 DEF StartPending, StopPending
  <2>. QED BY <2>1, <2>2, <1>2 DEF StartPending, StopPending
<1>6. ASSUME NEW p, StartUnstopped(p)'
      PROVE  StartUnstopped(p)
  <2>1. PICK m \in 1 .. Len(queue') :
          StartAt(m, p)' /\ \A n \in 1 .. Len(queue') : m < n => ~StopAt(n, p)'
    BY <1>6 DEF StartUnstopped
  <2>2. ASSUME NEW n \in 1 .. Len(queue), m + 1 < n
        PROVE  ~StopAt(n, p)
    <3>1. n - 1 \in 1 .. Len(queue') /\ m < n - 1 /\ (n - 1) + 1 = n
      BY <2>2, <1>1
    <3>. QED BY <3>1, <2>1, <1>3
  <2>. QED BY <2>1, <2>2, <1>2, <1>3 DEF StartUnstopped
<1>7. ASSUME NEW p, StartAt(1, p), ~StopPending(p)'
      PROVE  StartUnstopped(p)
  <2>1. ASSUME NEW n \in 1 .. Len(queue), 1 < n
        PROVE  ~StopAt(n, p)
    <3>1. n - 1 \in 1 .. Len(queue') /\ (n - 1) + 1 = n
      BY <2>1, <1>1
    <3>. QED BY <3>1, <1>7, <1>3 DEF StopPending
  <2>. QED BY <2>1, <1>2, <1>7 DEF StartUnstopped
<1>8. OnceInv => OnceInv' /\ \A p \in Objects : StartAt(1, p) => ~StartPending(p)'
  <2>. SUFFICES ASSUME OnceInv
                PROVE  OnceInv' /\ \A p \in Objects : StartAt(1, p) => ~StartPending(p)'
    OBVIOUS
  <2>1. ASSUME NEW p \in Objects, NEW m \in 1 .. Len(queue'), NEW n \in 1 .. Len(queue'),
               StartAt(m, p)', StartAt(n, p)'
        PROVE  m = n
    <3>1. m + 1 = n + 1
      BY <2>1, <1>2, <1>3 DEF OnceInv
    <3>. QED BY <3>1
  <2>2. ASSUME NEW p \in Objects, StartAt(1, p)
        PROVE  ~StartPending(p)'
    BY <2>2, <1>2, <1>3 DEF OnceInv, StartPending
  <2>. QED BY <2>1, <2>2 DEF OnceInv
<1>9. AdvIdInv => \A n \in 1 .. Len(queue') : queue'[n].kind = "start" =>
                    queue'[n].advId = advIds[queue'[n].object]
  BY <1>1, <1>2 DEF AdvIdInv
<1>. QED BY <1>1, <1>4, <1>5, <1>6, <1>7, <1>8, <1>9 DEF Made

-----------------------------------------------------------------------------
(***************************************************************************)
(* What a step does to the reports                                         *)
(***************************************************************************)
LEMMA ReportsAreKept ==
  ASSUME UNCHANGED <<reports, reporter>>
  PROVE  \A o : ReportPending(o)' <=> ReportPending(o)
BY DEF ReportPending

LEMMA ReportSent ==
  ASSUME TypeOK, NEW kind \in {"stopped", "startFailed"}, NEW o \in Objects,
         Report(kind, o), UNCHANGED reporter
  PROVE  /\ reports' \in Seq(Reports)
         /\ \A p : ReportPending(p)' <=> ReportPending(p) \/ p = o
<1>. DEFINE report == [kind |-> kind, object |-> o]
<1>1. report \in Reports /\ report.object = o
  BY DEF Reports
<1>2. reports \in Seq(Reports) /\ reports' = Append(reports, report)
  BY DEF TypeOK, Report
<1>. HIDE DEF report
<1>3. /\ reports' \in Seq(Reports) /\ Len(reports) \in Nat
      /\ Len(reports') = Len(reports) + 1 /\ reports'[Len(reports) + 1] = report
      /\ \A n \in 1 .. Len(reports) : reports'[n] = reports[n]
  BY <1>1, <1>2
<1>. QED BY <1>1, <1>3 DEF ReportPending

LEMMA ReportTaken ==
  ASSUME TypeOK, reports # <<>>, reports' = Tail(reports), reporter.pc = "idle",
         reporter' = reporter \/ reporter'.object = Head(reports).object
  PROVE  /\ reports' \in Seq(Reports)
         /\ Head(reports).object \in Objects
         /\ ReportPending(Head(reports).object)
         /\ \A p : ReportPending(p)' => ReportPending(p)
<1>1. /\ reports' \in Seq(Reports) /\ reports \in Seq(Reports)
      /\ Len(reports) \in Nat \ {0} /\ Len(reports') = Len(reports) - 1
      /\ \A n \in 1 .. Len(reports') : reports'[n] = reports[n + 1]
      /\ Head(reports) = reports[1] /\ 1 \in 1 .. Len(reports)
      /\ \A n \in 1 .. Len(reports') : n + 1 \in 1 .. Len(reports)
  BY DEF TypeOK
<1>2. Head(reports).object \in Objects
  <2>1. Head(reports) \in Reports
    BY <1>1
  <2>. QED BY <2>1 DEF Reports
<1>. QED BY <1>1, <1>2 DEF ReportPending

-----------------------------------------------------------------------------
(***************************************************************************)
(* The steps                                                               *)
(***************************************************************************)
LEMMA Basics ==
  /\ None \notin Objects
  /\ AdvIds \subseteq Nat
  /\ TypeOK => Made \subseteq Objects /\ \A o \in Made : advIds[o] \in AdvIds
<1>1. None \notin Objects /\ AdvIds \subseteq Nat /\ MaxStarts \in Nat
  BY AdvAssumption DEF None, Objects, AdvIds
<1>2. ASSUME TypeOK
      PROVE  Made \subseteq Objects /\ \A o \in Made : advIds[o] \in AdvIds
  <2>1. advIds \in Seq(AdvIds) /\ Len(advIds) <= MaxStarts
    BY <1>2 DEF TypeOK
  <2>. QED BY <1>1, <2>1 DEF Made, Objects
<1>. QED BY <1>1, <1>2

LEMMA UnstoppedIsPending ==
  \A o : /\ StartUnstopped(o) => StartPending(o)
         /\ StartUnstopped(o)' => StartPending(o)'
BY DEF StartUnstopped, StartPending

\* BleStopAdv: whose timer is unregistered has a stop in the queue, behind its
\* start if that is still there.
LEMMA BleStopAdvEffect ==
  ASSUME IInv, NEW i \in AdvIds, BleStopAdv(i), UNCHANGED advIds
  PROVE  /\ queue' \in Seq(Tasks) /\ Made' = Made /\ OnceInv'
         /\ \A n \in 1 .. Len(queue') :
              queue'[n].kind = "start" => queue'[n].advId = advIds[queue'[n].object]
         /\ \A p : /\ StartPending(p)' <=> StartPending(p)
                   /\ StopPending(p) => StopPending(p)'
                   /\ StartUnstopped(p)' => StartUnstopped(p)
         /\ timerIds' \in [AdvIds -> Objects \cup {None}]
         /\ \A j \in AdvIds : timerIds'[j] = timerIds[j] \/ timerIds'[j] = None
         /\ timers' \subseteq timers
         /\ \A p \in timers \ timers' : StopPending(p)' /\ ~StartUnstopped(p)'
         /\ \A p \in Made : advIds[p] = i /\ slots[i] # None =>
              StopPending(p)' /\ ~StartUnstopped(p)'
<1>. USE Basics DEF IInv
<1>1. CASE advertiser /\ slots[i] # None
  <2>1. /\ timers' = timers \ {timerIds[i]}
        /\ timerIds' = [timerIds EXCEPT ![i] = None]
        /\ Submit("stop", i, slots[i]) /\ slots[i] \in Objects
    BY <1>1 DEF BleStopAdv, UnRegister, TypeOK
  <2>2. /\ queue' \in Seq(Tasks)
        /\ \A p : /\ StartPending(p)' <=> StartPending(p)
                  /\ StopPending(p)' <=> StopPending(p) \/ advIds[p] = i
                  /\ StartUnstopped(p)' => StartUnstopped(p) /\ advIds[p] # i
        /\ OnceInv'
        /\ \A n \in 1 .. Len(queue') :
             queue'[n].kind = "start" => queue'[n].advId = advIds[queue'[n].object]
        /\ Made' = Made
    BY <2>1, StopSubmitted
  <2>3. /\ timerIds' \in [AdvIds -> Objects \cup {None}]
        /\ \A j \in AdvIds : timerIds'[j] = timerIds[j] \/ timerIds'[j] = None
    BY <2>1 DEF TypeOK
  <2>4. ASSUME NEW p \in timers \ timers'
        PROVE  advIds[p] = i
    <3>1. p = timerIds[i] /\ p # None
      BY <2>1, <2>4 DEF TypeOK
    <3>. QED BY <3>1 DEF AdvIdInv
  <2>. QED BY <2>1, <2>2, <2>3, <2>4
<1>2. CASE ~(advertiser /\ slots[i] # None)
  <2>1. UNCHANGED <<timerIds, timers, queue>> /\ slots[i] = None
    BY <1>2 DEF BleStopAdv, clock, EmptyInv
  <2>2. /\ \A p : /\ StartPending(p)' <=> StartPending(p)
                  /\ StopPending(p)' <=> StopPending(p)
                  /\ StartUnstopped(p)' <=> StartUnstopped(p)
        /\ OnceInv' /\ Made' = Made
    BY <2>1, QueueIsKept
  <2>3. /\ \A n \in 1 .. Len(queue') :
             queue'[n].kind = "start" => queue'[n].advId = advIds[queue'[n].object]
        /\ queue' \in Seq(Tasks) /\ timerIds' \in [AdvIds -> Objects \cup {None}]
    BY <2>1 DEF AdvIdInv, TypeOK
  <2>. QED BY <2>1, <2>2, <2>3
<1>. QED BY <1>1, <1>2

\* A start that gets an advId.
LEMMA StartQueued ==
  ASSUME IInv, NEW i \in AdvIds, Len(advIds) + 1 \in Objects, up, crashed = None,
         \A p \in Made : slots[advIds[p]] = p => slots'[advIds[p]] = p \/ p \in untracked',
         \A j \in AdvIds : \/ slots'[j] = None \/ slots'[j] = slots[j]
                           \/ j = i /\ slots'[j] = Len(advIds) + 1,
         slots' \in [AdvIds -> Objects \cup {None}], slots'[i] = Len(advIds) + 1,
         untracked \subseteq untracked', untracked' \subseteq Objects,
         advIds' = Append(advIds, i), Submit("start", i, Len(advIds) + 1),
         advertiser', advertiser' \in BOOLEAN,
         wanted' = [wanted EXCEPT ![i] = Len(advIds) + 1],
         IF Len(advIds) + 1 \in Addressed
         THEN StartAdvAddrTimer(i, Len(advIds) + 1) ELSE UNCHANGED <<clock, untimed>>,
         UNCHANGED <<registered, fired, reporter, service, reports, crashed>>
  PROVE  IInv'
<1>. USE Basics DEF IInv
<1>1. PICK o : o = Len(advIds) + 1
  OBVIOUS
<1>2. /\ queue' \in Seq(Tasks) /\ advIds' \in Seq(AdvIds)
      /\ Len(advIds') = o /\ advIds'[o] = i
      /\ Made' = Made \cup {o} /\ o \notin Made
      /\ \A p \in Made :
           /\ advIds'[p] = advIds[p]
           /\ StartPending(p)' <=> StartPending(p)
           /\ StopPending(p)' <=> StopPending(p)
           /\ StartUnstopped(p)' <=> StartUnstopped(p)
      /\ \A p \in Objects : StartPending(p)' => p \in Made'
      /\ OnceInv'
      /\ \A n \in 1 .. Len(queue') :
           queue'[n].kind = "start" => queue'[n].advId = advIds'[queue'[n].object]
  BY <1>1, StartSubmitted
<1>3. \A p : ReportPending(p)' <=> ReportPending(p)
  BY ReportsAreKept
<1>4. o \in Objects /\ o # None /\ ~ReportPending(o)
  BY <1>1, <1>2 DEF MadeInv
<1>5. o \notin registered /\ o \notin sets
  BY <1>2 DEF MadeInv
<1>6. /\ timers \subseteq timers' /\ timers' \subseteq timers \cup {o}
      /\ o \in Addressed => o \in timers' \/ o \in untimed'
      /\ untimed \subseteq untimed' /\ untimed' \subseteq Objects
      /\ timerIds' \in [AdvIds -> Objects \cup {None}]
      /\ \A j \in AdvIds : \/ timerIds'[j] = timerIds[j] \/ timerIds'[j] = None
                           \/ j = i /\ timerIds'[j] = o
  BY <1>1, <1>4 DEF StartAdvAddrTimer, clock, TypeOK
<1>7. UNCHANGED <<registered, fired, reporter, up, sets, notices, deaths, reports, crashed>>
  BY DEF service
<1>8. TypeOK'
  <2>1. wanted' \in [AdvIds -> Objects \cup {None}]
    BY <1>1, <1>4 DEF TypeOK
  <2>2. Len(advIds') <= MaxStarts
    BY <1>1, <1>2, <1>4 DEF Objects
  <2>3. timers' \subseteq Objects
    BY <1>4, <1>6 DEF TypeOK
  <2>. QED BY <1>2, <1>6, <1>7, <2>1, <2>2, <2>3 DEF TypeOK
<1>9. MadeInv'
  BY <1>2, <1>3, <1>6, <1>7 DEF MadeInv
<1>10. AdvIdInv'
  <2>1. ASSUME NEW j \in AdvIds, slots'[j] # None
        PROVE  slots'[j] \in Made' /\ advIds'[slots'[j]] = j
    <3>1. CASE slots'[j] = slots[j]
      <4>1. slots[j] \in Made /\ advIds[slots[j]] = j
        BY <2>1, <3>1 DEF AdvIdInv
      <4>2. advIds'[slots[j]] = advIds[slots[j]] /\ slots[j] \in Made'
        BY <4>1, <1>2
      <4>. QED BY <3>1, <4>1, <4>2
    <3>2. CASE j = i /\ slots'[j] = o
      BY <3>2, <1>2
    <3>. QED BY <2>1, <3>1, <3>2, <1>1
  <2>2. ASSUME NEW j \in AdvIds, timerIds'[j] # None
        PROVE  timerIds'[j] \in Made' /\ advIds'[timerIds'[j]] = j
    <3>1. CASE timerIds'[j] = timerIds[j]
      <4>1. timerIds[j] \in Made /\ advIds[timerIds[j]] = j
        BY <2>2, <3>1 DEF AdvIdInv
      <4>2. advIds'[timerIds[j]] = advIds[timerIds[j]] /\ timerIds[j] \in Made'
        BY <4>1, <1>2
      <4>. QED BY <3>1, <4>1, <4>2
    <3>2. CASE j = i /\ timerIds'[j] = o
      BY <3>2, <1>2
    <3>. QED BY <2>2, <3>1, <3>2, <1>6
  <2>. QED BY <1>2, <2>1, <2>2 DEF AdvIdInv
<1>11. EmptyInv'
  BY <1>7 DEF EmptyInv
<1>12. OnceInv'
  BY <1>2
<1>13. StartInv'
  <2>. SUFFICES ASSUME NEW p \in Made', StartPending(p)', p \notin untracked'
                PROVE  /\ slots'[advIds'[p]] = p
                       /\ p \notin registered /\ p \notin sets
                       /\ ~ReportPending(p)
    BY <1>3, <1>7 DEF StartInv
  <2>1. CASE p = o
    BY <2>1, <1>1, <1>2, <1>4, <1>5
  <2>2. CASE p \in Made
    BY <2>2, <1>2 DEF StartInv
  <2>. QED BY <2>1, <2>2, <1>2
<1>14. ReportInv'
  BY <1>2, <1>3, <1>4, <1>7 DEF ReportInv
<1>15. SetsHaveAnAdvId'
  BY <1>2, <1>7 DEF SetsHaveAnAdvId, MadeInv
<1>16. StartFindsAdvertiser'
  BY <1>7 DEF StartFindsAdvertiser
<1>17. TimedInv'
  BY <1>2, <1>5, <1>6, <1>7 DEF TimedInv, Timed
<1>. QED BY <1>8, <1>9, <1>10, <1>11, <1>12, <1>13, <1>14, <1>15, <1>16, <1>17

\* A start whose address was in use for too long: advIds may have been taken back.
LEMMA StartRefused ==
  ASSUME IInv, up, crashed = None,
         \A p \in Made : slots[advIds[p]] = p => slots'[advIds[p]] = p \/ p \in untracked',
         \A j \in AdvIds : slots'[j] = None \/ slots'[j] = slots[j],
         slots' \in [AdvIds -> Objects \cup {None}],
         untracked \subseteq untracked', untracked' \subseteq Objects,
         UNCHANGED <<advertiser, clock, advIds, queue, wanted, registered, fired, reporter,
                     service, reports, crashed, untimed>>
  PROVE  IInv'
<1>. USE Basics DEF IInv
<1>1. /\ UNCHANGED <<queue, advIds>>
      /\ Made' = Made /\ OnceInv'
      /\ \A p : /\ StartPending(p)' <=> StartPending(p)
                /\ StopPending(p)' <=> StopPending(p)
                /\ StartUnstopped(p)' <=> StartUnstopped(p)
  BY QueueIsKept
<1>2. \A p : ReportPending(p)' <=> ReportPending(p)
  BY ReportsAreKept
<1>3. TypeOK' /\ MadeInv' /\ AdvIdInv' /\ EmptyInv'
  BY <1>1, <1>2 DEF TypeOK, MadeInv, AdvIdInv, EmptyInv, clock, service
<1>4. StartInv' /\ ReportInv'
  BY <1>1, <1>2 DEF StartInv, ReportInv, service
<1>5. SetsHaveAnAdvId' /\ StartFindsAdvertiser'
  BY <1>1 DEF SetsHaveAnAdvId, StartFindsAdvertiser, MadeInv, service
<1>6. TimedInv'
  BY <1>1 DEF TimedInv, Timed, clock, service
<1>. QED BY <1>1, <1>3, <1>4, <1>5, <1>6

LEMMA BleStartAdvStep ==
  ASSUME IInv, BleStartAdv
  PROVE  IInv'
<1>. USE Basics
<1>0. TypeOK
  BY DEF IInv
<1>. DEFINE o == Len(advIds) + 1
            i == Min(FreeAdvIds \cup Reclaimable)
            kept == [j \in AdvIds |-> IF j \in Reclaimable THEN None ELSE slots[j]]
<1>1. i \in AdvIds /\ i \in FreeAdvIds \cup Reclaimable
  <2>1. FreeAdvIds \cup Reclaimable \in SUBSET Nat /\ FreeAdvIds \cup Reclaimable # {}
    BY DEF BleStartAdv, FreeAdvIds, Reclaimable
  <2>2. i \in FreeAdvIds \cup Reclaimable
    BY <2>1, MinIsMember
  <2>. QED BY <2>2 DEF FreeAdvIds, Reclaimable
<1>2. /\ up /\ crashed = None /\ o \in Objects
      /\ untracked' = untracked \cup {slots[j] : j \in Reclaimable}
      /\ UNCHANGED <<registered, fired, reporter, service, reports, crashed>>
  BY DEF BleStartAdv
<1>3. /\ untracked \subseteq untracked' /\ untracked' \subseteq Objects
      /\ \A j \in Reclaimable : slots[j] \in untracked'
  BY <1>0, <1>2 DEF TypeOK, Reclaimable, Full
<1>4. /\ kept \in [AdvIds -> Objects \cup {None}]
      /\ \A j \in AdvIds : kept[j] = None \/ kept[j] = slots[j]
      /\ \A j \in AdvIds : kept[j] # slots[j] => slots[j] \in untracked'
      /\ slots[i] = None \/ slots[i] \in untracked'
  BY <1>0, <1>1, <1>3 DEF TypeOK, FreeAdvIds
<1>5. /\ \A p \in Made : advIds[p] \in AdvIds /\ p # None
  BY <1>0
<1>6. CASE /\ advIds' = Append(advIds, i) /\ slots' = [kept EXCEPT ![i] = o]
           /\ advertiser' = TRUE /\ wanted' = [wanted EXCEPT ![i] = o]
           /\ Submit("start", i, o)
           /\ IF o \in Addressed THEN StartAdvAddrTimer(i, o)
                                 ELSE UNCHANGED <<clock, untimed>>
  <2>1. /\ slots' \in [AdvIds -> Objects \cup {None}] /\ slots'[i] = o
        /\ \A j \in AdvIds : j # i => slots'[j] = kept[j]
    <3>. HIDE DEF kept, i, o
    <3>. QED BY <1>1, <1>2, <1>4, <1>6
  <2>. HIDE DEF kept, i
  <2>2. \A p \in Made : slots[advIds[p]] = p => slots'[advIds[p]] = p \/ p \in untracked'
    BY <1>4, <1>5, <2>1
  <2>3. \A j \in AdvIds : \/ slots'[j] = None \/ slots'[j] = slots[j]
                          \/ j = i /\ slots'[j] = o
    BY <1>4, <2>1
  <2>. QED BY <1>1, <1>2, <1>3, <1>6, <2>1, <2>2, <2>3, StartQueued
<1>7. CASE slots' = kept /\ UNCHANGED <<advertiser, clock, advIds, queue, wanted, untimed>>
  <2>. HIDE DEF kept
  <2>1. \A p \in Made : slots[advIds[p]] = p => slots'[advIds[p]] = p \/ p \in untracked'
    BY <1>4, <1>5, <1>7
  <2>. QED BY <1>2, <1>3, <1>4, <1>7, <2>1, StartRefused
<1>. QED BY <1>6, <1>7 DEF BleStartAdv, MakeAdvertiser

LEMMA ApplicationStopsStep ==
  ASSUME IInv, NEW i \in AdvIds, ApplicationStops(i)
  PROVE  IInv'
<1>. USE Basics DEF IInv
<1>1. UNCHANGED advIds
  BY DEF ApplicationStops
<1>2. /\ queue' \in Seq(Tasks) /\ Made' = Made /\ OnceInv'
      /\ \A n \in 1 .. Len(queue') :
           queue'[n].kind = "start" => queue'[n].advId = advIds[queue'[n].object]
      /\ \A p : /\ StartPending(p)' <=> StartPending(p)
                /\ StopPending(p) => StopPending(p)'
                /\ StartUnstopped(p)' => StartUnstopped(p)
      /\ timerIds' \in [AdvIds -> Objects \cup {None}]
      /\ \A j \in AdvIds : timerIds'[j] = timerIds[j] \/ timerIds'[j] = None
      /\ timers' \subseteq timers
      /\ \A p \in timers \ timers' : StopPending(p)' /\ ~StartUnstopped(p)'
      /\ \A p \in Made : advIds[p] = i /\ slots[i] # None =>
           StopPending(p)' /\ ~StartUnstopped(p)'
  BY <1>1, BleStopAdvEffect DEF ApplicationStops
<1>3. /\ UNCHANGED <<reports, reporter>>
      /\ \A p : ReportPending(p)' <=> ReportPending(p)
  BY ReportsAreKept DEF ApplicationStops, table, clock, service, history
<1>4. TypeOK'
  BY <1>1, <1>2, <1>3 DEF TypeOK, ApplicationStops, table, clock, service, history
<1>5. MadeInv'
  BY <1>1, <1>2, <1>3 DEF MadeInv, ApplicationStops, table, clock, service, history
<1>6. AdvIdInv'
  BY <1>1, <1>2, <1>3 DEF AdvIdInv, ApplicationStops, table, clock, service, history
<1>7. EmptyInv'
  BY <1>1, <1>2, <1>3 DEF EmptyInv, ApplicationStops, table, clock, service, history
<1>8. OnceInv'
  BY <1>2
<1>9. StartInv'
  BY <1>1, <1>2, <1>3 DEF StartInv, ApplicationStops, table, clock, service, history
<1>10. ReportInv'
  BY <1>1, <1>2, <1>3 DEF ReportInv, ApplicationStops, table, clock, service, history
<1>11. SetsHaveAnAdvId'
  BY <1>1, <1>2, <1>3 DEF SetsHaveAnAdvId, ApplicationStops, table, clock, service, history
<1>12. StartFindsAdvertiser'
  BY <1>1, <1>2, <1>3 DEF StartFindsAdvertiser, ApplicationStops, table, clock, service,
       history
<1>13. TimedInv'
  BY <1>1, <1>2, <1>3 DEF TimedInv, Timed, ApplicationStops, table, clock, service, history
<1>. QED BY <1>4, <1>5, <1>6, <1>7, <1>8, <1>9, <1>10, <1>11, <1>12, <1>13

LEMMA TimerFiresStep ==
  ASSUME IInv, NEW o \in Objects, TimerFires(o)
  PROVE  IInv'
<1>. USE Basics DEF IInv
<1>1. /\ UNCHANGED <<queue, advIds>>
      /\ Made' = Made
      /\ \A p : /\ StartPending(p)' <=> StartPending(p)
                /\ StopPending(p)' <=> StopPending(p)
                /\ StartUnstopped(p)' <=> StartUnstopped(p)
  BY QueueIsKept DEF TimerFires, table, clock, service, history
<1>2. /\ UNCHANGED <<reports, reporter>>
      /\ \A p : ReportPending(p)' <=> ReportPending(p)
  BY ReportsAreKept DEF TimerFires, table, clock, service, history
<1>3. TypeOK'
  BY <1>1, <1>2 DEF TypeOK, TimerFires, table, clock, service, history
<1>4. MadeInv'
  BY <1>1, <1>2 DEF MadeInv, TimerFires, table, clock, service, history
<1>5. AdvIdInv'
  BY <1>1, <1>2 DEF AdvIdInv, TimerFires, table, clock, service, history
<1>6. EmptyInv'
  BY <1>1, <1>2 DEF EmptyInv, TimerFires, table, clock, service, history
<1>7. OnceInv'
  BY <1>1, QueueIsKept
<1>8. StartInv'
  BY <1>1, <1>2 DEF StartInv, TimerFires, table, clock, service, history
<1>9. ReportInv'
  BY <1>1, <1>2 DEF ReportInv, TimerFires, table, clock, service, history
<1>10. SetsHaveAnAdvId'
  BY <1>1, <1>2 DEF SetsHaveAnAdvId, TimerFires, table, clock, service, history
<1>11. StartFindsAdvertiser'
  BY <1>1, <1>2 DEF StartFindsAdvertiser, TimerFires, table, clock, service, history
<1>12. TimedInv'
  BY <1>1, <1>2 DEF TimedInv, Timed, TimerFires, table, clock, service, history
<1>. QED BY <1>3, <1>4, <1>5, <1>6, <1>7, <1>8, <1>9, <1>10, <1>11, <1>12

LEMMA TimerStopsStep ==
  ASSUME IInv, NEW o \in Objects, TimerStops(o)
  PROVE  IInv'
<1>. USE Basics DEF IInv
<1>1. UNCHANGED advIds /\ o \in Made /\ advIds[o] \in AdvIds
  BY DEF TimerStops, MadeInv
<1>2. /\ queue' \in Seq(Tasks) /\ Made' = Made /\ OnceInv'
      /\ \A n \in 1 .. Len(queue') :
           queue'[n].kind = "start" => queue'[n].advId = advIds[queue'[n].object]
      /\ \A p : /\ StartPending(p)' <=> StartPending(p)
                /\ StopPending(p) => StopPending(p)'
                /\ StartUnstopped(p)' => StartUnstopped(p)
      /\ timerIds' \in [AdvIds -> Objects \cup {None}]
      /\ \A j \in AdvIds : timerIds'[j] = timerIds[j] \/ timerIds'[j] = None
      /\ timers' \subseteq timers
      /\ \A p \in timers \ timers' : StopPending(p)' /\ ~StartUnstopped(p)'
      /\ \A p \in Made : advIds[p] = advIds[o] /\ slots[advIds[o]] # None =>
           StopPending(p)' /\ ~StartUnstopped(p)'
  BY <1>1, BleStopAdvEffect DEF TimerStops
<1>3. /\ UNCHANGED <<reports, reporter>>
      /\ \A p : ReportPending(p)' <=> ReportPending(p)
  BY ReportsAreKept DEF TimerStops, table, clock, service, history
<1>4. TypeOK'
  BY <1>1, <1>2, <1>3 DEF TypeOK, TimerStops, table, clock, service, history
<1>5. MadeInv'
  BY <1>1, <1>2, <1>3 DEF MadeInv, TimerStops, table, clock, service, history
<1>6. AdvIdInv'
  BY <1>1, <1>2, <1>3 DEF AdvIdInv, TimerStops, table, clock, service, history
<1>7. EmptyInv'
  BY <1>1, <1>2, <1>3 DEF EmptyInv, TimerStops, table, clock, service, history
<1>8. OnceInv'
  BY <1>2
<1>9. StartInv'
  BY <1>1, <1>2, <1>3 DEF StartInv, TimerStops, table, clock, service, history
<1>10. ReportInv'
  BY <1>1, <1>2, <1>3 DEF ReportInv, TimerStops, table, clock, service, history
<1>11. SetsHaveAnAdvId'
  BY <1>1, <1>2, <1>3 DEF SetsHaveAnAdvId, TimerStops, table, clock, service, history
<1>12. StartFindsAdvertiser'
  BY <1>1, <1>2, <1>3 DEF StartFindsAdvertiser, TimerStops, table, clock, service, history
<1>13. TimedInv'
  <2>. SUFFICES ASSUME NEW p \in Addressed \cap Made, ~Timed(p)'
                PROVE  /\ p \in sets => StopPending(p)'
                       /\ ~StartUnstopped(p)'
    BY <1>2 DEF TimedInv, TimerStops, service
  <2>1. CASE ~Timed(p)
    BY <2>1, <1>2 DEF TimedInv
  <2>2. CASE p \in timers \ timers'
    BY <2>2, <1>2
  <2>3. CASE p = o
    <3>1. CASE slots[advIds[o]] # None
      BY <2>3, <3>1, <1>1, <1>2
    <3>2. CASE slots[advIds[o]] = None
      <4>1. p \notin untracked /\ p # None
        BY <1>1, <2>3 DEF Timed, TimerStops
      <4>. QED BY <2>3, <3>2, <4>1, <1>1, <1>2, UnstoppedIsPending DEF SetsHaveAnAdvId,
           StartInv
    <3>. QED BY <3>1, <3>2
  <2>. QED BY <2>1, <2>2, <2>3 DEF Timed, TimerStops
<1>. QED BY <1>4, <1>5, <1>6, <1>7, <1>8, <1>9, <1>10, <1>11, <1>12, <1>13

LEMMA StartTaskStep ==
  ASSUME IInv, StartTask
  PROVE  IInv'
<1>. USE Basics DEF IInv
<1>1. /\ queue' \in Seq(Tasks) /\ Made' = Made /\ OnceInv' /\ UNCHANGED advIds
      /\ Task.advId \in AdvIds /\ Task.object \in Objects /\ Task = queue[1]
      /\ \A p : /\ StartPending(p) <=> StartPending(p)' \/ StartAt(1, p)
                /\ StopPending(p) <=> StopPending(p)' \/ StopAt(1, p)
                /\ StartUnstopped(p)' => StartUnstopped(p)
                /\ StartAt(1, p) => StopPending(p)' \/ StartUnstopped(p)
      /\ \A p \in Objects : StartAt(1, p) => ~StartPending(p)'
      /\ \A n \in 1 .. Len(queue') :
           queue'[n].kind = "start" => queue'[n].advId = advIds[queue'[n].object]
  BY TaskTaken DEF StartTask
<1>2. /\ Task.object \in Made /\ Task.advId = advIds[Task.object]
      /\ \A p : p = Task.object => /\ StartPending(p) /\ ~StartPending(p)'
                                   /\ StopPending(p)' \/ StartUnstopped(p)
      /\ \A p : ~StopAt(1, p) /\ (StartAt(1, p) <=> p = Task.object)
  <2>1. \A p : ~StopAt(1, p) /\ (StartAt(1, p) <=> p = Task.object)
    BY <1>1 DEF StartTask, StartAt, StopAt
  <2>2. Task.advId = advIds[Task.object]
    <3>1. 1 \in 1 .. Len(queue)
      BY DEF StartTask, TypeOK
    <3>. QED BY <1>1, <3>1 DEF AdvIdInv, StartTask
  <2>3. \A p : p = Task.object => /\ StartPending(p) /\ ~StartPending(p)'
                                  /\ StopPending(p)' \/ StartUnstopped(p)
    BY <1>1, <2>1
  <2>. QED BY <1>1, <2>1, <2>2, <2>3 DEF MadeInv
<1>3. /\ Holder # None => Holder \in Made /\ advIds[Holder] = Task.advId
      /\ Holder # Task.object => Task.object \in untracked
      /\ Holder \in untracked' \/ Holder = None \/
           /\ Holder = Task.object
           /\ Holder \notin registered /\ Holder \notin sets /\ ~ReportPending(Holder)
  BY <1>1, <1>2 DEF AdvIdInv, StartInv, Holder, StartTask
<1>4. /\ \/ UNCHANGED slots
         \/ /\ \A j \in AdvIds : slots'[j] = IF j = Task.advId THEN None ELSE slots[j]
            /\ UNCHANGED sets
      /\ registered \subseteq registered' /\ registered' \subseteq registered \cup {Holder}
      /\ sets' \subseteq sets \cup {Holder}
      /\ ~(sets' \subseteq sets) => up /\ UNCHANGED slots /\ Holder \in registered'
      /\ Holder = None => registered' = registered /\ sets' \subseteq sets
  BY <1>1 DEF StartTask, StartFailed, table, TypeOK
<1>5. /\ timers' \subseteq timers
      /\ \A j \in AdvIds : timerIds'[j] = timerIds[j] \/ timerIds'[j] = None
      /\ \A p \in timers \ timers' : p \in untimed' \/ (p = Task.object /\ UNCHANGED sets)
  BY <1>1 DEF StartTask, StartFailed, UnRegister, clock, TypeOK
<1>6. /\ reports' \in Seq(Reports)
      /\ \/ \A p : ReportPending(p)' <=> ReportPending(p)
         \/ /\ Holder \in Made /\ Holder \notin sets'
            /\ \A p : ReportPending(p)' <=> ReportPending(p) \/ p = Holder
  <2>1. CASE UNCHANGED reports
    BY <2>1, ReportsAreKept DEF StartTask, TypeOK
  <2>2. CASE Holder # None /\ Report("startFailed", Holder) /\ sets' = sets \ {Holder}
    <3>1. Holder \in Objects /\ Holder \in Made /\ UNCHANGED reporter
      BY <1>3, <2>2 DEF StartTask
    <3>. QED BY <2>2, <3>1, ReportSent
  <2>. QED BY <2>1, <2>2 DEF StartTask
<1>7. /\ UNCHANGED <<advertiser, up, fired, reporter>>
      /\ untracked \subseteq untracked' /\ untimed \subseteq untimed'
  BY DEF StartTask, StartFailed, table
<1>8. TypeOK'
  <2>1. UNCHANGED <<advertiser, up, advIds, reporter, fired, notices, deaths>>
    BY DEF StartTask, table
  <2>2. slots' \in [AdvIds -> Objects \cup {None}]
    BY DEF StartTask, StartFailed, table, TypeOK
  <2>3. timerIds' \in [AdvIds -> Objects \cup {None}]
    BY DEF StartTask, StartFailed, UnRegister, clock, TypeOK
  <2>4. wanted' \in [AdvIds -> Objects \cup {None}]
    BY DEF StartTask, TypeOK
  <2>5. crashed' \in Objects \cup {None}
    BY <1>1 DEF StartTask
  <2>6. timers' \subseteq Objects /\ registered' \subseteq Objects /\ sets' \subseteq Objects
    BY <1>3, <1>4, <1>5 DEF TypeOK
  <2>7. untracked' \subseteq Objects
    BY <1>3 DEF StartTask, TypeOK
  <2>8. untimed' \subseteq Objects
    <3>1. timerIds[Task.advId] \in Objects \cup {None}
      BY <1>1 DEF TypeOK
    <3>. QED BY <3>1 DEF StartTask, StartFailed, TypeOK
  <2>. QED BY <1>1, <1>6, <2>1, <2>2, <2>3, <2>4, <2>5, <2>6, <2>7, <2>8 DEF TypeOK
<1>9. MadeInv'
  BY <1>1, <1>2, <1>3, <1>4, <1>5, <1>6, <1>7 DEF MadeInv
<1>10. AdvIdInv'
  BY <1>1, <1>2, <1>3, <1>4, <1>5, <1>6, <1>7 DEF AdvIdInv
<1>11. EmptyInv'
  BY <1>1, <1>2, <1>3, <1>4, <1>5, <1>6, <1>7 DEF EmptyInv
<1>12. OnceInv'
  BY <1>1
<1>13. StartInv'
  <2>. SUFFICES ASSUME NEW p \in Made, StartPending(p)', p \notin untracked'
                PROVE  /\ slots'[advIds[p]] = p
                       /\ p \notin registered' /\ p \notin sets'
                       /\ ~ReportPending(p)'
    BY <1>1 DEF StartInv
  <2>1. StartPending(p) /\ p # Task.object /\ p \notin untracked /\ advIds[p] \in AdvIds
    BY <1>1, <1>2, <1>7
  <2>2. /\ slots[advIds[p]] = p
        /\ p \notin registered /\ p \notin sets /\ ~ReportPending(p)
    BY <2>1 DEF StartInv
  <2>3. p # Holder /\ p # None
    BY <2>1, <1>3
  <2>4. advIds[p] # Task.advId
    BY <2>2, <2>3 DEF Holder
  <2>. QED BY <1>1, <1>4, <1>6, <2>1, <2>2, <2>3, <2>4
<1>14. ReportInv'
  BY <1>1, <1>2, <1>3, <1>4, <1>5, <1>6, <1>7 DEF ReportInv
<1>15. SetsHaveAnAdvId'
  <2>. SUFFICES ASSUME NEW p \in sets', p \notin untracked'
                PROVE  slots'[advIds[p]] = p /\ p \in registered'
    BY <1>1 DEF SetsHaveAnAdvId
  <2>1. CASE p \in sets
    <3>1. slots[advIds[p]] = p /\ p \in registered /\ advIds[p] \in AdvIds /\ p # None
      BY <2>1, <1>7 DEF SetsHaveAnAdvId, MadeInv
    <3>2. advIds[p] # Task.advId \/ UNCHANGED slots
      BY <2>1, <3>1, <1>3, <1>4 DEF Holder
    <3>. QED BY <3>1, <3>2, <1>4
  <2>2. CASE p \notin sets
    <3>1. p = Holder /\ p # None /\ UNCHANGED slots /\ p \in registered'
      BY <2>2, <1>4
    <3>. QED BY <3>1, <1>3 DEF Holder
  <2>. QED BY <2>1, <2>2
<1>16. StartFindsAdvertiser'
  BY <1>3 DEF StartFindsAdvertiser, StartTask, EmptyInv, Holder
<1>17. TimedInv'
  <2>. SUFFICES ASSUME NEW p \in Addressed \cap Made, ~Timed(p)'
                PROVE  /\ p \in sets' => StopPending(p)'
                       /\ ~StartUnstopped(p)'
    BY <1>1 DEF TimedInv
  <2>1. p \notin untracked' /\ p \notin untracked /\ (StopPending(p)' <=> StopPending(p))
    BY <1>1, <1>2, <1>7 DEF Timed
  <2>2. CASE ~Timed(p)
    <3>1. ~StartUnstopped(p)
      BY <2>2 DEF TimedInv
    <3>2. CASE p \in sets
      BY <2>1, <2>2, <3>1, <3>2, <1>1 DEF TimedInv
    <3>3. CASE p \in sets' \ sets
      <4>1. p = Task.object
        BY <2>1, <3>3, <1>3, <1>4
      <4>. QED BY <3>1, <4>1, <1>1, <1>2
    <3>. QED BY <3>1, <3>2, <3>3, <1>1
  <2>3. CASE Timed(p)
    <3>1. p = Task.object /\ UNCHANGED sets
      BY <2>3, <1>5, <1>7 DEF Timed
    <3>2. p \notin sets
      BY <2>1, <3>1, <1>2 DEF StartInv
    <3>. QED BY <3>1, <3>2, <1>2, UnstoppedIsPending
  <2>. QED BY <2>2, <2>3
<1>. QED BY <1>8, <1>9, <1>10, <1>11, <1>12, <1>13, <1>14, <1>15, <1>16, <1>17

LEMMA StopTaskStep ==
  ASSUME IInv, StopTask
  PROVE  IInv'
<1>. USE Basics DEF IInv
<1>1. /\ queue' \in Seq(Tasks) /\ Made' = Made /\ OnceInv' /\ UNCHANGED advIds
      /\ Task.advId \in AdvIds /\ Task.object \in Objects /\ Task = queue[1]
      /\ \A p : /\ StartPending(p) <=> StartPending(p)' \/ StartAt(1, p)
                /\ StopPending(p) <=> StopPending(p)' \/ StopAt(1, p)
                /\ StartUnstopped(p)' => StartUnstopped(p)
                /\ StartAt(1, p) => StopPending(p)' \/ StartUnstopped(p)
      /\ \A p \in Objects : StartAt(1, p) => ~StartPending(p)'
      /\ \A n \in 1 .. Len(queue') :
           queue'[n].kind = "start" => queue'[n].advId = advIds[queue'[n].object]
  BY TaskTaken DEF StopTask
<1>2. \A p : ~StartAt(1, p) /\ (StopAt(1, p) <=> advIds[p] = Task.advId)
  BY <1>1 DEF StopTask, StartAt, StopAt
<1>3. /\ untracked \subseteq untracked' /\ untimed \subseteq untimed'
      /\ reports' \in Seq(Reports)
      /\ \/ /\ Holder \in sets /\ sets' = sets \ {Holder} /\ UNCHANGED history
            /\ \A p : ReportPending(p)' <=> ReportPending(p) \/ p = Holder
         \/ /\ Holder \in sets /\ Holder \in untimed' /\ UNCHANGED sets
            /\ untracked' \subseteq untracked \cup {Holder}
            /\ untimed' \subseteq untimed \cup {Holder}
            /\ \/ \A p : ReportPending(p)' <=> ReportPending(p)
               \/ /\ Holder \in untracked'
                  /\ \A p : ReportPending(p)' <=> ReportPending(p) \/ p = Holder
         \/ /\ ~(advertiser /\ up /\ Holder \in registered \cap sets)
            /\ UNCHANGED <<sets, history>>
            /\ \A p : ReportPending(p)' <=> ReportPending(p)
  <2>1. CASE advertiser /\ up /\ Holder \in registered \cap sets
    <3>1. Holder \in Objects /\ Holder \in sets /\ UNCHANGED reporter
      BY <2>1 DEF StopTask, TypeOK
    <3>2. ASSUME Report("stopped", Holder)
          PROVE  /\ reports' \in Seq(Reports)
                 /\ \A p : ReportPending(p)' <=> ReportPending(p) \/ p = Holder
      BY <3>1, <3>2, ReportSent
    <3>3. ASSUME UNCHANGED reports
          PROVE  /\ reports' \in Seq(Reports)
                 /\ \A p : ReportPending(p)' <=> ReportPending(p)
      BY <3>1, <3>3, ReportsAreKept DEF TypeOK
    <3>4. CASE sets' = sets \ {Holder} /\ Report("stopped", Holder) /\ UNCHANGED history
      BY <3>1, <3>2, <3>4 DEF history
    <3>5. CASE StopFails
      BY <3>1, <3>2, <3>3, <3>5 DEF StopFails
    <3>. QED BY <2>1, <3>4, <3>5 DEF StopTask
  <2>2. CASE ~(advertiser /\ up /\ Holder \in registered \cap sets)
    BY <2>2, ReportsAreKept DEF StopTask, TypeOK, history
  <2>. QED BY <2>1, <2>2
<1>4. TypeOK'
  <2>1. UNCHANGED <<slots, timerIds, wanted, advertiser, up, advIds, reporter, timers,
                    fired, registered, notices, deaths, crashed>>
    BY DEF StopTask, table, clock
  <2>2. /\ sets' \subseteq Objects
        /\ untracked' \subseteq Objects /\ untimed' \subseteq Objects
    BY <1>3 DEF TypeOK, history
  <2>. QED BY <1>1, <1>3, <2>1, <2>2 DEF TypeOK
<1>5. MadeInv'
  BY <1>1, <1>2, <1>3 DEF MadeInv, StopTask, table, clock, service, history
<1>6. AdvIdInv'
  BY <1>1, <1>2, <1>3 DEF AdvIdInv, StopTask, table, clock, service, history
<1>7. EmptyInv'
  BY <1>1, <1>2, <1>3 DEF EmptyInv, StopTask, table, clock, service, history
<1>8. OnceInv'
  BY <1>1
<1>9. StartInv'
  BY <1>1, <1>2, <1>3 DEF StartInv, StopTask, table, clock, service, history
<1>10. ReportInv'
  BY <1>1, <1>2, <1>3 DEF ReportInv, StopTask, table, clock, service, history
<1>11. SetsHaveAnAdvId'
  BY <1>1, <1>2, <1>3 DEF SetsHaveAnAdvId, StopTask, table, clock, service, history
<1>12. StartFindsAdvertiser'
  BY <1>1, <1>2, <1>3 DEF StartFindsAdvertiser, StopTask, table, clock, service, history
<1>13. TimedInv'
  <2>. SUFFICES ASSUME NEW p \in Addressed \cap Made, ~Timed(p)
                PROVE  /\ p \in sets' => StopPending(p)' \/ p \in untimed'
                       /\ ~StartUnstopped(p)'
    BY <1>1, <1>3 DEF TimedInv, Timed, StopTask, clock
  <2>1. ~StartUnstopped(p)'
    BY <1>1 DEF TimedInv
  <2>2. ASSUME p \in sets', ~StopPending(p)', p \notin untimed'
        PROVE  FALSE
    <3>1. p \in sets /\ p \in Objects /\ advIds[p] = Task.advId
      BY <1>1, <1>2, <1>3, <2>2 DEF TimedInv
    <3>2. p = Holder /\ p \in registered /\ p # None
      BY <3>1 DEF SetsHaveAnAdvId, Timed, Holder
    <3>3. advertiser /\ up
      BY <1>1, <3>1, <3>2 DEF EmptyInv, Holder
    <3>. QED BY <1>3, <2>2, <3>1, <3>2, <3>3
  <2>. QED BY <2>1, <2>2
<1>. QED BY <1>4, <1>5, <1>6, <1>7, <1>8, <1>9, <1>10, <1>11, <1>12, <1>13

LEMMA OnReportStep ==
  ASSUME IInv, OnReport
  PROVE  IInv'
<1>. USE Basics DEF IInv
<1>1. /\ reports' \in Seq(Reports)
      /\ Head(reports).object \in Objects
      /\ ReportPending(Head(reports).object)
      /\ \A p : ReportPending(p)' => ReportPending(p)
  BY ReportTaken DEF OnReport
<1>2. /\ UNCHANGED <<queue, advIds>>
      /\ Made' = Made
      /\ \A p : /\ StartPending(p)' <=> StartPending(p)
                /\ StopPending(p)' <=> StopPending(p)
                /\ StartUnstopped(p)' <=> StartUnstopped(p)
  BY QueueIsKept DEF OnReport, table, clock, service, history
<1>3. TypeOK'
  BY <1>1, <1>2 DEF TypeOK, OnReport, table, clock, service, history
<1>4. MadeInv'
  BY <1>1, <1>2 DEF MadeInv, OnReport, table, clock, service, history
<1>5. AdvIdInv'
  BY <1>1, <1>2 DEF AdvIdInv, OnReport, table, clock, service, history
<1>6. EmptyInv'
  BY <1>1, <1>2 DEF EmptyInv, OnReport, table, clock, service, history
<1>7. OnceInv'
  BY <1>2, QueueIsKept
<1>8. StartInv'
  BY <1>1, <1>2 DEF StartInv, OnReport, table, clock, service, history
<1>9. ReportInv'
  BY <1>1, <1>2 DEF ReportInv, OnReport, table, clock, service, history
<1>10. SetsHaveAnAdvId'
  BY <1>1, <1>2 DEF SetsHaveAnAdvId, ReportInv, MadeInv, OnReport, service, history
<1>11. StartFindsAdvertiser'
  BY <1>1, <1>2 DEF StartFindsAdvertiser, OnReport, table, clock, service, history
<1>12. TimedInv'
  BY <1>1, <1>2 DEF TimedInv, Timed, OnReport, table, clock, service, history
<1>. QED BY <1>3, <1>4, <1>5, <1>6, <1>7, <1>8, <1>9, <1>10, <1>11, <1>12

LEMMA ClearAdvertisingResourceStep ==
  ASSUME IInv, ClearAdvertisingResource
  PROVE  IInv'
<1>. USE Basics DEF IInv
<1>1. /\ reporter.object \in Made /\ advIds[reporter.object] \in AdvIds
      /\ ReportPending(reporter.object)
  BY DEF ClearAdvertisingResource, MadeInv, ReportPending
<1>2. UNCHANGED reports /\ \A p : ReportPending(p)' => ReportPending(p)
  BY DEF ClearAdvertisingResource, ReportPending, TypeOK
<1>3. /\ UNCHANGED <<queue, advIds>>
      /\ Made' = Made
      /\ \A p : /\ StartPending(p)' <=> StartPending(p)
                /\ StopPending(p)' <=> StopPending(p)
                /\ StartUnstopped(p)' <=> StartUnstopped(p)
  BY QueueIsKept DEF ClearAdvertisingResource, table, clock, service, history
<1>4. TypeOK'
  BY <1>1, <1>2, <1>3 DEF TypeOK, ClearAdvertisingResource, table, clock, service, history
<1>5. MadeInv'
  BY <1>1, <1>2, <1>3 DEF MadeInv, ClearAdvertisingResource, table, clock, service, history
<1>6. AdvIdInv'
  BY <1>1, <1>2, <1>3 DEF AdvIdInv, ClearAdvertisingResource, table, clock, service, history
<1>7. EmptyInv'
  BY <1>1, <1>2, <1>3 DEF EmptyInv, TypeOK, ClearAdvertisingResource, service
<1>8. OnceInv'
  BY <1>3, QueueIsKept
<1>9. StartInv'
  BY <1>1, <1>2, <1>3 DEF StartInv, ClearAdvertisingResource, table, clock, service, history
<1>10. ReportInv'
  BY <1>1, <1>2, <1>3 DEF ReportInv, ClearAdvertisingResource, table, clock, service,
       history
<1>11. SetsHaveAnAdvId'
  <2>. SUFFICES ASSUME NEW o \in sets, o \notin untracked'
                PROVE  slots'[advIds[o]] = o /\ o \in registered'
    BY <1>3 DEF SetsHaveAnAdvId, ClearAdvertisingResource, service
  <2>1. o \in Made /\ o # None /\ o \notin untracked /\ advIds[o] \in AdvIds
    BY DEF MadeInv, ClearAdvertisingResource
  <2>2. slots[advIds[o]] = o /\ o \in registered /\ o # reporter.object
    BY <1>1, <2>1 DEF SetsHaveAnAdvId, ReportInv
  <2>3. advIds[o] # advIds[reporter.object]
    BY <2>1, <2>2 DEF ClearAdvertisingResource
  <2>. QED BY <1>1, <2>1, <2>2, <2>3 DEF ClearAdvertisingResource, TypeOK
<1>12. StartFindsAdvertiser'
  BY <1>1, <1>2, <1>3 DEF StartFindsAdvertiser, ClearAdvertisingResource, table, clock,
       service, history
<1>13. TimedInv'
  BY <1>1, <1>2, <1>3 DEF TimedInv, Timed, ClearAdvertisingResource, table, clock,
       service, history
<1>. QED BY <1>4, <1>5, <1>6, <1>7, <1>8, <1>9, <1>10, <1>11, <1>12, <1>13

LEMMA StopUnregistersTimerStep ==
  ASSUME IInv, StopUnregistersTimer
  PROVE  IInv'
<1>. USE Basics DEF IInv
<1>1. /\ reporter.object \in Made /\ advIds[reporter.object] \in AdvIds
      /\ ReportPending(reporter.object)
  BY DEF StopUnregistersTimer, MadeInv, ReportPending
<1>2. UNCHANGED reports /\ \A p : ReportPending(p)' => ReportPending(p)
  BY DEF StopUnregistersTimer, ReportPending, TypeOK
<1>3. /\ UNCHANGED <<queue, advIds>>
      /\ Made' = Made
      /\ \A p : /\ StartPending(p)' <=> StartPending(p)
                /\ StopPending(p)' <=> StopPending(p)
                /\ StartUnstopped(p)' <=> StartUnstopped(p)
  BY QueueIsKept DEF StopUnregistersTimer, UnRegister, table, clock, service, history
<1>4. TypeOK'
  BY <1>1, <1>2, <1>3 DEF TypeOK, StopUnregistersTimer, UnRegister, table, clock, service,
       history
<1>5. MadeInv'
  BY <1>1, <1>2, <1>3 DEF MadeInv, StopUnregistersTimer, UnRegister, table, clock,
       service, history
<1>6. AdvIdInv'
  BY <1>1, <1>2, <1>3 DEF AdvIdInv, StopUnregistersTimer, UnRegister, table, clock,
       service, history
<1>7. EmptyInv'
  BY <1>1, <1>2, <1>3 DEF EmptyInv, StopUnregistersTimer, UnRegister, table, clock,
       service, history
<1>8. OnceInv'
  BY <1>3, QueueIsKept
<1>9. StartInv'
  BY <1>1, <1>2, <1>3 DEF StartInv, StopUnregistersTimer, UnRegister, table, clock,
       service, history
<1>10. ReportInv'
  BY <1>1, <1>2, <1>3 DEF ReportInv, StopUnregistersTimer, UnRegister, table, clock,
       service, history
<1>11. SetsHaveAnAdvId'
  BY <1>1, <1>2, <1>3 DEF SetsHaveAnAdvId, StopUnregistersTimer, UnRegister, table, clock,
       service, history
<1>12. StartFindsAdvertiser'
  BY <1>1, <1>2, <1>3 DEF StartFindsAdvertiser, StopUnregistersTimer, UnRegister, table,
       clock, service, history
<1>13. TimedInv'
  <2>. SUFFICES ASSUME NEW p \in Addressed \cap Made, ~Timed(p)'
                PROVE  /\ p \in sets => StopPending(p)
                       /\ ~StartUnstopped(p)
    BY <1>3 DEF TimedInv, StopUnregistersTimer, table, service
  <2>1. CASE ~Timed(p)
    BY <2>1 DEF TimedInv
  <2>2. CASE p = reporter.object
    BY <1>1, <2>2, UnstoppedIsPending DEF ReportInv, StartInv, Timed, StopUnregistersTimer
  <2>3. CASE Timed(p) /\ p # reporter.object
    <3>1. p = timerIds[advIds[reporter.object]] /\ p # None
      BY <2>3 DEF Timed, StopUnregistersTimer, UnRegister
    <3>. QED BY <2>3, <3>1 DEF Timed, StopUnregistersTimer
  <2>. QED BY <2>1, <2>2, <2>3
<1>. QED BY <1>4, <1>5, <1>6, <1>7, <1>8, <1>9, <1>10, <1>11, <1>12, <1>13

LEMMA ServiceDiesStep ==
  ASSUME IInv, ServiceDies
  PROVE  IInv'
<1>. USE Basics DEF IInv
<1>1. /\ UNCHANGED <<queue, advIds>>
      /\ Made' = Made
      /\ \A p : /\ StartPending(p)' <=> StartPending(p)
                /\ StopPending(p)' <=> StopPending(p)
                /\ StartUnstopped(p)' <=> StartUnstopped(p)
  BY QueueIsKept DEF ServiceDies, table, clock, service, history
<1>2. /\ UNCHANGED <<reports, reporter>>
      /\ \A p : ReportPending(p)' <=> ReportPending(p)
  BY ReportsAreKept DEF ServiceDies, table, clock, service, history
<1>3. TypeOK'
  <2>1. UNCHANGED <<slots, timerIds, wanted, advertiser, advIds, queue, reports, reporter,
                    timers, fired, registered, untracked, untimed, crashed>>
    BY DEF ServiceDies, table, clock, service, history
  <2>2. up' = FALSE /\ sets' = {} /\ notices' = {"remoteDied", "clearGlobal"}
    BY DEF ServiceDies
  <2>3. deaths' \in Nat
    BY DEF ServiceDies, TypeOK
  <2>. QED BY <2>1, <2>2, <2>3 DEF TypeOK
<1>4. MadeInv'
  BY <1>1, <1>2 DEF MadeInv, ServiceDies, table, clock, service, history
<1>5. AdvIdInv'
  BY <1>1, <1>2 DEF AdvIdInv, ServiceDies, table, clock, service, history
<1>6. EmptyInv'
  BY <1>1, <1>2 DEF EmptyInv, ServiceDies, table, clock, service, history
<1>7. OnceInv'
  BY <1>1, QueueIsKept
<1>8. StartInv'
  BY <1>1, <1>2 DEF StartInv, ServiceDies, table, clock, service, history
<1>9. ReportInv'
  BY <1>1, <1>2 DEF ReportInv, ServiceDies, table, clock, service, history
<1>10. SetsHaveAnAdvId'
  BY <1>1, <1>2 DEF SetsHaveAnAdvId, ServiceDies, table, clock, service, history
<1>11. StartFindsAdvertiser'
  BY <1>1, <1>2 DEF StartFindsAdvertiser, ServiceDies, table, clock, service, history
<1>12. TimedInv'
  BY <1>1, <1>2 DEF TimedInv, Timed, ServiceDies, table, clock, service, history
<1>. QED BY <1>3, <1>4, <1>5, <1>6, <1>7, <1>8, <1>9, <1>10, <1>11, <1>12

LEMMA ServiceStartsStep ==
  ASSUME IInv, ServiceStarts
  PROVE  IInv'
<1>. USE Basics DEF IInv
<1>1. /\ UNCHANGED <<queue, advIds>>
      /\ Made' = Made
      /\ \A p : /\ StartPending(p)' <=> StartPending(p)
                /\ StopPending(p)' <=> StopPending(p)
                /\ StartUnstopped(p)' <=> StartUnstopped(p)
  BY QueueIsKept DEF ServiceStarts, table, clock, service, history
<1>2. /\ UNCHANGED <<reports, reporter>>
      /\ \A p : ReportPending(p)' <=> ReportPending(p)
  BY ReportsAreKept DEF ServiceStarts, table, clock, service, history
<1>3. TypeOK'
  BY <1>1, <1>2 DEF TypeOK, ServiceStarts, table, clock, service, history
<1>4. MadeInv'
  BY <1>1, <1>2 DEF MadeInv, ServiceStarts, table, clock, service, history
<1>5. AdvIdInv'
  BY <1>1, <1>2 DEF AdvIdInv, ServiceStarts, table, clock, service, history
<1>6. EmptyInv'
  BY <1>1, <1>2 DEF EmptyInv, ServiceStarts, table, clock, service, history
<1>7. OnceInv'
  BY <1>1, QueueIsKept
<1>8. StartInv'
  BY <1>1, <1>2 DEF StartInv, ServiceStarts, table, clock, service, history
<1>9. ReportInv'
  BY <1>1, <1>2 DEF ReportInv, ServiceStarts, table, clock, service, history
<1>10. SetsHaveAnAdvId'
  BY <1>1, <1>2 DEF SetsHaveAnAdvId, ServiceStarts, table, clock, service, history
<1>11. StartFindsAdvertiser'
  BY <1>1, <1>2 DEF StartFindsAdvertiser, ServiceStarts, table, clock, service, history
<1>12. TimedInv'
  BY <1>1, <1>2 DEF TimedInv, Timed, ServiceStarts, table, clock, service, history
<1>. QED BY <1>3, <1>4, <1>5, <1>6, <1>7, <1>8, <1>9, <1>10, <1>11, <1>12

LEMMA OnRemoteDiedStep ==
  ASSUME IInv, OnRemoteDied
  PROVE  IInv'
<1>. USE Basics DEF IInv
<1>1. /\ UNCHANGED <<queue, advIds>>
      /\ Made' = Made
      /\ \A p : /\ StartPending(p)' <=> StartPending(p)
                /\ StopPending(p)' <=> StopPending(p)
                /\ StartUnstopped(p)' <=> StartUnstopped(p)
  BY QueueIsKept DEF OnRemoteDied, table, clock, service, history
<1>2. /\ UNCHANGED <<reports, reporter>>
      /\ \A p : ReportPending(p)' <=> ReportPending(p)
  BY ReportsAreKept DEF OnRemoteDied, table, clock, service, history
<1>3. TypeOK'
  BY <1>1, <1>2 DEF TypeOK, OnRemoteDied, table, clock, service, history
<1>4. MadeInv'
  BY <1>1, <1>2 DEF MadeInv, OnRemoteDied, table, clock, service, history
<1>5. AdvIdInv'
  BY <1>1, <1>2 DEF AdvIdInv, OnRemoteDied, table, clock, service, history
<1>6. EmptyInv'
  BY <1>1, <1>2 DEF EmptyInv, OnRemoteDied, table, clock, service, history
<1>7. OnceInv'
  BY <1>1, QueueIsKept
<1>8. StartInv'
  BY <1>1, <1>2 DEF StartInv, OnRemoteDied, table, clock, service, history
<1>9. ReportInv'
  BY <1>1, <1>2 DEF ReportInv, OnRemoteDied, table, clock, service, history
<1>10. SetsHaveAnAdvId'
  BY <1>1, <1>2 DEF SetsHaveAnAdvId, OnRemoteDied, table, clock, service, history
<1>11. StartFindsAdvertiser'
  BY <1>1, <1>2 DEF StartFindsAdvertiser, OnRemoteDied, table, clock, service, history
<1>12. TimedInv'
  BY <1>1, <1>2 DEF TimedInv, Timed, OnRemoteDied, table, clock, service, history
<1>. QED BY <1>3, <1>4, <1>5, <1>6, <1>7, <1>8, <1>9, <1>10, <1>11, <1>12

LEMMA ClearGlobalResourceStep ==
  ASSUME IInv, ClearGlobalResource
  PROVE  IInv'
<1>. USE Basics DEF IInv
<1>1. /\ UNCHANGED <<queue, advIds>>
      /\ Made' = Made
      /\ \A p : /\ StartPending(p)' <=> StartPending(p)
                /\ StopPending(p)' <=> StopPending(p)
                /\ StartUnstopped(p)' <=> StartUnstopped(p)
  BY QueueIsKept DEF ClearGlobalResource, table, clock, service, history
<1>2. /\ UNCHANGED <<reports, reporter>>
      /\ \A p : ReportPending(p)' <=> ReportPending(p)
  BY ReportsAreKept DEF ClearGlobalResource, table, clock, service, history
<1>3. TypeOK'
  BY <1>1, <1>2 DEF TypeOK, ClearGlobalResource, table, clock, service, history
<1>4. MadeInv'
  BY <1>1, <1>2 DEF MadeInv, ClearGlobalResource, table, clock, service, history
<1>5. AdvIdInv'
  BY <1>1, <1>2 DEF AdvIdInv, ClearGlobalResource, table, clock, service, history
<1>6. EmptyInv'
  BY <1>1, <1>2 DEF EmptyInv, ClearGlobalResource, table, clock, service, history
<1>7. OnceInv'
  BY <1>1, QueueIsKept
<1>8. StartInv'
  BY <1>1, <1>2 DEF StartInv, ClearGlobalResource, table, clock, service, history
<1>9. ReportInv'
  BY <1>1, <1>2 DEF ReportInv, ClearGlobalResource, table, clock, service, history
<1>10. SetsHaveAnAdvId'
  BY <1>1, <1>2 DEF SetsHaveAnAdvId, MadeInv, ClearGlobalResource, table, clock, service,
       history
<1>11. StartFindsAdvertiser'
  BY <1>1, <1>2 DEF StartFindsAdvertiser, ClearGlobalResource, table, clock, service,
       history
<1>12. TimedInv'
  BY <1>1, <1>2 DEF TimedInv, Timed, ClearGlobalResource, table, clock, service, history
<1>. QED BY <1>3, <1>4, <1>5, <1>6, <1>7, <1>8, <1>9, <1>10, <1>11, <1>12

-----------------------------------------------------------------------------
(***************************************************************************)
(* The theorems                                                            *)
(***************************************************************************)
LEMMA InitEstablishes == Init => IInv
<1>. SUFFICES ASSUME Init
              PROVE  IInv
  OBVIOUS
<1>. USE Basics, AdvAssumption DEF Init
<1>1. TypeOK
  <2>1. /\ advIds \in Seq(AdvIds) /\ Len(advIds) <= MaxStarts
        /\ queue \in Seq(Tasks) /\ reports \in Seq(Reports)
    OBVIOUS
  <2>2. /\ slots \in [AdvIds -> Objects \cup {None}]
        /\ timerIds \in [AdvIds -> Objects \cup {None}]
        /\ wanted \in [AdvIds -> Objects \cup {None}]
    OBVIOUS
  <2>3. reporter \in [pc : {"idle", "clear", "timer"}, object : Objects \cup {None}]
    OBVIOUS
  <2>. QED BY <2>1, <2>2, <2>3 DEF TypeOK
<1>2. Len(queue) = 0 /\ Len(reports) = 0 /\ Made = {} /\ reporter.pc = "idle"
  BY DEF Made
<1>3. \A o : ~StartPending(o) /\ ~StartUnstopped(o) /\ ~ReportPending(o)
  BY <1>2 DEF StartPending, StartUnstopped, ReportPending
<1>4. MadeInv /\ AdvIdInv /\ EmptyInv /\ OnceInv
  BY <1>2, <1>3 DEF MadeInv, AdvIdInv, EmptyInv, OnceInv
<1>5. StartInv /\ ReportInv /\ TimedInv
  BY <1>2 DEF StartInv, ReportInv, TimedInv
<1>6. SetsHaveAnAdvId /\ StartFindsAdvertiser
  BY DEF SetsHaveAnAdvId, StartFindsAdvertiser
<1>. QED BY <1>1, <1>4, <1>5, <1>6 DEF IInv

LEMMA StutterStep ==
  ASSUME IInv, UNCHANGED vars
  PROVE  IInv'
<1>. USE DEF IInv, vars, table, clock, service, history
<1>1. TypeOK' /\ AdvIdInv' /\ EmptyInv' /\ OnceInv'
  BY DEF TypeOK, AdvIdInv, EmptyInv, OnceInv, StartAt, Made
<1>2. /\ Made' = Made
      /\ \A p : /\ StartPending(p)' <=> StartPending(p)
                /\ StopPending(p)' <=> StopPending(p)
                /\ StartUnstopped(p)' <=> StartUnstopped(p)
                /\ ReportPending(p)' <=> ReportPending(p)
  BY QueueIsKept, ReportsAreKept
<1>3. MadeInv' /\ StartInv' /\ ReportInv'
  BY <1>2 DEF MadeInv, StartInv, ReportInv
<1>4. SetsHaveAnAdvId' /\ StartFindsAdvertiser'
  BY DEF SetsHaveAnAdvId, StartFindsAdvertiser
<1>5. TimedInv'
  BY <1>2 DEF TimedInv, Timed
<1>. QED BY <1>1, <1>3, <1>4, <1>5

LEMMA NextPreserves == IInv /\ [Next]_vars => IInv'
<1>. SUFFICES ASSUME IInv, [Next]_vars
              PROVE  IInv'
  OBVIOUS
<1>1. CASE Step
  BY <1>1, StartTaskStep, StopTaskStep, OnReportStep, ClearAdvertisingResourceStep,
       StopUnregistersTimerStep, OnRemoteDiedStep, ClearGlobalResourceStep DEF Step
<1>2. CASE BleStartAdv
  BY <1>2, BleStartAdvStep
<1>3. CASE \E i \in AdvIds : ApplicationStops(i)
  BY <1>3, ApplicationStopsStep
<1>4. CASE \E o \in Objects : TimerFires(o) \/ TimerStops(o)
  BY <1>4, TimerFiresStep, TimerStopsStep
<1>5. CASE ServiceDies \/ ServiceStarts
  BY <1>5, ServiceDiesStep, ServiceStartsStep
<1>6. CASE UNCHANGED vars
  BY <1>6, StutterStep
<1>. QED BY <1>1, <1>2, <1>3, <1>4, <1>5, <1>6 DEF Next

\* The inductive invariant holds in every behaviour of the adapter.
THEOREM Invariance == Spec => []IInv
BY InitEstablishes, NextPreserves, PTL DEF Spec

(***************************************************************************)
(* BleStopAdv reaches every advertising set the service keeps: its         *)
(* callback is in g_bleAdvCallbacks and known to BleAdvertiser, unless the *)
(* table or BleAdvertiser had lost it before, or a stop of it failed with  *)
(* a report.                                                               *)
(***************************************************************************)
THEOREM SetsCanBeNamed == Spec => []SetsHaveAnAdvId
<1>1. IInv => SetsHaveAnAdvId
  BY DEF IInv
<1>. QED BY <1>1, Invariance, PTL

(***************************************************************************)
(* startAdvFunc, which does not test g_BleAdvertiser, is never run without *)
(* one for an advertisement that the table still has.                      *)
(***************************************************************************)
THEOREM NoStartWithoutAdvertiser == Spec => []StartFindsAdvertiser
<1>1. IInv => StartFindsAdvertiser
  BY DEF IInv
<1>. QED BY <1>1, Invariance, PTL

(***************************************************************************)
(* An advertisement with an address of its own does not outlive            *)
(* ADV_ADDR_TIME_THRESHOLD: its timer runs or has fired, or its stop is    *)
(* queued, unless the timer could not be registered, was unregistered for  *)
(* another advertisement of the same advId, or its stop failed.            *)
(***************************************************************************)
THEOREM AddressIsNotKept == Spec => []AddressedSetsTimed
<1>1. ASSUME IInv
      PROVE  AddressedSetsTimed
  <2>. SUFFICES ASSUME NEW o \in sets \cap Addressed, ~Timed(o)
                PROVE  \E n \in DOMAIN queue :
                         queue[n].kind = "stop" /\ queue[n].advId = advIds[o]
    BY DEF AddressedSetsTimed, Timed
  <2>1. StopPending(o)
    BY <1>1 DEF IInv, TimedInv, MadeInv
  <2>2. DOMAIN queue = 1 .. Len(queue)
    BY <1>1 DEF IInv, TypeOK
  <2>. QED BY <2>1, <2>2 DEF StopPending, StopAt
<1>2. IInv => AddressedSetsTimed
  BY <1>1
<1>. QED BY <1>2, Invariance, PTL

-----------------------------------------------------------------------------
(***************************************************************************)
(* Sockets.                                                                *)
(*                                                                         *)
(* What the two properties say of every state is decided at the steps that *)
(* close or return, long after the steps that made it true.  SocketInv     *)
(* carries the reasons along: who refers to a socket and who is making it, *)
(* what keeps or takes back its observer, how old the ids are that the map *)
(* hands out next, and, as long as nobody has reached another's file, that *)
(* every number a socket still uses refers to its own.                     *)
(***************************************************************************)
Numbers == Fds \cup {InvalidFd, 0}

Ops == {"none", "create", "accept", "connect", "data", "close", "serverClose", "disconnect"}

CloseSteps == {"closeCheck", "closeSet", "closeFd", "deregister"}

\* A call is at one of its steps, between its entry and its return.
AtStep(op, where) ==
  \/ op = "create" /\ where \in {"listen", "call", "wait", "done", "listening", "refused", "add"}
  \/ op = "accept" /\ where \in {"call", "wait", "accepted", "adopt", "add"}
  \/ op = "connect" /\ where \in {"register", "connect", "call", "wait", "done", "add"}
  \/ op = "data" /\ where \in {"call", "wait", "done"}
  \/ op \in {"create", "connect", "close", "serverClose", "disconnect"} /\ where \in CloseSteps
  \/ op \in {"serverClose", "disconnect"} /\ where = "remove"

PCs == {"idle", "return", "listen", "call", "wait", "done", "listening", "refused", "add",
        "accepted", "adopt", "register", "connect", "remove"} \cup CloseSteps

Whats == {"none", "channel", "accept", "signal", "data"}

\* What a call waits for.
WaitsFor(op, what) ==
  \/ op = "create" /\ what = "channel"
  \/ op = "connect" /\ what \in {"channel", "signal"}
  \/ op = what /\ what \in {"accept", "data"}

ThreadRecord ==
  [op : Ops, pc : PCs, obj : Sockets \cup {NoSocket}, conn : Clients \cup {NoSocket},
   id : Nat, num : Numbers, what : Whats]

IsMap(m, S) == \E D \in SUBSET Nat : m \in [objects : [D -> S], objectIncrease : Nat]

SocketTypeOK ==
  /\ status \in [Sockets -> {"none", "init", "listening", "connected", "closed"}]
  /\ fd \in [Sockets -> Numbers]
  /\ stream \in [Clients -> Numbers]
  /\ acceptFd \in [Servers -> Numbers]
  /\ observers \subseteq Clients
  /\ IsMap(serverMap, Servers) /\ IsMap(clientMap, Clients)
  /\ thread \in [Threads -> ThreadRecord]
  /\ fdTable \in [Fds -> Sockets \cup {Free, Other}]
  /\ shut \subseteq Sockets
  /\ calls \in Nat /\ others \in Nat
  /\ overlapped \in [Sockets -> SUBSET SUBSET Ops]
  /\ touched \subseteq Sockets
  /\ laps \subseteq Nat /\ \E D \in SUBSET Nat : age \in [D -> Nat]

(***************************************************************************)
(* Calls.  What a thread's record holds at each step.                      *)
(***************************************************************************)
IsIdle(r) == r.pc = "idle" /\ r.op = "none" /\ r.obj = NoSocket /\ r.conn = NoSocket

CallAt(r) ==
  /\ r.op # "none" /\ (r.pc = "return" \/ AtStep(r.op, r.pc))
  /\ r.op \in {"create", "accept", "serverClose"} => r.obj \in Servers
  /\ r.op \in {"connect", "data", "disconnect"} => r.obj \in Clients
  /\ r.obj \in Sockets
  /\ r.pc \in {"call", "wait", "done"} => WaitsFor(r.op, r.what)
  /\ r.conn # NoSocket => r.op = "accept" /\ r.pc \in {"accepted", "adopt", "add", "return"}
  /\ r.op = "accept" /\ r.pc = "add" => r.conn # NoSocket

CallInv == \A t \in Threads : IsIdle(thread[t]) \/ CallAt(thread[t])

\* Thread t refers to socket s; it is still making it.
Uses(t, s) == s \in {thread[t].obj, thread[t].conn}

Making(t, s) ==
  /\ pc(t) # "return"
  /\ \/ thread[t].op \in {"create", "connect"} /\ thread[t].obj = s
     \/ thread[t].conn = s

StoredSockets == Stored(serverMap) \cup Stored(clientMap)

(***************************************************************************)
(* Objects.  What is referred to lives.  A socket that is being made is in *)
(* no map, and all that others do with it is close it; one that Accept     *)
(* makes is known to its thread alone.                                     *)
(***************************************************************************)
LiveInv ==
  \A s \in Sockets :
    /\ status[s] = "none" =>
         fd[s] = InvalidFd /\ s \notin StoredSockets /\ \A t \in Threads : ~Uses(t, s)
    /\ \A t \in Threads : Making(t, s) =>
         /\ s \notin StoredSockets
         /\ \A u \in Threads \ {t} : Uses(u, s) =>
              thread[u].op = "close" /\ thread[t].conn # s
         /\ thread[t].conn = s => thread[t].obj # s

NewInv ==
  \A t \in Threads :
    /\ pc(t) \in {"listen", "register", "connect"} => fd[thread[t].obj] = InvalidFd
    /\ pc(t) = "register" => thread[t].obj \notin observers
    /\ pc(t) \in {"accepted", "adopt"} /\ thread[t].conn # NoSocket =>
         thread[t].conn \notin observers \cup touched /\ fd[thread[t].conn] = InvalidFd

\* A socket is stored once, and a call that closes it by its id removes it.
StoredInv ==
  /\ \A i, j \in DOMAIN clientMap.objects :
       clientMap.objects[i] = clientMap.objects[j] => i = j
  /\ \A t \in Threads :
       LET r == thread[t] IN
       r.op = "disconnect" /\ r.pc # "return" /\ r.obj \in Stored(clientMap) =>
         r.id \in DOMAIN clientMap.objects /\ clientMap.objects[r.id] = r.obj

\* Calls made on a socket at one time are noted.
OverlapInv ==
  \A t, u \in Threads :
    t # u /\ thread[t].obj = thread[u].obj /\ thread[t].op # "none" =>
      {thread[t].op, thread[u].op} \in overlapped[thread[t].obj]

\* The cases in which a socket may touch another's file first.
Excused(s) == \E p \in overlapped[s] : p \cap Closing # {} \/ p = {"accept"}

\* "close" is only called while another thread makes the socket.
CloseInv == \A t \in Threads : thread[t].op = "close" => Excused(thread[t].obj)

(***************************************************************************)
(* Ids.  An id is as old as the counter says.                              *)
(***************************************************************************)
AgeInv ==
  LET next == clientMap.objectIncrease IN
  /\ next \in 1 .. (MaxObject + 1)
  /\ DOMAIN clientMap.objects \subseteq DOMAIN age
  /\ DOMAIN age \subseteq 1 .. MaxObject
  /\ \A i \in DOMAIN age :
       age[i] >= IF i < next THEN next - 1 - i ELSE next - 1 - i + MaxObject
  /\ \A t \in Threads : thread[t].op = "disconnect" => thread[t].id \in DOMAIN age
  /\ \A n \in laps : n >= MaxObject

IdInv ==
  laps = {} =>
    \A t \in Threads :
      LET r == thread[t] IN
      r.op = "disconnect" /\ r.pc # "return" /\ r.id \in DOMAIN clientMap.objects =>
        clientMap.objects[r.id] = r.obj

(***************************************************************************)
(* Accept.  Unless two of them overlapped, what one received is what the   *)
(* server holds for it.                                                    *)
(***************************************************************************)
AcceptInv ==
  \A t \in Threads :
    LET s == thread[t].obj
        c == thread[t].conn
    IN  pc(t) \in {"accepted", "adopt"} /\ {"accept"} \notin overlapped[s] =>
          /\ c = NoSocket => pc(t) = "accepted" /\ acceptFd[s] = InvalidFd
          /\ c # NoSocket => acceptFd[s] \in Fds
          /\ c # NoSocket => \A n \in Fds : fdTable[n] = c => n = acceptFd[s]
          /\ c # NoSocket /\ touched = {} => fdTable[acceptFd[s]] = c

LeakInv ==
  \A n \in Fds : fdTable[n] \in Sockets =>
    LET s == fdTable[n]
    IN  \/ fd[s] = n
        \/ \E t \in Threads : pc(t) \in {"accepted", "adopt"} /\ thread[t].conn = s
        \/ {"accept"} \in overlapped[s]

(***************************************************************************)
(* Observers.  Unless excused, an observer with the service has a thread   *)
(* that deregisters it, or its socket is not closed and is made, stored or *)
(* about to be closed.                                                     *)
(***************************************************************************)
ClosedInv ==
  \A t \in Threads :
    thread[t].op \in {"serverClose", "disconnect"}
      /\ pc(t) \in {"closeFd", "deregister", "remove"} => status[thread[t].obj] = "closed"

Deregisters(t, c) == thread[t].obj = c /\ pc(t) \in {"closeSet", "closeFd", "deregister"}

Keeps(t, c) ==
  /\ thread[t].obj = c
  /\ \/ thread[t].op = "connect" /\ pc(t) \in {"connect", "call", "wait", "done", "add"}
     \/ pc(t) = "closeCheck"

ClosedEarly(c) == {"connect", "close"} \in overlapped[c]

RegisterInv ==
  \A t \in Threads : pc(t) = "register" =>
    ClosedEarly(thread[t].obj) \/ status[thread[t].obj] # "closed"

Watched(c) ==
  \/ ClosedEarly(c)
  \/ \E t \in Threads : Deregisters(t, c)
  \/ /\ status[c] \notin {"none", "closed"}
     /\ c \in Stored(clientMap) \/ \E t \in Threads : Keeps(t, c)

ObserverInv == laps = {} => \A c \in observers : Watched(c)

(***************************************************************************)
(* Numbers.  As long as nobody touched another's file, the numbers that a  *)
(* socket without an excuse uses refer to its file; what its stream copied *)
(* may outlive that only between Close and the removal of the id.          *)
(***************************************************************************)
FdInv == \A s \in Sockets : fd[s] \in Fds /\ ~Excused(s) => fdTable[fd[s]] = s

CallNumInv ==
  \A t \in Threads :
    LET r == thread[t] IN
    r.pc = "call" /\ r.num \in Fds /\ ~Excused(r.obj) => fdTable[r.num] = r.obj

Disconnected(t, c) ==
  thread[t].op = "disconnect" /\ thread[t].obj = c /\ pc(t) \in {"deregister", "remove"}

OwnStream(c) ==
  /\ ~Excused(c) /\ stream[c] \in Fds
  /\ c \in Stored(clientMap) \/ \E t \in Threads : Making(t, c) /\ pc(t) = "add"
  => fdTable[stream[c]] = c \/ \E t \in Threads : Disconnected(t, c)

StreamInv == \A c \in Clients : OwnStream(c)

ListenInv ==
  \A t \in Threads :
    LET r == thread[t] IN
    r.op = "create" /\ r.pc \in {"listen", "call", "wait", "done", "listening", "refused"}
      /\ ~Excused(r.obj) =>
      r.pc # "refused" /\ status[r.obj] = "init"

NumberInv == touched = {} => FdInv /\ CallNumInv /\ StreamInv

SocketInv ==
  /\ SocketTypeOK /\ CallInv /\ LiveInv /\ NewInv /\ StoredInv /\ OverlapInv /\ CloseInv
  /\ AgeInv /\ IdInv /\ AcceptInv /\ LeakInv /\ ClosedInv /\ RegisterInv /\ ObserverInv
  /\ ListenInv /\ NumberInv /\ OwnDescriptorsOnly

-----------------------------------------------------------------------------
(***************************************************************************)
(* Steps of a call.                                                        *)
(***************************************************************************)
LEMMA NamesDiffer ==
  /\ NoSocket \notin Sockets /\ Free \notin Sockets /\ Other \notin Sockets
  /\ Servers \cap Clients = {} /\ Sockets = Servers \cup Clients
  /\ MaxFd \in Nat /\ MaxObject \in Nat /\ MaxObject > 0 /\ MaxCalls \in Nat /\ MaxOthers \in Nat
  /\ InvalidFd \notin Fds /\ 0 \notin Fds /\ Fds \subseteq Nat
  /\ Fds \subseteq Numbers /\ InvalidFd \in Numbers /\ 0 \in Numbers
BY SocketAssumption DEF Sockets, Fds, InvalidFd, Numbers

LEMMA ThreadFields ==
  ASSUME SocketTypeOK, NEW t \in Threads
  PROVE  /\ thread[t] \in ThreadRecord
         /\ thread[t].op \in Ops /\ thread[t].pc \in PCs
         /\ thread[t].obj \in Sockets \cup {NoSocket}
         /\ thread[t].conn \in Clients \cup {NoSocket}
         /\ thread[t].id \in Nat /\ thread[t].num \in Numbers /\ thread[t].what \in Whats
<1>1. thread[t] \in ThreadRecord
  BY DEF SocketTypeOK
<1>. QED BY <1>1 DEF ThreadRecord

\* The calls that are at each step.
LEMMA OpsAtSteps ==
  ASSUME CallInv, NEW t \in Threads
  PROVE  LET r == thread[t] IN
         /\ r.pc = "idle" <=> r.op = "none"
         /\ r.pc = "idle" => IsIdle(r)
         /\ r.pc # "idle" => CallAt(r) /\ r.obj \in Sockets
         /\ r.pc \in {"listen", "listening", "refused"} => r.op = "create"
         /\ r.pc \in {"register", "connect"} => r.op = "connect"
         /\ r.pc \in {"accepted", "adopt"} => r.op = "accept"
         /\ r.pc = "add" => r.op \in {"create", "accept", "connect"}
         /\ r.pc = "remove" => r.op \in {"serverClose", "disconnect"}
         /\ r.pc \in CloseSteps => r.op \notin {"accept", "data"}
         /\ r.pc \in {"call", "wait", "done"} => r.op \in {"create", "accept", "connect", "data"}
<1>. DEFINE r == thread[t]
<1>1. CASE IsIdle(r)
  BY <1>1 DEF IsIdle, CloseSteps
<1>2. CASE CallAt(r)
  BY <1>2 DEF CallAt, AtStep, CloseSteps, IsIdle
<1>. QED BY <1>1, <1>2 DEF CallInv

\* Thread t goes on to step w of its call.
MovesTo(t, w) ==
  /\ thread' \in [Threads -> ThreadRecord]
  /\ \A u \in Threads \ {t} : thread'[u] = thread[u]
  /\ thread'[t].op = thread[t].op /\ thread'[t].obj = thread[t].obj
  /\ thread'[t].conn = thread[t].conn /\ thread'[t].id = thread[t].id
  /\ thread'[t].pc = w

LEMMA GotoMoves ==
  ASSUME SocketTypeOK, NEW t \in Threads, NEW w \in PCs, w # "call", Goto(t, w)
  PROVE  /\ MovesTo(t, w)
         /\ w \in {"wait", "done"} => thread'[t].what = thread[t].what
<1>1. thread \in [Threads -> ThreadRecord] /\ thread[t] \in ThreadRecord
  BY DEF SocketTypeOK
<1>2. 0 \in Numbers /\ "none" \in Whats
  BY NamesDiffer DEF Whats
<1>. QED BY <1>1, <1>2 DEF Goto, MovesTo, ThreadRecord

LEMMA ReceiveMoves ==
  ASSUME SocketTypeOK, NEW t \in Threads, NEW what \in Whats, NEW n \in Numbers,
         Receive(t, what, n)
  PROVE  MovesTo(t, "call") /\ thread'[t].what = what /\ thread'[t].num = n
<1>1. thread \in [Threads -> ThreadRecord] /\ thread[t] \in ThreadRecord /\ "call" \in PCs
  BY DEF SocketTypeOK, PCs
<1>. QED BY <1>1 DEF Receive, MovesTo, ThreadRecord

\* A step inside a call that changes neither the maps nor the history of calls.
Inside(t, w) ==
  /\ MovesTo(t, w) /\ pc(t) \notin {"idle", "return"}
  /\ w = "return" \/ AtStep(thread[t].op, w)
  /\ w \in {"call", "wait", "done"} => WaitsFor(thread[t].op, thread'[t].what)
  /\ thread[t].conn # NoSocket => w \in {"accepted", "adopt", "add", "return"}
  /\ ~(thread[t].op = "accept" /\ w = "add")
  /\ UNCHANGED <<maps, overlapped, age, laps>>

LEMMA InsideKeeps ==
  ASSUME SocketTypeOK, CallInv, NEW t \in Threads, NEW w, Inside(t, w)
  PROVE  /\ CallAt(thread[t])
         /\ CallInv'
         /\ StoredInv => StoredInv'
         /\ OverlapInv => OverlapInv'
         /\ CloseInv => CloseInv'
         /\ AgeInv => AgeInv'
         /\ IdInv => IdInv'
<1>. USE DEF Inside, MovesTo, maps
<1>0. CallAt(thread[t])
  BY DEF CallInv, IsIdle, pc
<1>1. CallInv'
  <2>1. CallAt(thread'[t])
    BY <1>0 DEF CallAt
  <2>. QED BY <2>1 DEF CallInv
<1>2. StoredInv => StoredInv'
  BY <1>0 DEF StoredInv, Stored, pc
<1>3. OverlapInv => OverlapInv'
  <2>1. \A u \in Threads : thread'[u].op = thread[u].op /\ thread'[u].obj = thread[u].obj
    OBVIOUS
  <2>. QED BY <2>1 DEF OverlapInv
<1>4. CloseInv => CloseInv'
  BY DEF CloseInv, Excused
<1>5. AgeInv => AgeInv'
  BY DEF AgeInv
<1>6. IdInv => IdInv'
  BY DEF IdInv, pc
<1>. QED BY <1>0, <1>1, <1>2, <1>3, <1>4, <1>5, <1>6

\* Nobody comes to refer to another socket, and none ends.
LEMMA InsideKeepsLive ==
  ASSUME SocketTypeOK, CallInv, LiveInv, NEW t \in Threads, NEW w, Inside(t, w),
         \A s \in Sockets : status'[s] = "none" => status[s] = "none" /\ fd'[s] = fd[s]
  PROVE  LiveInv'
<1>1. \A u \in Threads, s \in Sockets : (Uses(u, s)' <=> Uses(u, s)) /\ (Making(u, s)' => Making(u, s))
  BY DEF Inside, MovesTo, Uses, Making, pc
<1>2. StoredSockets' = StoredSockets /\ \A u \in Threads : thread'[u].op = thread[u].op
        /\ thread'[u].obj = thread[u].obj /\ thread'[u].conn = thread[u].conn
  BY DEF Inside, MovesTo, StoredSockets, Stored, maps
<1>. QED BY <1>1, <1>2 DEF LiveInv

-----------------------------------------------------------------------------
(***************************************************************************)
(* Steps that change no socket, descriptor or observer.                    *)
(***************************************************************************)
LEMMA OthersOverlap ==
  ASSUME CallInv, OverlapInv, NEW t \in Threads, NEW u \in Threads \ {t},
         pc(t) # "idle", thread[u].obj = thread[t].obj
  PROVE  /\ {thread[t].op, thread[u].op} \in overlapped[thread[t].obj]
         /\ {thread[t].op, thread[u].op} \cap Closing # {} => Excused(thread[t].obj)
         /\ thread[t].op = "accept" /\ thread[u].op = "accept" =>
              {"accept"} \in overlapped[thread[t].obj] /\ Excused(thread[t].obj)
<1>1. thread[t].op # "none"
  BY OpsAtSteps DEF pc
<1>2. {thread[t].op, thread[u].op} \in overlapped[thread[t].obj]
  BY <1>1 DEF OverlapInv
<1>3. thread[t].op = "accept" /\ thread[u].op = "accept" =>
        {thread[t].op, thread[u].op} = {"accept"}
  OBVIOUS
<1>. QED BY <1>2, <1>3 DEF Excused

\* The socket that an Accept makes is its own.
LEMMA AcceptedAlone ==
  ASSUME SocketTypeOK, CallInv, LiveInv, NEW t \in Threads,
         pc(t) \in {"accepted", "adopt", "add"}, thread[t].conn # NoSocket
  PROVE  /\ thread[t].conn \in Clients /\ thread[t].conn \notin StoredSockets
         /\ thread[t].conn # thread[t].obj
         /\ \A u \in Threads \ {t} : ~Uses(u, thread[t].conn)
<1>1. thread[t].conn \in Clients /\ thread[t].conn \in Sockets
  BY ThreadFields, NamesDiffer
<1>2. Making(t, thread[t].conn)
  BY DEF Making
<1>. QED BY <1>1, <1>2 DEF LiveInv

\* While a thread makes its socket, the others can only close it.
LEMMA MadeAlone ==
  ASSUME CallInv, LiveInv, NEW t \in Threads, thread[t].op \in {"create", "connect"},
         pc(t) # "return"
  PROVE  /\ thread[t].obj \in Sockets \ StoredSockets
         /\ \A u \in Threads \ {t} : Uses(u, thread[t].obj) =>
              thread[u].op = "close" /\ thread[u].obj = thread[t].obj
<1>1. thread[t].obj \in Sockets /\ Making(t, thread[t].obj)
  BY OpsAtSteps DEF Making, pc
<1>2. ASSUME NEW u \in Threads \ {t}, thread[u].op = "close"
      PROVE  thread[u].conn = NoSocket
  BY <1>2, OpsAtSteps DEF CallAt
<1>3. NoSocket \notin Sockets
  BY NamesDiffer
<1>. QED BY <1>1, <1>2, <1>3 DEF LiveInv, Uses

LEMMA QuietFrame ==
  ASSUME SocketInv, SocketTypeOK', NEW t \in Threads, NEW w, Inside(t, w),
         UNCHANGED <<status, fd, stream, observers, fdTable>>,
         pc(t) \notin {"accepted", "adopt", "add", "closeSet", "closeFd", "deregister", "remove"},
         w \notin {"listen", "register", "connect", "adopt", "add", "closeFd", "deregister"},
         IF w = "accepted" THEN thread[t].op = "accept" /\ acceptFd' = [acceptFd EXCEPT ![thread[t].obj] = InvalidFd]
                           ELSE acceptFd' = acceptFd,
         w = "remove" => status[thread[t].obj] = "closed",
         thread[t].op = "connect" \/ pc(t) = "closeCheck" =>
           \/ w \in {"call", "wait", "done"} /\ pc(t) \in {"call", "wait", "done"}
           \/ w \in {"closeCheck", "closeSet"}
           \/ status[thread[t].obj] = "closed",
         w \in {"listening", "refused"} => pc(t) = "done" /\ (w = "refused" => status[thread[t].obj] # "init"),
         w \in {"call", "wait", "done"} => pc(t) \in {"call", "wait", "done"},
         w = "call" /\ touched = {} /\ ~Excused(thread[t].obj) /\ thread'[t].num \in Fds =>
           fdTable[thread'[t].num] = thread[t].obj,
         touched \subseteq touched', touched' \subseteq touched \cup {thread[t].obj},
         touched = {} /\ touched' # {} => Excused(thread[t].obj)
  PROVE  SocketInv'
<1>. USE DEF SocketInv
<1>1. /\ CallAt(thread[t]) /\ CallInv' /\ StoredInv' /\ OverlapInv' /\ CloseInv'
      /\ AgeInv' /\ IdInv' /\ LiveInv' /\ thread[t].obj \in Sockets
      /\ thread[t].op # "none" /\ AtStep(thread[t].op, pc(t))
  BY InsideKeeps, InsideKeepsLive, OpsAtSteps DEF Inside, pc, CallAt
<1>2. /\ \A u \in Threads \ {t} : thread'[u] = thread[u]
      /\ \A u \in Threads : thread'[u].obj = thread[u].obj /\ thread'[u].op = thread[u].op
                              /\ thread'[u].conn = thread[u].conn
      /\ pc(t)' = w
      /\ clientMap' = clientMap /\ overlapped' = overlapped /\ laps' = laps
  BY DEF Inside, MovesTo, pc, maps
<1>3. thread[t].op = "accept" => thread[t].conn = NoSocket /\ pc(t) \notin {"return", "add"}
  BY <1>1 DEF CallAt, AtStep, CloseSteps, pc, Inside
<1>4. NewInv'
  <2>1. ASSUME NEW u \in Threads, pc(u)' \in {"accepted", "adopt"}, thread'[u].conn # NoSocket
        PROVE  thread'[u].conn \notin observers \cup touched' /\ fd[thread'[u].conn] = InvalidFd
    <3>1. u # t
      BY <1>1, <1>2, <1>3, <2>1 DEF Inside
    <3>2. pc(u) \in {"accepted", "adopt"} /\ thread[u].conn \notin observers \cup touched
            /\ thread[u].conn # NoSocket /\ fd[thread[u].conn] = InvalidFd
      BY <3>1, <2>1, <1>2 DEF NewInv, pc
    <3>3. ~Uses(t, thread[u].conn)
      BY <3>1, <3>2, AcceptedAlone
    <3>. QED BY <3>2, <3>3, <1>2 DEF Uses
  <2>. QED BY <1>2, <2>1 DEF NewInv, pc
<1>5. AcceptInv'
  <2>. SUFFICES ASSUME NEW u \in Threads, pc(u)' \in {"accepted", "adopt"},
                       {"accept"} \notin overlapped[thread[u].obj]
                PROVE  LET s == thread[u].obj
                           c == thread[u].conn
                       IN  /\ c = NoSocket => pc(u)' = "accepted" /\ acceptFd'[s] = InvalidFd
                           /\ c # NoSocket => acceptFd'[s] \in Fds
                           /\ c # NoSocket => \A n \in Fds : fdTable[n] = c => n = acceptFd'[s]
                           /\ c # NoSocket /\ touched' = {} => fdTable[acceptFd'[s]] = c
    BY <1>2 DEF AcceptInv
  <2>1. CASE u = t
    <3>1. w = "accepted" /\ thread[t].obj \in Servers /\ thread[t].conn = NoSocket
      BY <2>1, <1>1, <1>2, <1>3 DEF CallAt, Inside
    <3>2. acceptFd'[thread[t].obj] = InvalidFd
      BY <3>1 DEF SocketTypeOK
    <3>. QED BY <2>1, <3>1, <3>2, <1>2
  <2>2. CASE u # t
    <3>1. pc(u) \in {"accepted", "adopt"} /\ pc(u)' = pc(u) /\ thread[u].op = "accept"
            /\ pc(u) # "idle" /\ thread[u].obj \in Servers
      BY <2>2, <1>2, OpsAtSteps DEF pc, CallAt
    <3>2. w = "accepted" => thread[u].obj # thread[t].obj
      BY <3>1, <2>2, OthersOverlap
    <3>3. acceptFd'[thread[u].obj] = acceptFd[thread[u].obj]
      BY <3>1, <3>2 DEF SocketTypeOK
    <3>4. touched' = {} => touched = {}
      OBVIOUS
    <3>. QED BY <3>1, <3>3, <3>4 DEF AcceptInv
  <2>. QED BY <2>1, <2>2
<1>6. LeakInv'
  BY <1>2 DEF LeakInv, pc
<1>7. ClosedInv'
  BY <1>2 DEF ClosedInv, pc
<1>8. RegisterInv'
  BY <1>2 DEF RegisterInv, ClosedEarly, pc
<1>9. ObserverInv'
  <2>. SUFFICES ASSUME laps = {}, NEW c \in observers, ~ClosedEarly(c)
                PROVE  \/ \E u \in Threads : Deregisters(u, c)'
                       \/ /\ status[c] \notin {"none", "closed"}
                          /\ c \in Stored(clientMap) \/ \E u \in Threads : Keeps(u, c)'
    BY <1>2 DEF ObserverInv, Watched, ClosedEarly, Stored
  <2>1. \A u \in Threads : Deregisters(u, c) => Deregisters(u, c)'
    BY <1>2 DEF Deregisters, pc
  <2>2. \A u \in Threads : Keeps(u, c) => Keeps(u, c)' \/ Deregisters(u, c)' \/ status[c] = "closed"
    BY <1>2 DEF Deregisters, Keeps, pc
  <2>. QED BY <2>1, <2>2 DEF ObserverInv, Watched
<1>10. ListenInv'
  BY <1>2, <1>1 DEF ListenInv, Excused, pc
<1>11. NumberInv'
  <2>. SUFFICES ASSUME touched = {}
                PROVE  FdInv' /\ CallNumInv' /\ StreamInv'
    BY DEF NumberInv
  <2>1. FdInv'
    BY <1>2 DEF NumberInv, FdInv, Excused
  <2>2. CallNumInv'
    BY <1>2 DEF NumberInv, CallNumInv, Excused, pc
  <2>3. StreamInv'
    <3>1. \A u \in Threads, c \in Clients : Disconnected(u, c) => Disconnected(u, c)'
      BY <1>2 DEF Disconnected, pc
    <3>2. \A u \in Threads, c \in Clients :
            Making(u, c)' /\ pc(u)' = "add" => Making(u, c) /\ pc(u) = "add"
      BY <1>2 DEF Making, pc
    <3>. QED BY <1>2, <3>1, <3>2 DEF NumberInv, StreamInv, OwnStream, Excused, Stored
  <2>. QED BY <2>1, <2>2, <2>3
<1>12. OwnDescriptorsOnly'
  BY <1>2 DEF OwnDescriptorsOnly, Excused
<1>. QED BY <1>1, <1>4, <1>5, <1>6, <1>7, <1>8, <1>9, <1>10, <1>11, <1>12

LEMMA FailMoves ==
  ASSUME SocketTypeOK, CallInv, NEW t \in Threads, pc(t) \in {"call", "wait"}, Fail(t)
  PROVE  \E w \in {"accepted", "closeCheck", "return"} :
           /\ MovesTo(t, w)
           /\ w = "return" \/ AtStep(thread[t].op, w)
           /\ IF w = "accepted"
                THEN thread[t].op = "accept" /\ acceptFd' = [acceptFd EXCEPT ![thread[t].obj] = InvalidFd]
                ELSE acceptFd' = acceptFd
           /\ thread[t].op = "connect" => w = "closeCheck"
<1>1. CallAt(thread[t]) /\ thread[t].op \in {"create", "accept", "connect", "data"}
  BY OpsAtSteps DEF pc
<1>2. thread[t].what = "accept" <=> thread[t].op = "accept"
  BY <1>1 DEF CallAt, WaitsFor, pc
<1>3. {"accepted", "closeCheck", "return"} \subseteq PCs
  BY DEF PCs, CloseSteps
<1>4. CASE thread[t].op = "accept"
  <2>1. MovesTo(t, "accepted")
    BY <1>2, <1>3, <1>4, GotoMoves DEF Fail
  <2>. QED BY <1>2, <1>4, <2>1 DEF Fail, AtStep
<1>5. CASE thread[t].op \in {"create", "connect"}
  <2>1. MovesTo(t, "closeCheck")
    BY <1>2, <1>3, <1>5, GotoMoves DEF Fail, AfterFailure
  <2>. QED BY <1>2, <1>5, <2>1 DEF Fail, AtStep, CloseSteps
<1>6. CASE thread[t].op = "data"
  <2>1. MovesTo(t, "return")
    BY <1>2, <1>3, <1>6, GotoMoves DEF Fail, AfterFailure
  <2>. QED BY <1>2, <1>6, <2>1 DEF Fail, AtStep
<1>. QED BY <1>1, <1>4, <1>5, <1>6

LEMMA FileOfNumber ==
  ASSUME SocketTypeOK, NEW n \in Numbers
  PROVE  /\ FileOf(n) \in Sockets \cup {Free, Other}
         /\ n \in Fds => FileOf(n) = fdTable[n]
         /\ n \notin Fds => FileOf(n) = Free
BY DEF FileOf, SocketTypeOK

LEMMA TouchEffect ==
  ASSUME SocketTypeOK, NEW s \in Sockets, NEW n \in Numbers, Touch(s, n)
  PROVE  /\ touched \subseteq touched' /\ touched' \subseteq touched \cup {s}
         /\ touched' \subseteq Sockets
         /\ touched' = {} /\ n \in Fds => fdTable[n] \in {Free, s}
         /\ touched = {} /\ touched' # {} => n \in Fds /\ fdTable[n] # s
BY FileOfNumber DEF Touch, SocketTypeOK

\* a failed wait
LEMMA FailStep ==
  ASSUME SocketInv, NEW t \in Threads, pc(t) \in {"call", "wait"}, Fail(t),
         UNCHANGED <<status, fd, stream, observers, maps, kernel, bounds, overlapped, age, laps>>,
         touched \subseteq touched', touched' \subseteq touched \cup {thread[t].obj},
         touched = {} /\ touched' # {} => Excused(thread[t].obj)
  PROVE  SocketInv'
<1>. USE DEF SocketInv
<1>1. PICK w \in {"accepted", "closeCheck", "return"} :
           /\ MovesTo(t, w)
           /\ w = "return" \/ AtStep(thread[t].op, w)
           /\ IF w = "accepted"
                THEN thread[t].op = "accept" /\ acceptFd' = [acceptFd EXCEPT ![thread[t].obj] = InvalidFd]
                ELSE acceptFd' = acceptFd
           /\ thread[t].op = "connect" => w = "closeCheck"
  BY FailMoves
<1>2. CallAt(thread[t]) /\ thread[t].obj \in Sockets /\ thread[t].conn = NoSocket
  BY OpsAtSteps DEF pc, CallAt
<1>3. Inside(t, w)
  BY <1>1, <1>2 DEF Inside, pc, maps
<1>4. SocketTypeOK'
  BY <1>1, <1>2, NamesDiffer DEF SocketTypeOK, MovesTo, maps, kernel, bounds, IsMap
<1>. QED BY <1>1, <1>2, <1>3, <1>4, QuietFrame DEF kernel

LEMMA SystemCallStep ==
  ASSUME SocketInv, NEW t \in Threads, SystemCall(t)
  PROVE  SocketInv'
<1>. USE DEF SocketInv
<1>1. /\ pc(t) = "call" /\ CallAt(thread[t]) /\ thread[t].obj \in Sockets
      /\ thread[t].conn = NoSocket /\ thread[t].num \in Numbers
  BY OpsAtSteps, ThreadFields DEF SystemCall, pc, CallAt
<1>2. /\ touched \subseteq touched' /\ touched' \subseteq touched \cup {thread[t].obj}
      /\ touched = {} /\ touched' # {} => Excused(thread[t].obj)
  BY <1>1, TouchEffect DEF SystemCall, NumberInv, CallNumInv, pc
<1>3. ASSUME NEW w \in {"wait", "done"}, Goto(t, w), UNCHANGED acceptFd,
             w = "done" => thread[t].what # "accept"
      PROVE  SocketInv'
  <2>1. MovesTo(t, w) /\ thread'[t].what = thread[t].what
    BY <1>3, GotoMoves DEF PCs
  <2>2. Inside(t, w)
    BY <1>1, <1>3, <2>1 DEF Inside, pc, SystemCall, CallAt, AtStep, WaitsFor, CloseSteps
  <2>3. SocketTypeOK'
    BY <1>1, <1>2, <1>3, <2>1 DEF SystemCall, SocketTypeOK, MovesTo, maps, kernel, bounds, IsMap
  <2>. QED BY <1>1, <1>2, <1>3, <2>2, <2>3, QuietFrame DEF SystemCall, kernel
<1>4. CASE Fail(t)
  BY <1>1, <1>2, <1>4, FailStep DEF SystemCall, kernel
<1>. QED BY <1>3, <1>4 DEF SystemCall

LEMMA WokenStep ==
  ASSUME SocketInv, NEW t \in Threads, Woken(t) \/ ServiceFails(t)
  PROVE  SocketInv'
BY FailStep DEF Woken, ServiceFails, socketHistory, kernel

\* steps that change nothing but the thread
LEMMA MoveStep ==
  ASSUME SocketInv, NEW t \in Threads, NEW w \in {"wait", "done", "listening", "refused", "call", "return", "closeSet", "remove"},
         pc(t) \in {"wait", "done", "closeCheck"}, AtStep(thread[t].op, pc(t)),
         MovesTo(t, w), w = "return" \/ AtStep(thread[t].op, w),
         UNCHANGED <<objects, observers, maps, kernel, bounds, socketHistory>>,
         pc(t) = "closeCheck" => w \in {"return", "remove", "closeSet"},
         w = "remove" => status[thread[t].obj] = "closed",
         thread[t].op = "connect" \/ pc(t) = "closeCheck" =>
           w \in {"closeSet", "call", "done"} \/ status[thread[t].obj] = "closed",
         w \in {"listening", "refused"} => pc(t) = "done" /\ (w = "refused" => status[thread[t].obj] # "init"),
         w \in {"call", "wait", "done"} => pc(t) # "closeCheck" /\ WaitsFor(thread[t].op, thread'[t].what),
         w = "call" /\ touched = {} /\ ~Excused(thread[t].obj) /\ thread'[t].num \in Fds =>
           fdTable[thread'[t].num] = thread[t].obj
  PROVE  SocketInv'
<1>. USE DEF SocketInv
<1>1. CallAt(thread[t]) /\ thread[t].conn = NoSocket
  BY OpsAtSteps DEF pc, CallAt
<1>2. Inside(t, w)
  BY <1>1 DEF Inside, pc, socketHistory, AtStep, CloseSteps
<1>3. SocketTypeOK'
  BY DEF SocketTypeOK, MovesTo, objects, maps, kernel, bounds, socketHistory, IsMap
<1>. QED BY <1>1, <1>2, <1>3, QuietFrame DEF objects, kernel, socketHistory

LEMMA ServiceSendsStep ==
  ASSUME SocketInv, NEW t \in Threads, ServiceSends(t)
  PROVE  SocketInv'
<1>1. CallAt(thread[t]) /\ pc(t) = "wait"
  BY OpsAtSteps DEF SocketInv, pc, ServiceSends
<1>2. MovesTo(t, "done") /\ thread'[t].what = thread[t].what
  BY GotoMoves DEF SocketInv, ServiceSends, PCs
<1>. QED BY <1>1, <1>2, MoveStep DEF ServiceSends, CallAt, AtStep, WaitsFor, pc, CloseSteps

LEMMA ListenCheckStep ==
  ASSUME SocketInv, NEW t \in Threads, ListenCheck(t)
  PROVE  SocketInv'
<1>1. PICK w \in {"listening", "refused"} :
        MovesTo(t, w) /\ (w = "refused" => status[thread[t].obj] # "init")
  BY GotoMoves DEF SocketInv, ListenCheck, PCs
<1>. QED BY <1>1, MoveStep DEF ListenCheck, AtStep, pc

LEMMA ConnectChannelStep ==
  ASSUME SocketInv, NEW t \in Threads, ConnectChannel(t)
  PROVE  SocketInv'
<1>1. thread[t].obj \in Sockets /\ fd[thread[t].obj] \in Numbers
  BY OpsAtSteps DEF SocketInv, SocketTypeOK, pc, ConnectChannel
<1>2. MovesTo(t, "call") /\ thread'[t].what = "signal" /\ thread'[t].num = fd[thread[t].obj]
  BY <1>1, ReceiveMoves DEF SocketInv, ConnectChannel, Whats
<1>3. touched = {} /\ ~Excused(thread[t].obj) /\ thread'[t].num \in Fds =>
           fdTable[thread'[t].num] = thread[t].obj
  BY <1>1, <1>2 DEF SocketInv, NumberInv, FdInv
<1>. QED BY <1>2, <1>3, MoveStep DEF ConnectChannel, AtStep, WaitsFor, pc

LEMMA DataDoneStep ==
  ASSUME SocketInv, NEW t \in Threads, DataDone(t)
  PROVE  SocketInv'
<1>1. CallAt(thread[t]) /\ thread[t].op = "data"
  BY OpsAtSteps DEF SocketInv, pc, DataDone, CallAt, WaitsFor
<1>2. MovesTo(t, "return")
  BY GotoMoves DEF SocketInv, DataDone, PCs
<1>. QED BY <1>1, <1>2, MoveStep DEF DataDone, AtStep, pc

LEMMA CloseCheckStep ==
  ASSUME SocketInv, NEW t \in Threads, CloseCheck(t)
  PROVE  SocketInv'
<1>1. CallAt(thread[t]) /\ pc(t) = "closeCheck"
  BY OpsAtSteps DEF SocketInv, pc, CloseCheck
<1>2. PICK w \in {"return", "remove", "closeSet"} :
        /\ MovesTo(t, w)
        /\ w = "remove" => thread[t].op \in {"serverClose", "disconnect"}
        /\ w # "closeSet" => status[thread[t].obj] = "closed"
  BY GotoMoves DEF SocketInv, CloseCheck, AfterClose, PCs, CloseSteps
<1>. QED BY <1>1, <1>2, MoveStep DEF CloseCheck, CallAt, AtStep, pc, CloseSteps

-----------------------------------------------------------------------------
(***************************************************************************)
(* Steps on the socket of the call.  What such a step says of other        *)
(* sockets stays true; what it says of its own is left to each step.       *)
(***************************************************************************)
LEMMA SocketFrame ==
  ASSUME SocketInv, SocketTypeOK', NEW t \in Threads, NEW s \in Sockets, thread[t].obj = s, NEW w, Inside(t, w),
         pc(t) \notin {"accepted", "adopt", "add"}, thread[t].op \notin {"accept", "data"},
         w \notin {"listen", "register"}, acceptFd' = acceptFd,
         \* nothing else changes
         \A x \in Sockets \ {s} : status'[x] = status[x] /\ fd'[x] = fd[x],
         \A c \in Clients \ {s} :
           stream'[c] = stream[c] /\ (c \in observers' => c \in observers),
         \A n \in Fds : fdTable'[n] \in {fdTable[n], s, Free},
         touched' = {} =>
           \A n \in Fds : fdTable[n] \notin {Free, s} => fdTable'[n] = fdTable[n],
         touched \subseteq touched', touched' \subseteq touched \cup {s},
         touched = {} /\ touched' # {} => Excused(s),
         \* its own status, descriptor and observer
         status'[s] # "none",
         status'[s] \in {status[s], "closed"}
           \/ thread[t].op \in {"create", "connect"},
         thread[t].op \in {"serverClose", "disconnect"} /\ w \in {"closeFd", "deregister", "remove"} =>
           status'[s] = "closed",
         thread[t].op = "close" =>
           /\ fd'[s] \in {fd[s], InvalidFd}
           /\ s \in observers' => s \in observers,
         w = "connect" => fd'[s] = InvalidFd,
         \A n \in Fds : fdTable'[n] = s =>
           fd'[s] = n \/ {"accept"} \in overlapped[s],
         laps = {} /\ s \in observers' => Watched(s)',
         thread[t].op = "create" /\ w \in {"call", "wait", "done", "listening", "refused"}
           /\ ~Excused(s) => w # "refused" /\ status'[s] = "init",
         touched' = {} =>
           /\ fd'[s] \in Fds /\ ~Excused(s) =>
                fdTable'[fd'[s]] = s
           /\ w = "call" /\ thread'[t].num \in Fds /\ ~Excused(s) =>
                fdTable'[thread'[t].num] = s
           /\ s \in Clients => OwnStream(s)'
  PROVE  SocketInv'
<1>. USE DEF SocketInv
<1>1. /\ CallAt(thread[t]) /\ CallInv' /\ StoredInv' /\ OverlapInv' /\ CloseInv'
      /\ AgeInv' /\ IdInv' /\ LiveInv' /\ s \in Sockets
      /\ thread[t].op \notin {"none", "accept"} /\ pc(t) \notin {"idle", "return"}
      /\ thread[t].conn = NoSocket
  BY InsideKeeps, InsideKeepsLive, OpsAtSteps DEF Inside, pc, CallAt
<1>2. /\ \A u \in Threads \ {t} : thread'[u] = thread[u] /\ pc(u)' = pc(u)
      /\ \A u \in Threads : thread'[u].obj = thread[u].obj /\ thread'[u].op = thread[u].op
                              /\ thread'[u].conn = thread[u].conn
      /\ pc(t)' = w
      /\ clientMap' = clientMap /\ overlapped' = overlapped /\ laps' = laps
  BY DEF Inside, MovesTo, pc, maps
<1>3. touched' = {} => touched = {}
  OBVIOUS
\* the other threads on this socket
<1>4. ASSUME NEW u \in Threads \ {t}, thread[u].obj = s
      PROVE  /\ thread[u].op \in {"create", "connect"} /\ pc(u) # "return" =>
                  thread[t].op = "close" /\ Excused(s)
             /\ thread[t].op \in {"create", "connect"} => thread[u].op = "close"
             /\ thread[t].op \in {"create", "connect"} \cup Closing => Excused(s)
             /\ thread[u].op = "connect" /\ thread[t].op = "close" => ClosedEarly(s)
  <2>1. /\ {thread[t].op, thread[u].op} \in overlapped[s]
        /\ {thread[t].op, thread[u].op} \cap Closing # {} => Excused(s)
    BY <1>1, <1>4, OthersOverlap
  <2>2. thread[t].op \in {"create", "connect"} => thread[u].op = "close"
    BY <1>1, <1>4, MadeAlone DEF Uses
  <2>3. thread[u].op \in {"create", "connect"} /\ pc(u) # "return" => thread[t].op = "close"
    BY <1>4, MadeAlone DEF Uses
  <2>4. thread[u].op = "connect" /\ thread[t].op = "close" => ClosedEarly(s)
    <3>1. {"close", "connect"} = {"connect", "close"}
      OBVIOUS
    <3>. QED BY <2>1, <3>1 DEF ClosedEarly
  <2>. QED BY <2>1, <2>2, <2>3, <2>4 DEF Closing
<1>5. ASSUME NEW u \in Threads, pc(u)' \in {"accepted", "adopt"}
      PROVE  /\ u # t /\ pc(u) \in {"accepted", "adopt"}
             /\ thread[u].conn # NoSocket => thread[u].conn \in Clients /\ thread[u].conn # s
  <2>1. u # t
    BY <1>1, <1>2, <1>5 DEF Inside, AtStep, CloseSteps
  <2>. QED BY <1>1, <1>2, <1>5, <2>1, AcceptedAlone DEF Uses
<1>6. NewInv'
  <2>. SUFFICES ASSUME NEW u \in Threads
                PROVE  /\ pc(u)' \in {"listen", "register", "connect"} => fd'[thread[u].obj] = InvalidFd
                       /\ pc(u)' = "register" => thread[u].obj \notin observers'
                       /\ pc(u)' \in {"accepted", "adopt"} /\ thread[u].conn # NoSocket =>
                            thread[u].conn \notin observers' \cup touched' /\ fd'[thread[u].conn] = InvalidFd
    BY <1>2 DEF NewInv
  <2>1. ASSUME pc(u)' \in {"accepted", "adopt"}, thread[u].conn # NoSocket
        PROVE  thread[u].conn \notin observers' \cup touched' /\ fd'[thread[u].conn] = InvalidFd
    BY <1>5, <2>1, NamesDiffer DEF NewInv
  <2>2. CASE u = t
    BY <2>1, <2>2, <1>2
  <2>3. CASE u # t
    <3>1. ASSUME pc(u) \in {"listen", "register", "connect"}
          PROVE  /\ fd[thread[u].obj] = InvalidFd
                 /\ pc(u) = "register" => thread[u].obj \notin observers
                 /\ thread[u].obj \in Sockets /\ thread[u].op \in {"create", "connect"}
                 /\ pc(u) = "register" => thread[u].op = "connect" /\ thread[u].obj \in Clients
      BY <3>1, OpsAtSteps DEF NewInv, CallAt, pc
    <3>2. CASE thread[u].obj = s
      BY <1>2, <1>4, <2>1, <2>3, <3>1, <3>2
    <3>3. CASE thread[u].obj # s
      BY <1>2, <2>1, <2>3, <3>1, <3>3
    <3>. QED BY <3>2, <3>3
  <2>. QED BY <2>2, <2>3
<1>7. AcceptInv'
  <2>. SUFFICES ASSUME NEW u \in Threads, pc(u)' \in {"accepted", "adopt"},
                       {"accept"} \notin overlapped[thread[u].obj]
                PROVE  LET c == thread[u].conn
                           n == acceptFd[thread[u].obj]
                       IN  /\ c = NoSocket => pc(u)' = "accepted" /\ n = InvalidFd
                           /\ c # NoSocket => n \in Fds
                           /\ c # NoSocket => \A k \in Fds : fdTable'[k] = c => k = n
                           /\ c # NoSocket /\ touched' = {} => fdTable'[n] = c
    BY <1>2 DEF AcceptInv
  <2>1. LET c == thread[u].conn
            n == acceptFd[thread[u].obj]
        IN  /\ c = NoSocket => pc(u) = "accepted" /\ n = InvalidFd
            /\ c # NoSocket => n \in Fds
            /\ c # NoSocket => \A k \in Fds : fdTable[k] = c => k = n
            /\ c # NoSocket /\ touched = {} => fdTable[n] = c
    BY <1>5 DEF AcceptInv
  <2>2. pc(u)' = pc(u) /\ (thread[u].conn # NoSocket => thread[u].conn \notin {s, Free})
    BY <1>2, <1>5, NamesDiffer
  <2>. QED BY <1>3, <2>1, <2>2
<1>8. LeakInv'
  <2>. SUFFICES ASSUME NEW n \in Fds, fdTable'[n] \in Sockets
                PROVE  LET x == fdTable'[n]
                       IN  \/ fd'[x] = n
                           \/ \E u \in Threads : pc(u)' \in {"accepted", "adopt"} /\ thread[u].conn = x
                           \/ {"accept"} \in overlapped[x]
    BY <1>2 DEF LeakInv
  <2>1. CASE fdTable'[n] # s
    <3>1. fdTable'[n] = fdTable[n]
      BY <2>1, NamesDiffer
    <3>2. \A u \in Threads : pc(u) \in {"accepted", "adopt"} => pc(u)' = pc(u)
      BY <1>1, <1>2, OpsAtSteps DEF pc
    <3>. QED BY <2>1, <3>1, <3>2 DEF LeakInv
  <2>. QED BY <2>1
<1>9. ClosedInv'
  BY <1>1, <1>2, <1>4, OpsAtSteps DEF ClosedInv, CallAt, pc
<1>10. RegisterInv'
  <2>. SUFFICES ASSUME NEW u \in Threads, pc(u)' = "register"
                PROVE  ClosedEarly(thread[u].obj) \/ status'[thread[u].obj] # "closed"
    BY <1>2 DEF RegisterInv, ClosedEarly
  <2>1. u # t /\ pc(u) = "register" /\ thread[u].op = "connect" /\ thread[u].obj \in Sockets
    BY <1>2, OpsAtSteps DEF pc
  <2>. QED BY <1>4, <2>1 DEF RegisterInv
<1>11. ObserverInv'
  <2>. SUFFICES ASSUME laps = {}, NEW c \in observers'
                PROVE  Watched(c)'
    BY <1>2 DEF ObserverInv
  <2>1. CASE c # s
    <3>1. c \in Clients /\ c \in Sockets /\ c \in observers
      BY <2>1, NamesDiffer DEF SocketTypeOK
    <3>2. \A u \in Threads : (Deregisters(u, c) => Deregisters(u, c)') /\ (Keeps(u, c) => Keeps(u, c)')
      BY <1>2, <2>1 DEF Deregisters, Keeps, pc
    <3>. QED BY <1>2, <2>1, <3>1, <3>2 DEF ObserverInv, Watched, ClosedEarly, Stored
  <2>. QED BY <2>1
<1>12. ListenInv'
  <2>. SUFFICES ASSUME NEW u \in Threads, thread[u].op = "create", ~Excused(thread[u].obj),
                       pc(u)' \in {"listen", "call", "wait", "done", "listening", "refused"}
                PROVE  pc(u)' # "refused" /\ status'[thread[u].obj] = "init"
    BY <1>2 DEF ListenInv, Excused, pc
  <2>1. CASE u = t
    BY <1>2, <2>1
  <2>2. CASE u # t
    <3>1. thread[u].obj \in Sockets \ {s} /\ pc(u)' = pc(u) /\ pc(u) # "return"
      BY <1>2, <1>4, <2>2, OpsAtSteps DEF pc
    <3>. QED BY <3>1 DEF ListenInv, pc
  <2>. QED BY <2>1, <2>2
<1>13. NumberInv'
  <2>. SUFFICES ASSUME touched' = {}
                PROVE  FdInv' /\ CallNumInv' /\ StreamInv'
    BY DEF NumberInv
  <2>0. FdInv /\ CallNumInv /\ StreamInv
    BY <1>3 DEF NumberInv
  <2>1. FdInv'
    <3>. SUFFICES ASSUME NEW x \in Sockets, fd'[x] \in Fds, ~Excused(x), x # s
                  PROVE  fdTable'[fd'[x]] = x
      BY <1>2 DEF FdInv, Excused
    <3>1. fd'[x] = fd[x] /\ fdTable[fd[x]] = x /\ x # Free
      BY <2>0, NamesDiffer DEF FdInv
    <3>. QED BY <3>1
  <2>2. CallNumInv'
    <3>. SUFFICES ASSUME NEW u \in Threads, pc(u)' = "call", thread'[u].num \in Fds,
                         ~Excused(thread[u].obj), u # t
                  PROVE  fdTable'[thread'[u].num] = thread[u].obj
      BY <1>2 DEF CallNumInv, Excused, pc
    <3>1. /\ pc(u) = "call" /\ thread[u].num = thread'[u].num /\ thread[u].obj \in Sockets
          /\ fdTable[thread[u].num] = thread[u].obj
      BY <1>2, <2>0, OpsAtSteps DEF CallNumInv, pc
    <3>2. thread[u].obj # s
      BY <1>1, <1>4, ThreadFields DEF Closing, Ops
    <3>3. thread[u].num \in Fds /\ fdTable[thread[u].num] \notin {Free, s}
      BY <3>1, <3>2, NamesDiffer
    <3>4. fdTable'[thread[u].num] = fdTable[thread[u].num]
      BY <3>3
    <3>. QED BY <3>1, <3>4
  <2>3. StreamInv'
    <3>. SUFFICES ASSUME NEW c \in Clients, c # s
                  PROVE  OwnStream(c)'
      BY DEF StreamInv
    <3>1. \A u \in Threads : Disconnected(u, c) => Disconnected(u, c)'
      BY <1>2 DEF Disconnected, pc
    <3>2. \A u \in Threads : Making(u, c)' /\ pc(u)' = "add" => Making(u, c) /\ pc(u) = "add"
      BY <1>1, <1>2, NamesDiffer DEF Making, pc
    <3>3. c # Free /\ OwnStream(c)
      BY <2>0, NamesDiffer DEF StreamInv
    <3>. QED BY <1>2, <3>1, <3>2, <3>3 DEF OwnStream, Excused, Stored
  <2>. QED BY <2>1, <2>2, <2>3
<1>14. OwnDescriptorsOnly'
  BY <1>2 DEF OwnDescriptorsOnly, Excused
<1>. QED BY <1>1, <1>6, <1>7, <1>8, <1>9, <1>10, <1>11, <1>12, <1>13, <1>14

LEMMA FreeFdExists ==
  ASSUME HasFreeFd
  PROVE  LowestFreeFd \in Fds /\ LowestFreeFd \in Numbers /\ fdTable[LowestFreeFd] = Free
<1>. DEFINE S == {n \in Fds : fdTable[n] = Free}
<1>1. S \in SUBSET Nat /\ S # {}
  BY NamesDiffer DEF HasFreeFd
<1>2. PICK x \in S : \A y \in S : x <= y
  <2>. HIDE DEF S
  <2>. QED BY <1>1, LeastMember
<1>3. \A k \in 1 .. (x - 1) : fdTable[k] # Free
  BY <1>2, NamesDiffer DEF Fds
<1>. QED BY <1>2, <1>3, NamesDiffer DEF LowestFreeFd

-----------------------------------------------------------------------------
(***************************************************************************)
(* Steps of a call on its own socket.                                      *)
(***************************************************************************)
\* A socket in a call is not the connection of an Accept.
LEMMA NoConnection ==
  ASSUME SocketTypeOK, CallInv, LiveInv, NEW t \in Threads,
         pc(t) # "idle", thread[t].op # "accept"
  PROVE  \A u \in Threads : pc(u) \in {"accepted", "adopt"} => thread[u].conn # thread[t].obj
<1>. SUFFICES ASSUME NEW u \in Threads, pc(u) \in {"accepted", "adopt"},
                     thread[u].conn = thread[t].obj
              PROVE  FALSE
  OBVIOUS
<1>1. thread[t].obj \in Sockets /\ thread[u].conn # NoSocket /\ u # t
  BY OpsAtSteps, NamesDiffer DEF pc
<1>. QED BY <1>1, AcceptedAlone DEF Uses

\* A number of the kernel is closed; s is the socket whose fd_ holds it.
LEMMA CloseNumberEffect ==
  ASSUME SocketTypeOK, NEW s \in Sockets, Touch(s, fd[s]), CloseNumber(fd[s])
  PROVE  /\ fdTable' \in [Fds -> Sockets \cup {Free, Other}]
         /\ \A n \in Fds : fdTable'[n] = IF n = fd[s] THEN Free ELSE fdTable[n]
         /\ touched' = {} => \A n \in Fds : fdTable[n] \notin {Free, s} => fdTable'[n] = fdTable[n]
<1>1. fd[s] \in Numbers
  BY DEF SocketTypeOK
<1>2. touched' = {} /\ fd[s] \in Fds => fdTable[fd[s]] \in {Free, s}
  BY <1>1, TouchEffect
<1>. QED BY <1>2 DEF CloseNumber, SocketTypeOK

LEMMA SetListeningStep ==
  ASSUME SocketInv, NEW t \in Threads, SetListening(t)
  PROVE  SocketInv'
<1>. USE DEF SocketInv
<1>. DEFINE s == thread[t].obj
<1>1. /\ CallAt(thread[t]) /\ thread[t].op = "create" /\ thread[t].pc = "listening"
      /\ s \in Servers /\ s \in Sockets \ Clients /\ thread[t].conn = NoSocket
  BY OpsAtSteps, NamesDiffer DEF SetListening, pc, CallAt
<1>2. MovesTo(t, "add")
  BY GotoMoves DEF SetListening, PCs
<1>3. Inside(t, "add")
  BY <1>1, <1>2 DEF Inside, AtStep, SetListening, pc, socketHistory
<1>4. SocketTypeOK' /\ status' \in [Sockets -> {"none", "init", "listening", "connected", "closed"}]
  BY <1>1, <1>2 DEF SetListening, SocketTypeOK, MovesTo, maps, kernel, bounds, socketHistory, IsMap
<1>5. status' = [status EXCEPT ![s] = "listening"] /\ status'[s] = "listening"
        /\ \A x \in Sockets \ {s} : status'[x] = status[x]
  BY <1>1 DEF SetListening, SocketTypeOK
<1>6. \A n \in Fds : fdTable[n] = s => fd[s] = n \/ {"accept"} \in overlapped[s]
  BY <1>1, NoConnection DEF LeakInv, pc
<1>7. touched = {} => (fd[s] \in Fds /\ ~Excused(s) => fdTable[fd[s]] = s)
  BY <1>1 DEF NumberInv, FdInv
<1>8. s \notin observers' /\ UNCHANGED <<fd, stream, acceptFd, observers, fdTable, touched>>
  BY <1>1 DEF SetListening, kernel, socketHistory, SocketTypeOK
<1>. HIDE DEF s
<1>9. thread[t].obj = s /\ s \in Sockets
  BY <1>1 DEF s
<1>. QED BY <1>1, <1>3, <1>4, <1>5, <1>6, <1>7, <1>8, <1>9, SocketFrame DEF pc

\* What holds of the socket of a call before the step.
LEMMA OwnSocket ==
  ASSUME SocketInv, NEW t \in Threads, NEW s \in Sockets, thread[t].obj = s,
         pc(t) # "idle", thread[t].op # "accept"
  PROVE  /\ CallAt(thread[t]) /\ thread[t].conn = NoSocket
         /\ fd[s] \in Numbers /\ status[s] # "none"
         /\ \A n \in Fds : fdTable[n] = s => fd[s] = n \/ {"accept"} \in overlapped[s]
         /\ touched = {} /\ ~Excused(s) /\ fd[s] \in Fds => fdTable[fd[s]] = s
         /\ touched = {} /\ s \in Clients => OwnStream(s)
         /\ laps = {} /\ s \in observers => Watched(s)
         /\ s \in Servers => s \notin observers /\ s \notin Clients
<1>1. CallAt(thread[t]) /\ thread[t].conn = NoSocket
  BY OpsAtSteps DEF SocketInv, pc, CallAt
<1>2. fd[s] \in Numbers /\ (s \in Servers => s \notin observers /\ s \notin Clients)
  BY NamesDiffer DEF SocketInv, SocketTypeOK
<1>3. status[s] # "none"
  BY DEF SocketInv, LiveInv, Uses
<1>4. \A n \in Fds : fdTable[n] = s => fd[s] = n \/ {"accept"} \in overlapped[s]
  BY NoConnection DEF SocketInv, LeakInv
<1>. QED BY <1>1, <1>2, <1>3, <1>4
         DEF SocketInv, NumberInv, FdInv, StreamInv, ObserverInv

\* The stream of a socket that its call is still making is not in use.
LEMMA UnusedStream ==
  ASSUME CallInv, LiveInv, NEW t \in Threads, NEW s \in Sockets, thread[t].obj = s,
         thread[t].op \in {"create", "connect"}, pc(t) # "return"
  PROVE  /\ s \notin Stored(clientMap)
         /\ \A u \in Threads \ {t} : ~Making(u, s)
BY MadeAlone, OpsAtSteps, NamesDiffer DEF StoredSockets, Making, Uses, CallAt, pc

LEMMA ListenAnswerStep ==
  ASSUME SocketInv, NEW t \in Threads, ListenAnswer(t)
  PROVE  SocketInv'
<1>. USE DEF SocketInv
<1>1. PICK s \in Sockets : thread[t].obj = s
  BY OpsAtSteps DEF ListenAnswer, pc
<1>2. /\ thread[t].op = "create" /\ pc(t) = "listen" /\ s \in Servers
      /\ UNCHANGED <<stream, acceptFd, observers, maps, shut, bounds, socketHistory>>
  BY <1>1, OpsAtSteps DEF ListenAnswer, pc, CallAt
<1>3. fd[s] = InvalidFd
  BY <1>1, <1>2 DEF NewInv
<1>4. CASE status' = [status EXCEPT ![s] = "closed"] /\ Goto(t, "closeCheck") /\ UNCHANGED <<fd, fdTable>>
  <2>1. MovesTo(t, "closeCheck")
    BY <1>4, GotoMoves DEF PCs, CloseSteps
  <2>2. Inside(t, "closeCheck")
    BY <1>1, <1>2, <2>1, OwnSocket DEF Inside, AtStep, CloseSteps, pc, socketHistory
  <2>3. SocketTypeOK'
    BY <1>2, <1>4, <2>1 DEF SocketTypeOK, MovesTo, maps, kernel, bounds, socketHistory, IsMap
  <2>4. status'[s] = "closed" /\ \A x \in Sockets \ {s} : status'[x] = status[x]
    BY <1>4 DEF SocketTypeOK
  <2>. QED BY <1>1, <1>2, <1>3, <1>4, <2>2, <2>3, <2>4, OwnSocket, SocketFrame DEF socketHistory
<1>5. ASSUME NEW n \in Fds, fdTable[n] = Free, n \in Numbers,
             fdTable' = [fdTable EXCEPT ![n] = s], fd' = [fd EXCEPT ![s] = n],
             Receive(t, "channel", n), UNCHANGED status
      PROVE  SocketInv'
  <2>1. MovesTo(t, "call") /\ thread'[t].what = "channel" /\ thread'[t].num = n
    BY <1>5, ReceiveMoves DEF Whats
  <2>2. Inside(t, "call")
    BY <1>1, <1>2, <2>1, OwnSocket DEF Inside, AtStep, WaitsFor, CloseSteps, pc, socketHistory
  <2>3. SocketTypeOK'
    BY <1>2, <1>5, <2>1 DEF SocketTypeOK, MovesTo, maps, kernel, bounds, socketHistory, IsMap
  <2>4. /\ fd'[s] = n /\ \A x \in Sockets \ {s} : fd'[x] = fd[x]
        /\ fdTable'[n] = s /\ \A k \in Fds : k # n => fdTable'[k] = fdTable[k]
    BY <1>5 DEF SocketTypeOK
  <2>5. ~Excused(s) => status[s] = "init"
    BY <1>1, <1>2 DEF ListenInv, pc
  <2>6. status[s] # "none" /\ s \notin observers /\ s \notin Clients /\ fd[s] \notin Fds
        /\ \A k \in Fds : fdTable[k] = s => {"accept"} \in overlapped[s]
    BY <1>1, <1>2, <1>3, OwnSocket, NamesDiffer
  <2>. QED BY <1>1, <1>2, <1>5, <2>1, <2>2, <2>3, <2>4, <2>5, <2>6, SocketFrame DEF socketHistory
<1>. QED BY <1>1, <1>2, <1>4, <1>5, FreeFdExists DEF ListenAnswer

LEMMA RefuseListeningStep ==
  ASSUME SocketInv, NEW t \in Threads, RefuseListening(t)
  PROVE  SocketInv'
<1>. USE DEF SocketInv
<1>1. PICK s \in Sockets : thread[t].obj = s
  BY OpsAtSteps DEF RefuseListening, pc
<1>2. /\ thread[t].op = "create" /\ pc(t) = "refused" /\ s \in Servers
      /\ Touch(s, fd[s]) /\ CloseNumber(fd[s])
      /\ status' = [status EXCEPT ![s] = "closed"]
      /\ UNCHANGED <<fd, stream, acceptFd, observers, maps, shut, bounds, overlapped, age, laps>>
  BY <1>1, OpsAtSteps DEF RefuseListening, pc, CallAt
<1>3. MovesTo(t, "closeCheck")
  BY GotoMoves DEF RefuseListening, PCs, CloseSteps
<1>4. Inside(t, "closeCheck")
  BY <1>1, <1>2, <1>3, OwnSocket DEF Inside, AtStep, CloseSteps, pc
<1>5. /\ touched \subseteq touched' /\ touched' \subseteq touched \cup {s} /\ touched' \subseteq Sockets
  BY <1>1, <1>2, OwnSocket, TouchEffect
<1>6. SocketTypeOK'
  BY <1>2, <1>3, <1>5, CloseNumberEffect DEF SocketTypeOK, MovesTo, maps, bounds, IsMap
<1>7. status'[s] = "closed" /\ \A x \in Sockets \ {s} : status'[x] = status[x]
  BY <1>2 DEF SocketTypeOK
<1>8. Excused(s)
  BY <1>1, <1>2 DEF ListenInv, pc
<1>9. /\ \A n \in Fds : fdTable'[n] = IF n = fd[s] THEN Free ELSE fdTable[n]
      /\ touched' = {} => \A n \in Fds : fdTable[n] \notin {Free, s} => fdTable'[n] = fdTable[n]
  BY <1>2, CloseNumberEffect
<1>10. /\ \A n \in Fds : fdTable[n] = s => fd[s] = n \/ {"accept"} \in overlapped[s]
       /\ s \notin observers /\ s \notin Clients /\ s # Free
  BY <1>1, <1>2, OwnSocket, NamesDiffer
<1>. QED BY <1>1, <1>2, <1>4, <1>5, <1>6, <1>7, <1>8, <1>9, <1>10, SocketFrame

LEMMA RegisterClientObserverStep ==
  ASSUME SocketInv, NEW t \in Threads, RegisterClientObserver(t)
  PROVE  SocketInv'
<1>. USE DEF SocketInv
<1>1. PICK s \in Sockets : thread[t].obj = s
  BY OpsAtSteps DEF RegisterClientObserver, pc
<1>2. /\ thread[t].op = "connect" /\ pc(t) = "register" /\ s \in Clients
      /\ fd[s] = InvalidFd /\ s \notin observers
      /\ ClosedEarly(s) \/ status[s] # "closed"
      /\ UNCHANGED <<objects, maps, kernel, bounds, socketHistory>>
  BY <1>1, OpsAtSteps DEF RegisterClientObserver, pc, CallAt, NewInv, RegisterInv
<1>3. PICK w \in {"connect", "closeCheck"} :
        Goto(t, w) /\ IF w = "connect" THEN observers' = observers \cup {s} ELSE observers' = observers
  BY <1>1 DEF RegisterClientObserver
<1>4. MovesTo(t, w)
  BY <1>3, GotoMoves DEF PCs, CloseSteps
<1>5. Inside(t, w)
  BY <1>1, <1>2, <1>4, OwnSocket DEF Inside, AtStep, CloseSteps, pc, socketHistory
<1>6. SocketTypeOK'
  BY <1>2, <1>3, <1>4 DEF SocketTypeOK, MovesTo, objects, maps, kernel, bounds, socketHistory, IsMap
<1>7. w = "connect" => Watched(s)'
  BY <1>1, <1>2, <1>4, OwnSocket
     DEF Watched, ClosedEarly, Keeps, MovesTo, pc, objects, socketHistory
<1>8. OwnStream(s)'
  BY <1>1, <1>2, <1>3, <1>4, UnusedStream DEF OwnStream, Making, MovesTo, maps, Stored, pc
<1>. QED BY <1>1, <1>2, <1>3, <1>5, <1>6, <1>7, <1>8, OwnSocket, SocketFrame
         DEF objects, kernel, socketHistory

LEMMA ConnectAnswerStep ==
  ASSUME SocketInv, NEW t \in Threads, ConnectAnswer(t)
  PROVE  SocketInv'
<1>. USE DEF SocketInv
<1>1. PICK s \in Sockets : thread[t].obj = s
  BY OpsAtSteps DEF ConnectAnswer, pc
<1>2. /\ thread[t].op = "connect" /\ pc(t) = "connect" /\ s \in Clients /\ fd[s] = InvalidFd
      /\ UNCHANGED <<status, stream, acceptFd, observers, maps, shut, bounds, socketHistory>>
  BY <1>1, OpsAtSteps DEF ConnectAnswer, pc, CallAt, NewInv
<1>3. ASSUME NEW w \in {"closeCheck", "call"}, MovesTo(t, w)
      PROVE  /\ laps = {} /\ s \in observers => Watched(s)'
             /\ OwnStream(s)'
  <2>1. Keeps(t, s)' /\ thread'[t].op = "connect"
    BY <1>1, <1>2, <1>3 DEF Keeps, MovesTo, pc
  <2>2. \A u \in Threads : Deregisters(u, s) => Deregisters(u, s)'
    BY <1>2, <1>3 DEF Deregisters, MovesTo, pc
  <2>3. laps = {} /\ s \in observers => Watched(s)
    BY <1>1, <1>2, OwnSocket
  <2>4. OwnStream(s)'
    BY <1>1, <1>2, <1>3, UnusedStream DEF OwnStream, Making, MovesTo, maps, Stored, pc
  <2>. QED BY <1>2, <2>1, <2>2, <2>3, <2>4 DEF Watched, ClosedEarly, socketHistory
<1>4. CASE Goto(t, "closeCheck") /\ UNCHANGED <<fd, fdTable>>
  <2>1. MovesTo(t, "closeCheck")
    BY <1>4, GotoMoves DEF PCs, CloseSteps
  <2>2. Inside(t, "closeCheck")
    BY <1>1, <1>2, <2>1, OwnSocket DEF Inside, AtStep, CloseSteps, pc, socketHistory
  <2>3. SocketTypeOK'
    BY <1>2, <1>4, <2>1 DEF SocketTypeOK, MovesTo, maps, kernel, bounds, socketHistory, IsMap
  <2>. QED BY <1>1, <1>2, <1>3, <1>4, <2>1, <2>2, <2>3, OwnSocket, SocketFrame DEF socketHistory
<1>5. ASSUME NEW n \in Fds, fdTable[n] = Free, n \in Numbers,
             fdTable' = [fdTable EXCEPT ![n] = s], fd' = [fd EXCEPT ![s] = n],
             Receive(t, "channel", n)
      PROVE  SocketInv'
  <2>1. MovesTo(t, "call") /\ thread'[t].what = "channel" /\ thread'[t].num = n
    BY <1>5, ReceiveMoves DEF Whats
  <2>2. Inside(t, "call")
    BY <1>1, <1>2, <2>1, OwnSocket DEF Inside, AtStep, WaitsFor, CloseSteps, pc, socketHistory
  <2>3. SocketTypeOK'
    BY <1>2, <1>5, <2>1 DEF SocketTypeOK, MovesTo, maps, kernel, bounds, socketHistory, IsMap
  <2>4. /\ fd'[s] = n /\ \A x \in Sockets \ {s} : fd'[x] = fd[x]
        /\ fdTable'[n] = s /\ \A k \in Fds : k # n => fdTable'[k] = fdTable[k]
    BY <1>5 DEF SocketTypeOK
  <2>5. status[s] # "none" /\ fd[s] \notin Fds
        /\ \A k \in Fds : fdTable[k] = s => {"accept"} \in overlapped[s]
    BY <1>1, <1>2, OwnSocket, NamesDiffer
  <2>. QED BY <1>1, <1>2, <1>3, <1>5, <2>1, <2>2, <2>3, <2>4, <2>5, SocketFrame DEF socketHistory
<1>. QED BY <1>1, <1>2, <1>4, <1>5, FreeFdExists DEF ConnectAnswer

LEMMA ConnectedStep ==
  ASSUME SocketInv, NEW t \in Threads, Connected(t)
  PROVE  SocketInv'
<1>. USE DEF SocketInv
<1>1. PICK s \in Sockets : thread[t].obj = s
  BY OpsAtSteps DEF Connected, pc
<1>2. /\ pc(t) = "done" /\ stream' = [stream EXCEPT ![s] = fd[s]]
      /\ status' = [status EXCEPT ![s] = "connected"]
      /\ UNCHANGED <<fd, acceptFd, observers, maps, kernel, bounds, socketHistory>>
  BY <1>1 DEF Connected
<1>3. thread[t].op = "connect" /\ s \in Clients
  BY <1>1, <1>2, OpsAtSteps DEF Connected, CallAt, WaitsFor, pc
<1>4. MovesTo(t, "add")
  BY GotoMoves DEF Connected, PCs
<1>5. Inside(t, "add")
  BY <1>1, <1>2, <1>3, <1>4, OwnSocket DEF Inside, AtStep, CloseSteps, pc, socketHistory
<1>6. fd[s] \in Numbers
  BY <1>1, <1>2, <1>3, OwnSocket
<1>7. SocketTypeOK'
  BY <1>2, <1>4, <1>6 DEF SocketTypeOK, MovesTo, maps, kernel, bounds, socketHistory, IsMap
<1>8. /\ status'[s] = "connected" /\ stream'[s] = fd[s]
      /\ \A x \in Sockets \ {s} : status'[x] = status[x]
      /\ \A c \in Clients \ {s} : stream'[c] = stream[c]
  BY <1>2, <1>3 DEF SocketTypeOK
<1>9. Watched(s)'
  BY <1>1, <1>3, <1>4, <1>8 DEF Watched, Keeps, MovesTo, pc
<1>10. touched = {} => OwnStream(s)'
  <2>1. touched = {} /\ ~Excused(s) /\ fd[s] \in Fds => fdTable[fd[s]] = s
    BY <1>1, <1>2, <1>3, OwnSocket
  <2>. QED BY <1>2, <1>8, <2>1 DEF OwnStream, Excused, kernel, socketHistory
<1>. QED BY <1>1, <1>2, <1>3, <1>5, <1>7, <1>8, <1>9, <1>10, OwnSocket, SocketFrame
         DEF kernel, socketHistory

\* a number used by a call on its own socket
LEMMA OwnTouch ==
  ASSUME SocketInv, NEW t \in Threads, NEW s \in Sockets, thread[t].obj = s,
         pc(t) # "idle", thread[t].op # "accept", Touch(s, fd[s])
  PROVE  /\ touched \subseteq touched' /\ touched' \subseteq touched \cup {s}
         /\ touched' \subseteq Sockets
         /\ touched = {} /\ touched' # {} => Excused(s)
BY OwnSocket, TouchEffect DEF SocketInv

LEMMA CloseSetStep ==
  ASSUME SocketInv, NEW t \in Threads, CloseSet(t)
  PROVE  SocketInv'
<1>. USE DEF SocketInv
<1>1. PICK s \in Sockets : thread[t].obj = s
  BY OpsAtSteps DEF CloseSet, pc
<1>2. /\ pc(t) = "closeSet" /\ Touch(s, fd[s])
      /\ status' = [status EXCEPT ![s] = "closed"]
      /\ shut' = IF FileOf(fd[s]) \in Sockets THEN shut \cup {FileOf(fd[s])} ELSE shut
      /\ UNCHANGED <<fd, stream, acceptFd, observers, maps, fdTable, bounds, overlapped, age, laps>>
  BY <1>1 DEF CloseSet
<1>3. thread[t].op \notin {"accept", "data"} /\ CallAt(thread[t]) /\ thread[t].conn = NoSocket
      /\ AtStep(thread[t].op, "closeSet")
  BY <1>1, <1>2, OpsAtSteps DEF CallAt, CloseSteps, pc
<1>4. PICK w \in {"closeFd", "deregister"} : MovesTo(t, w)
  BY GotoMoves DEF CloseSet, PCs, CloseSteps
<1>5. Inside(t, w)
  BY <1>1, <1>2, <1>3, <1>4 DEF Inside, AtStep, CloseSteps, pc
<1>6. /\ touched \subseteq touched' /\ touched' \subseteq touched \cup {s} /\ touched' \subseteq Sockets
      /\ touched = {} /\ touched' # {} => Excused(s)
  BY <1>1, <1>2, <1>3, OwnTouch
<1>7. SocketTypeOK'
  <2>1. shut' \subseteq Sockets
    BY <1>2 DEF SocketTypeOK
  <2>. QED BY <1>2, <1>4, <1>6, <2>1 DEF SocketTypeOK, MovesTo, maps, bounds, IsMap
<1>8. status'[s] = "closed" /\ \A x \in Sockets \ {s} : status'[x] = status[x]
  BY <1>2 DEF SocketTypeOK
<1>9. Watched(s)'
  BY <1>1, <1>4 DEF Watched, Deregisters, MovesTo, pc
<1>10. touched = {} /\ s \in Clients => OwnStream(s)'
  <2>1. \A u \in Threads : /\ Disconnected(u, s) => Disconnected(u, s)'
                           /\ (Making(u, s) /\ pc(u) = "add")' => Making(u, s) /\ pc(u) = "add"
    BY <1>2, <1>3, <1>4 DEF Disconnected, Making, MovesTo, pc
  <2>2. touched = {} /\ s \in Clients => OwnStream(s)
    BY <1>1, <1>2, <1>3, OwnSocket
  <2>. QED BY <1>2, <2>1, <2>2 DEF OwnStream, Excused, Stored, maps
<1>. QED BY <1>1, <1>2, <1>3, <1>5, <1>6, <1>7, <1>8, <1>9, <1>10, OwnSocket, SocketFrame

LEMMA CloseFdStep ==
  ASSUME SocketInv, NEW t \in Threads, CloseFd(t)
  PROVE  SocketInv'
<1>. USE DEF SocketInv
<1>1. PICK s \in Sockets : thread[t].obj = s
  BY OpsAtSteps DEF CloseFd, pc
<1>2. /\ pc(t) = "closeFd" /\ Touch(s, fd[s]) /\ CloseNumber(fd[s])
      /\ fd' = [fd EXCEPT ![s] = InvalidFd]
      /\ UNCHANGED <<status, stream, acceptFd, observers, maps, shut, bounds, overlapped, age, laps>>
  BY <1>1 DEF CloseFd
<1>3. thread[t].op \in {"create", "connect", "close", "serverClose", "disconnect"}
      /\ CallAt(thread[t]) /\ thread[t].conn = NoSocket
  BY <1>1, <1>2, OpsAtSteps DEF CallAt, CloseSteps, AtStep, pc
<1>4. MovesTo(t, "deregister")
  BY GotoMoves DEF CloseFd, PCs, CloseSteps
<1>5. Inside(t, "deregister")
  BY <1>1, <1>2, <1>3, <1>4 DEF Inside, AtStep, CloseSteps, pc
<1>6. /\ touched \subseteq touched' /\ touched' \subseteq touched \cup {s} /\ touched' \subseteq Sockets
      /\ touched = {} /\ touched' # {} => Excused(s)
  BY <1>1, <1>2, <1>3, OwnTouch
<1>7. /\ fdTable' \in [Fds -> Sockets \cup {Free, Other}]
      /\ \A n \in Fds : fdTable'[n] = IF n = fd[s] THEN Free ELSE fdTable[n]
      /\ touched' = {} => \A n \in Fds : fdTable[n] \notin {Free, s} => fdTable'[n] = fdTable[n]
  BY <1>2, CloseNumberEffect
<1>8. SocketTypeOK'
  BY <1>2, <1>4, <1>6, <1>7, NamesDiffer DEF SocketTypeOK, MovesTo, maps, bounds, IsMap
<1>9. fd'[s] = InvalidFd /\ \A x \in Sockets \ {s} : fd'[x] = fd[x]
  BY <1>2 DEF SocketTypeOK
<1>10. s \in observers => Watched(s)'
  BY <1>1, <1>4 DEF Watched, Deregisters, MovesTo, pc
<1>11. s \in Clients => OwnStream(s)'
  <2>1. CASE thread[t].op = "close"
    BY <1>1, <1>2, <2>1 DEF CloseInv, OwnStream, Excused
  <2>2. CASE thread[t].op = "disconnect"
    <3>1. Disconnected(t, s)'
      BY <1>1, <1>4, <2>2 DEF Disconnected, MovesTo, pc
    <3>. QED BY <3>1 DEF OwnStream
  <2>3. CASE thread[t].op \in {"create", "connect"}
    BY <1>1, <1>2, <1>4, <2>3, UnusedStream DEF OwnStream, Making, MovesTo, maps, Stored, pc
  <2>4. CASE thread[t].op = "serverClose"
    BY <1>1, <1>3, <2>4, NamesDiffer DEF CallAt
  <2>. QED BY <1>3, <2>1, <2>2, <2>3, <2>4
<1>12. /\ \A n \in Fds : fdTable'[n] = s => {"accept"} \in overlapped[s]
       /\ \A n \in Fds : fdTable'[n] \in {fdTable[n], s, Free}
       /\ status[s] # "none" /\ fd'[s] \notin Fds
  BY <1>1, <1>2, <1>3, <1>7, <1>9, OwnSocket, NamesDiffer
<1>13. thread[t].op \in {"serverClose", "disconnect"} => status[s] = "closed"
  BY <1>1, <1>2 DEF ClosedInv
<1>. QED BY <1>1, <1>2, <1>3, <1>5, <1>6, <1>7, <1>8, <1>9, <1>10, <1>11, <1>12, <1>13, SocketFrame

LEMMA DeregisterObserverStep ==
  ASSUME SocketInv, NEW t \in Threads, DeregisterObserver(t)
  PROVE  SocketInv'
<1>. USE DEF SocketInv
<1>1. PICK s \in Sockets : thread[t].obj = s
  BY OpsAtSteps DEF DeregisterObserver, pc
<1>2. /\ pc(t) = "deregister" /\ observers' = observers \ {s}
      /\ UNCHANGED <<objects, maps, kernel, bounds, socketHistory>>
  BY <1>1 DEF DeregisterObserver
<1>3. thread[t].op \in {"create", "connect", "close", "serverClose", "disconnect"}
      /\ CallAt(thread[t]) /\ thread[t].conn = NoSocket
  BY <1>1, <1>2, OpsAtSteps DEF CallAt, CloseSteps, AtStep, pc
<1>4. PICK w \in {"remove", "return"} :
        MovesTo(t, w) /\ (w = "remove" <=> thread[t].op \in {"serverClose", "disconnect"})
  BY GotoMoves DEF DeregisterObserver, AfterClose, PCs
<1>5. Inside(t, w)
  BY <1>1, <1>2, <1>3, <1>4 DEF Inside, AtStep, CloseSteps, pc, socketHistory
<1>6. SocketTypeOK'
  BY <1>2, <1>4 DEF SocketTypeOK, MovesTo, objects, maps, kernel, bounds, socketHistory, IsMap
<1>7. touched = {} /\ s \in Clients => OwnStream(s)'
  <2>1. \A u \in Threads : /\ Disconnected(u, s) => Disconnected(u, s)'
                           /\ (Making(u, s) /\ pc(u) = "add")' => Making(u, s) /\ pc(u) = "add"
    BY <1>2, <1>3, <1>4 DEF Disconnected, Making, MovesTo, pc
  <2>2. touched = {} /\ s \in Clients => OwnStream(s)
    BY <1>1, <1>2, <1>3, OwnSocket
  <2>. QED BY <1>2, <2>1, <2>2 DEF OwnStream, Excused, Stored, maps, objects, kernel, socketHistory
<1>8. thread[t].op \in {"serverClose", "disconnect"} => status[s] = "closed"
  BY <1>1, <1>2 DEF ClosedInv
<1>. QED BY <1>1, <1>2, <1>3, <1>4, <1>5, <1>6, <1>7, <1>8, OwnSocket, SocketFrame
         DEF objects, kernel, socketHistory

-----------------------------------------------------------------------------
(***************************************************************************)
(* Calls.                                                                  *)
(***************************************************************************)
LEMMA EnterMoves ==
  ASSUME SocketTypeOK, CallInv, NEW t \in Threads, NEW op \in Ops, NEW s \in Sockets,
         NEW where \in PCs, NEW n \in Numbers, NEW i \in Nat, where = "call" => op \in Whats,
         Enter(t, op, s, where, n, i)
  PROVE  /\ IsIdle(thread[t]) /\ pc(t) = "idle"
         /\ thread' \in [Threads -> ThreadRecord]
         /\ \A u \in Threads \ {t} : thread'[u] = thread[u]
         /\ thread'[t] = [op |-> op, pc |-> where, obj |-> s, conn |-> NoSocket, id |-> i,
                          num |-> n, what |-> IF where = "call" THEN op ELSE "none"]
         /\ calls' \in Nat
         /\ overlapped' \in [Sockets -> SUBSET SUBSET Ops]
         /\ \A x \in Sockets \ {s} : overlapped'[x] = overlapped[x]
         /\ status[s] # "none" => overlapped[s] \subseteq overlapped'[s]
         /\ \A u \in Threads : thread[u].obj = s => {op, thread[u].op} \in overlapped'[s]
<1>1. IsIdle(thread[t]) /\ pc(t) = "idle"
  BY OpsAtSteps DEF Enter, pc
<1>2. thread'[t] = [op |-> op, pc |-> where, obj |-> s, conn |-> NoSocket, id |-> i,
                    num |-> n, what |-> IF where = "call" THEN op ELSE "none"]
  BY DEF Enter, Idle, SocketTypeOK
<1>3. /\ thread' \in [Threads -> ThreadRecord]
      /\ \A u \in Threads \ {t} : thread'[u] = thread[u]
  <2>1. [op |-> op, pc |-> where, obj |-> s, conn |-> NoSocket, id |-> i, num |-> n,
         what |-> IF where = "call" THEN op ELSE "none"] \in ThreadRecord
    BY DEF ThreadRecord, Whats
  <2>. QED BY <2>1 DEF Enter, Idle, SocketTypeOK
<1>4. calls' \in Nat
  BY DEF Enter, SocketTypeOK
<1>. DEFINE pairs == {{op, thread[u].op} : u \in {v \in Threads : thread[v].obj = s}}
            before == IF status[s] = "none" THEN {} ELSE overlapped[s]
<1>6. pairs \in SUBSET SUBSET Ops
  BY ThreadFields
<1>7. before \in SUBSET SUBSET Ops
  BY DEF SocketTypeOK
<1>8. overlapped' = [overlapped EXCEPT ![s] = before \cup pairs]
  BY DEF Enter
<1>9. \A u \in Threads : thread[u].obj = s => {op, thread[u].op} \in pairs
  OBVIOUS
<1>10. status[s] # "none" => before = overlapped[s]
  OBVIOUS
<1>. HIDE DEF pairs, before
<1>11. /\ overlapped' \in [Sockets -> SUBSET SUBSET Ops] /\ overlapped'[s] = before \cup pairs
       /\ \A x \in Sockets \ {s} : overlapped'[x] = overlapped[x]
  <2>1. overlapped \in [Sockets -> SUBSET SUBSET Ops] /\ before \cup pairs \in SUBSET SUBSET Ops
    BY <1>6, <1>7 DEF SocketTypeOK
  <2>. HIDE DEF Ops
  <2>. QED BY <1>8, <2>1
<1>. QED BY <1>1, <1>2, <1>3, <1>4, <1>9, <1>10, <1>11

\* A call on a socket that exists.
LEMMA EnterStep ==
  ASSUME SocketInv, NEW t \in Threads, NEW op \in {"accept", "data", "close", "serverClose", "disconnect"},
         NEW s \in Sockets, NEW where \in {"call", "return", "closeCheck"}, NEW n \in Numbers, NEW i \in Nat,
         Enter(t, op, s, where, n, i),
         where = "call" => op \in {"accept", "data"},
         where = "closeCheck" => op \in Closing,
         op \in {"accept", "serverClose"} => s \in Servers,
         op \in {"data", "disconnect"} => s \in Clients,
         op = "disconnect" => i \in DOMAIN clientMap.objects /\ clientMap.objects[i] = s,
         IF op = "close" THEN \E u \in Threads : thread[u].op \in {"create", "connect"} /\ thread[u].obj = s
                         ELSE s \in StoredSockets,
         where = "call" /\ touched = {} /\ n \in Fds /\ ~Excused(s) /\ ~Excused(s)' => fdTable[n] = s,
         UNCHANGED <<objects, observers, maps, kernel, others, touched, age, laps>>
  PROVE  SocketInv'
<1>. USE DEF SocketInv
<1>0. op \in Ops /\ where \in PCs /\ (where = "call" => op \in Whats)
  BY DEF Ops, PCs, Whats, CloseSteps
<1>1. /\ IsIdle(thread[t]) /\ pc(t) = "idle"
      /\ thread' \in [Threads -> ThreadRecord]
      /\ \A u \in Threads \ {t} : thread'[u] = thread[u]
      /\ thread'[t] = [op |-> op, pc |-> where, obj |-> s, conn |-> NoSocket, id |-> i,
                       num |-> n, what |-> IF where = "call" THEN op ELSE "none"]
      /\ calls' \in Nat
      /\ overlapped' \in [Sockets -> SUBSET SUBSET Ops]
      /\ \A x \in Sockets \ {s} : overlapped'[x] = overlapped[x]
      /\ status[s] # "none" => overlapped[s] \subseteq overlapped'[s]
      /\ \A u \in Threads : thread[u].obj = s => {op, thread[u].op} \in overlapped'[s]
  BY <1>0, EnterMoves
<1>2. status[s] # "none"
  BY DEF LiveInv, Uses
<1>3. /\ \A x \in Sockets : overlapped[x] \subseteq overlapped'[x]
      /\ \A x \in Sockets : (Excused(x) => Excused(x)') /\ (ClosedEarly(x) => ClosedEarly(x)')
  <2>1. \A x \in Sockets : overlapped[x] \subseteq overlapped'[x]
    BY <1>1, <1>2
  <2>. QED BY <2>1 DEF Excused, ClosedEarly
<1>4. /\ UNCHANGED <<status, fd, stream, acceptFd, observers, serverMap, clientMap, fdTable,
                     shut, touched, others, age, laps>>
      /\ \A u \in Threads \ {t} : pc(u)' = pc(u)
      /\ pc(t)' = where /\ thread'[t].op = op /\ thread'[t].obj = s /\ thread'[t].conn = NoSocket
      /\ thread'[t].id = i /\ thread'[t].num = n
      /\ thread[t].op = "none" /\ thread[t].obj = NoSocket /\ thread[t].conn = NoSocket
      /\ NoSocket \notin Sockets
  BY <1>1, NamesDiffer DEF objects, maps, kernel, pc, IsIdle
<1>5. SocketTypeOK'
  BY <1>1, <1>4 DEF SocketTypeOK, IsMap
<1>6. CallInv'
  <2>1. CallAt(thread'[t])
    BY <1>1, <1>4 DEF CallAt, AtStep, WaitsFor, CloseSteps, Closing
  <2>. QED BY <1>1, <2>1 DEF CallInv
<1>7. LiveInv'
  <2>1. \A u \in Threads, x \in Sockets : Making(u, x)' => u # t /\ Making(u, x)
    BY <1>1, <1>4 DEF Making
  <2>2. \A u \in Threads \ {t}, x \in Sockets : Uses(u, x)' <=> Uses(u, x)
    BY <1>1 DEF Uses
  <2>3. \A x \in Sockets : Uses(t, x)' => x = s
    BY <1>4 DEF Uses
  <2>4. ASSUME NEW u \in Threads, Making(u, s)
        PROVE  op = "close" /\ thread[u].conn # s
    <3>1. s \notin StoredSockets /\ op = "close"
      BY <2>4 DEF LiveInv
    <3>2. PICK v \in Threads : thread[v].op \in {"create", "connect"} /\ thread[v].obj = s
      BY <3>1
    <3>. QED BY <2>4, <3>1, <3>2, OpsAtSteps DEF LiveInv, Uses, CallAt, IsIdle
  <2>5. StoredSockets' = StoredSockets
    BY <1>4 DEF StoredSockets, Stored
  <2>. QED BY <1>1, <1>2, <1>4, <2>1, <2>2, <2>3, <2>4, <2>5 DEF LiveInv
<1>8. NewInv'
  BY <1>1, <1>4 DEF NewInv
<1>9. StoredInv'
  BY <1>1, <1>4 DEF StoredInv, Stored, pc
<1>10. OverlapInv'
  <2>. SUFFICES ASSUME NEW u \in Threads, NEW v \in Threads, u # v,
                       thread'[u].obj = thread'[v].obj, thread'[u].op # "none"
                PROVE  {thread'[u].op, thread'[v].op} \in overlapped'[thread'[u].obj]
    BY DEF OverlapInv
  <2>1. CASE u = t
    BY <1>1, <1>4, <2>1
  <2>2. CASE v = t
    <3>1. {thread'[u].op, thread'[v].op} = {op, thread[u].op} /\ thread[u].obj = s
      BY <1>1, <1>4, <2>2
    <3>. QED BY <1>1, <2>2, <3>1
  <2>3. CASE u # t /\ v # t
    <3>1. thread[u].obj \in Sockets /\ {thread[u].op, thread[v].op} \in overlapped[thread[u].obj]
      BY <1>1, <2>3, OpsAtSteps DEF OverlapInv
    <3>. QED BY <1>1, <1>3, <2>3, <3>1
  <2>. QED BY <2>1, <2>2, <2>3
<1>11. CloseInv'
  <2>1. op = "close" => Excused(s)'
    <3>1. SUFFICES ASSUME op = "close"
                   PROVE  Excused(s)'
      OBVIOUS
    <3>2. PICK u \in Threads : thread[u].obj = s
      BY <3>1
    <3>3. {op, thread[u].op} \in overlapped'[s] /\ {op, thread[u].op} \cap Closing # {}
      BY <1>1, <3>1, <3>2 DEF Closing
    <3>. QED BY <3>3 DEF Excused
  <2>2. \A u \in Threads : thread[u].op = "close" => thread[u].obj \in Sockets
    BY OpsAtSteps
  <2>. QED BY <1>1, <1>3, <1>4, <2>1, <2>2 DEF CloseInv
<1>12. AgeInv'
  BY <1>1, <1>4 DEF AgeInv
<1>13. IdInv'
  BY <1>1, <1>4 DEF IdInv, pc
<1>14. ASSUME NEW u \in Threads, pc(u)' \in {"accepted", "adopt", "register", "listen", "connect"}
       PROVE  u # t /\ pc(u) = pc(u)' /\ thread[u].obj \in Sockets
  BY <1>4, <1>14, OpsAtSteps DEF pc
<1>15. AcceptInv'
  BY <1>1, <1>3, <1>4, <1>14 DEF AcceptInv
<1>16. LeakInv'
  BY <1>1, <1>3, <1>4 DEF LeakInv
<1>17. ClosedInv'
  BY <1>1, <1>4 DEF ClosedInv
<1>18. RegisterInv'
  BY <1>1, <1>3, <1>4, <1>14 DEF RegisterInv
<1>19. ObserverInv'
  <2>1. \A c : \A u \in Threads : (Deregisters(u, c) => Deregisters(u, c)') /\ (Keeps(u, c) => Keeps(u, c)')
    BY <1>1, <1>4 DEF Deregisters, Keeps
  <2>2. observers \subseteq Sockets
    BY NamesDiffer DEF SocketTypeOK
  <2>. QED BY <1>3, <1>4, <2>1, <2>2 DEF ObserverInv, Watched, Stored
<1>20. ListenInv'
  <2>1. \A u \in Threads : thread[u].op = "create" => thread[u].obj \in Sockets
    BY OpsAtSteps
  <2>. QED BY <1>1, <1>3, <1>4, <2>1 DEF ListenInv
<1>21. NumberInv'
  <2>. SUFFICES ASSUME touched = {}
                PROVE  FdInv' /\ CallNumInv' /\ StreamInv'
    BY <1>4 DEF NumberInv
  <2>1. FdInv'
    BY <1>3, <1>4 DEF NumberInv, FdInv
  <2>2. CallNumInv'
    <3>1. \A u \in Threads : thread[u].pc = "call" => thread[u].obj \in Sockets
      BY OpsAtSteps
    <3>. QED BY <1>1, <1>3, <1>4, <3>1 DEF NumberInv, CallNumInv, pc
  <2>3. StreamInv'
    <3>1. \A u \in Threads, c \in Clients :
            /\ Disconnected(u, c) => Disconnected(u, c)'
            /\ (Making(u, c) /\ pc(u) = "add")' => Making(u, c) /\ pc(u) = "add"
      BY <1>1, <1>4 DEF Disconnected, Making
    <3>2. Clients \subseteq Sockets
      BY NamesDiffer
    <3>. QED BY <1>3, <1>4, <3>1, <3>2 DEF NumberInv, StreamInv, OwnStream, Stored
  <2>. QED BY <2>1, <2>2, <2>3
<1>22. OwnDescriptorsOnly'
  <2>1. touched # {} => \E x \in touched : Excused(x)
    BY DEF OwnDescriptorsOnly, Excused
  <2>2. touched' # {} => \E x \in touched' : Excused(x)'
    BY <1>3, <1>4, <2>1 DEF SocketTypeOK
  <2>. QED BY <2>2 DEF OwnDescriptorsOnly, Excused
<1>. QED BY <1>5, <1>6, <1>7, <1>8, <1>9, <1>10, <1>11, <1>12, <1>13, <1>15, <1>16, <1>17,
            <1>18, <1>19, <1>20, <1>21, <1>22

LEMMA StoredTypes ==
  ASSUME SocketTypeOK
  PROVE  /\ \A i \in DOMAIN serverMap.objects : i \in Nat /\ serverMap.objects[i] \in Servers
         /\ \A i \in DOMAIN clientMap.objects : i \in Nat /\ clientMap.objects[i] \in Clients
         /\ \A i \in DOMAIN serverMap.objects : serverMap.objects[i] \in StoredSockets
         /\ \A i \in DOMAIN clientMap.objects : clientMap.objects[i] \in StoredSockets
BY DEF SocketTypeOK, IsMap, StoredSockets, Stored

LEMMA SocketServerAcceptStep ==
  ASSUME SocketInv, NEW t \in Threads, SocketServerAccept(t)
  PROVE  SocketInv'
<1>. USE DEF SocketInv
<1>1. PICK i \in DOMAIN serverMap.objects :
        /\ Enter(t, "accept", serverMap.objects[i],
                 IF status[serverMap.objects[i]] = "listening" THEN "call" ELSE "return",
                 fd[serverMap.objects[i]], i)
        /\ UNCHANGED <<objects, observers, maps, kernel, others, touched, age, laps>>
  BY DEF SocketServerAccept
<1>2. PICK s \in Servers : s = serverMap.objects[i]
  BY StoredTypes
<1>3. i \in Nat /\ s \in StoredSockets /\ s \in Sockets /\ fd[s] \in Numbers
  BY <1>2, StoredTypes, NamesDiffer DEF SocketTypeOK
<1>4. touched = {} /\ fd[s] \in Fds /\ ~Excused(s) => fdTable[fd[s]] = s
  BY <1>3 DEF NumberInv, FdInv
<1>5. PICK where \in {"call", "return"} : Enter(t, "accept", s, where, fd[s], i)
  BY <1>1, <1>2
<1>. QED BY <1>1, <1>2, <1>3, <1>4, <1>5, EnterStep

LEMMA SocketReadWriteStep ==
  ASSUME SocketInv, NEW t \in Threads, SocketReadWrite(t)
  PROVE  SocketInv'
<1>. USE DEF SocketInv
<1>1. PICK i \in DOMAIN clientMap.objects :
        /\ Enter(t, "data", clientMap.objects[i],
                 IF stream[clientMap.objects[i]] \in {0, InvalidFd} THEN "return" ELSE "call",
                 stream[clientMap.objects[i]], i)
        /\ UNCHANGED <<objects, observers, maps, kernel, others, touched, age, laps>>
  BY DEF SocketReadWrite
<1>2. PICK s \in Clients : s = clientMap.objects[i]
  BY StoredTypes
<1>3. i \in Nat /\ s \in StoredSockets /\ s \in Sockets /\ stream[s] \in Numbers
        /\ s \in Stored(clientMap)
  BY <1>2, StoredTypes, NamesDiffer DEF SocketTypeOK, Stored
<1>4. PICK where \in {"call", "return"} : Enter(t, "data", s, where, stream[s], i)
  BY <1>1, <1>2
<1>5. touched = {} /\ stream[s] \in Fds /\ ~Excused(s) /\ ~Excused(s)' => fdTable[stream[s]] = s
  <2>. SUFFICES ASSUME touched = {}, stream[s] \in Fds, ~Excused(s), ~Excused(s)',
                       fdTable[stream[s]] # s
                PROVE  FALSE
    OBVIOUS
  <2>1. PICK u \in Threads : Disconnected(u, s)
    BY <1>3 DEF NumberInv, StreamInv, OwnStream
  <2>2. {"data", thread[u].op} \in overlapped'[s] /\ thread[u].op = "disconnect"
    <3>1. thread[u].obj = s /\ thread[u].op = "disconnect"
      BY <2>1 DEF Disconnected
    <3>2. "data" \in Ops /\ where \in PCs /\ "data" \in Whats
      BY DEF Ops, PCs, Whats
    <3>. QED BY <1>3, <1>4, <3>1, <3>2, EnterMoves
  <2>3. {"data", thread[u].op} \cap Closing # {}
    BY <2>2 DEF Closing
  <2>. QED BY <2>2, <2>3 DEF Excused
<1>. QED BY <1>1, <1>2, <1>3, <1>4, <1>5, EnterStep

LEMMA CallCloseStep ==
  ASSUME SocketInv, NEW t \in Threads, CallClose(t)
  PROVE  SocketInv'
<1>. USE DEF SocketInv
<1>1. UNCHANGED <<objects, observers, maps, kernel, others, touched, age, laps>>
  BY DEF CallClose
<1>2. Clients \subseteq Sockets /\ Servers \subseteq Sockets /\ 0 \in Numbers /\ 0 \in Nat
  BY NamesDiffer
<1>3. {"close", "serverClose", "disconnect"} \subseteq Closing
  BY DEF Closing
<1>4. CASE \E i \in DOMAIN serverMap.objects :
             Enter(t, "serverClose", serverMap.objects[i], "closeCheck", 0, i)
  BY <1>1, <1>2, <1>3, <1>4, StoredTypes, EnterStep
<1>5. CASE \E i \in DOMAIN clientMap.objects :
             Enter(t, "disconnect", clientMap.objects[i], "closeCheck", 0, i)
  BY <1>1, <1>2, <1>3, <1>5, StoredTypes, EnterStep
<1>6. CASE \E u \in Threads : /\ thread[u].op \in {"create", "connect"}
                              /\ Enter(t, "close", thread[u].obj, "closeCheck", 0, 0)
  BY <1>1, <1>2, <1>3, <1>6, OpsAtSteps, EnterStep
<1>. QED BY <1>4, <1>5, <1>6 DEF CallClose

\* A call on a new socket.
LEMMA FreshIsUnused ==
  ASSUME SocketInv, NEW S \in {Servers, Clients}, NEW s \in Fresh(S)
  PROVE  /\ s \in S /\ s \in Sockets /\ s # NoSocket /\ s \notin observers \cup touched
         /\ status[s] = "none" /\ fd[s] = InvalidFd /\ s \notin StoredSockets
         /\ \A n \in Fds : fdTable[n] # s
         /\ \A u \in Threads : ~Uses(u, s)
<1>1. s \in Unused(S)
  BY DEF Fresh, Unused
<1>2. s \in S /\ s \in Sockets /\ s # NoSocket
  BY <1>1, NamesDiffer DEF Unused
<1>. QED BY <1>1, <1>2 DEF Unused, SocketInv, LiveInv

LEMMA NewSocketStep ==
  ASSUME SocketInv, NEW t \in Threads, NEW op \in {"create", "connect"}, NEW S \in {Servers, Clients},
         op = "create" <=> S = Servers, NEW s \in Fresh(S),
         Enter(t, op, s, IF op = "create" THEN "listen" ELSE "register", 0, 0), New(s),
         UNCHANGED <<observers, maps, kernel, others, touched, age, laps>>
  PROVE  SocketInv'
<1>. USE DEF SocketInv
<1>. DEFINE where == IF op = "create" THEN "listen" ELSE "register"
<1>0. /\ op \in Ops /\ where \in PCs /\ where # "call"
      /\ s \in S /\ s \in Sockets /\ s # NoSocket /\ s \notin observers \cup touched
      /\ status[s] = "none" /\ fd[s] = InvalidFd /\ s \notin StoredSockets
      /\ \A n \in Fds : fdTable[n] # s
      /\ \A u \in Threads : ~Uses(u, s)
      /\ S = Clients => op = "connect"
      /\ 0 \in Nat /\ 0 \in Numbers /\ NoSocket \notin Sockets /\ InvalidFd \notin Fds
  BY FreshIsUnused, NamesDiffer DEF Ops, PCs
<1>. HIDE DEF where
<1>1. /\ IsIdle(thread[t]) /\ pc(t) = "idle"
      /\ thread' \in [Threads -> ThreadRecord]
      /\ \A u \in Threads \ {t} : thread'[u] = thread[u]
      /\ thread'[t] = [op |-> op, pc |-> where, obj |-> s, conn |-> NoSocket, id |-> 0,
                       num |-> 0, what |-> "none"]
      /\ calls' \in Nat
      /\ overlapped' \in [Sockets -> SUBSET SUBSET Ops]
      /\ \A x \in Sockets \ {s} : overlapped'[x] = overlapped[x]
  BY <1>0, EnterMoves DEF where
<1>2. /\ status' \in [Sockets -> {"none", "init", "listening", "connected", "closed"}]
      /\ status'[s] = "init" /\ \A x \in Sockets \ {s} : status'[x] = status[x]
      /\ UNCHANGED <<fd, stream, acceptFd, observers, serverMap, clientMap, fdTable, shut, touched,
                     others, age, laps>>
  BY <1>0 DEF New, SocketTypeOK, maps, kernel
<1>3. /\ \A u \in Threads \ {t} : pc(u)' = pc(u)
      /\ pc(t)' = where /\ where \in {"listen", "register"} /\ (where = "listen" <=> op = "create")
      /\ thread'[t].op = op /\ thread'[t].obj = s /\ thread'[t].conn = NoSocket
      /\ thread[t].op = "none" /\ thread[t].obj = NoSocket /\ thread[t].conn = NoSocket
      /\ \A u \in Threads \ {t} : thread[u].obj # s /\ thread[u].conn # s
  BY <1>0, <1>1 DEF pc, IsIdle, where, Uses
<1>4. /\ \A x \in Sockets \ {s} : (Excused(x)' <=> Excused(x)) /\ (ClosedEarly(x)' <=> ClosedEarly(x))
      /\ \A u \in Threads, x \in Sockets \ {s} : (Uses(u, x)' <=> Uses(u, x)) /\ (Making(u, x)' <=> Making(u, x))
      /\ \A u \in Threads : (Uses(u, s)' => u = t) /\ (Making(u, s)' => u = t)
  BY <1>0, <1>1, <1>3 DEF Excused, ClosedEarly, Uses, Making
<1>5. SocketTypeOK'
  BY <1>1, <1>2 DEF SocketTypeOK, IsMap
<1>6. CallInv'
  <2>1. CallAt(thread'[t])
    BY <1>0, <1>1, <1>3 DEF CallAt, AtStep, pc
  <2>. QED BY <1>1, <2>1 DEF CallInv
<1>7. LiveInv'
  <2>1. StoredSockets' = StoredSockets
    BY <1>2 DEF StoredSockets, Stored
  <2>2. \A x \in Sockets \ {s} : \A u \in Threads : Making(u, x)' => u # t
    BY <1>0, <1>3 DEF Making
  <2>. QED BY <1>0, <1>1, <1>2, <1>3, <1>4, <2>1, <2>2 DEF LiveInv
<1>8. NewInv'
  BY <1>0, <1>1, <1>2, <1>3 DEF NewInv
<1>9. StoredInv'
  BY <1>1, <1>2, <1>3 DEF StoredInv, Stored, pc
<1>10. OverlapInv'
  <2>. SUFFICES ASSUME NEW u \in Threads, NEW v \in Threads, u # v,
                       thread'[u].obj = thread'[v].obj, thread'[u].op # "none"
                PROVE  {thread'[u].op, thread'[v].op} \in overlapped'[thread'[u].obj]
    BY DEF OverlapInv
  <2>1. u # t /\ v # t
    BY <1>1, <1>3
  <2>2. thread[u].obj \in Sockets \ {s}
    BY <1>1, <1>3, <2>1, OpsAtSteps
  <2>. QED BY <1>1, <2>1, <2>2 DEF OverlapInv
<1>11. CloseInv'
  <2>1. \A u \in Threads : thread[u].op = "close" => thread[u].obj \in Sockets
    BY OpsAtSteps
  <2>. QED BY <1>1, <1>3, <1>4, <2>1 DEF CloseInv
<1>12. AgeInv'
  BY <1>1, <1>2, <1>3 DEF AgeInv
<1>13. IdInv'
  BY <1>1, <1>2, <1>3 DEF IdInv, pc
<1>14. ASSUME NEW u \in Threads, u # t, pc(u) # "idle"
       PROVE  pc(u) = pc(u)' /\ thread'[u] = thread[u] /\ thread[u].obj \in Sockets \ {s}
  BY <1>1, <1>3, <1>14, OpsAtSteps DEF pc
<1>15. AcceptInv'
  BY <1>1, <1>2, <1>3, <1>14 DEF AcceptInv
<1>16. LeakInv'
  BY <1>0, <1>1, <1>2, <1>3 DEF LeakInv
<1>17. ClosedInv'
  BY <1>1, <1>2, <1>3, <1>14 DEF ClosedInv
<1>18. RegisterInv'
  BY <1>1, <1>2, <1>3, <1>4, <1>14 DEF RegisterInv
<1>19. ObserverInv'
  <2>1. \A u \in Threads, c \in Sockets \ {s} :
          (Deregisters(u, c) => Deregisters(u, c)') /\ (Keeps(u, c) => Keeps(u, c)')
    BY <1>0, <1>1, <1>3 DEF Deregisters, Keeps
  <2>2. observers \subseteq Sockets \ {s}
    BY <1>0, NamesDiffer DEF SocketTypeOK
  <2>. QED BY <1>2, <1>4, <2>1, <2>2 DEF ObserverInv, Watched, Stored
<1>20. ListenInv'
  <2>1. \A u \in Threads \ {t} : thread[u].op = "create" => thread[u].obj \in Sockets \ {s}
    BY <1>3, OpsAtSteps
  <2>. QED BY <1>1, <1>2, <1>3, <1>4, <2>1 DEF ListenInv, pc
<1>21. NumberInv'
  <2>. SUFFICES ASSUME touched = {}
                PROVE  FdInv' /\ CallNumInv' /\ StreamInv'
    BY <1>2 DEF NumberInv
  <2>1. FdInv'
    BY <1>0, <1>2, <1>4 DEF NumberInv, FdInv
  <2>2. CallNumInv'
    BY <1>1, <1>2, <1>3, <1>4, <1>14 DEF NumberInv, CallNumInv, pc
  <2>3. StreamInv'
    <3>1. \A u \in Threads, c \in Clients : Disconnected(u, c) => Disconnected(u, c)'
      BY <1>1, <1>3 DEF Disconnected
    <3>2. \A u \in Threads, c \in Sockets \ {s} :
            (Making(u, c) /\ pc(u) = "add")' => Making(u, c) /\ pc(u) = "add"
      BY <1>3, <1>4
    <3>3. Clients \subseteq Sockets
      BY NamesDiffer
    <3>4. ASSUME NEW c \in Clients, c # s
          PROVE  OwnStream(c)'
      BY <1>2, <1>4, <3>1, <3>2, <3>3, <3>4 DEF NumberInv, StreamInv, OwnStream, Stored
    <3>5. s \in Clients => OwnStream(s)'
      BY <1>0, <1>2, <1>3, <1>4 DEF OwnStream, Stored, StoredSockets
    <3>. QED BY <3>4, <3>5 DEF StreamInv
  <2>. QED BY <2>1, <2>2, <2>3
<1>22. OwnDescriptorsOnly'
  BY <1>0, <1>1, <1>2 DEF OwnDescriptorsOnly, SocketTypeOK
<1>. QED BY <1>5, <1>6, <1>7, <1>8, <1>9, <1>10, <1>11, <1>12, <1>13, <1>15, <1>16, <1>17,
            <1>18, <1>19, <1>20, <1>21, <1>22

LEMMA SocketServerCreateStep ==
  ASSUME SocketInv, NEW t \in Threads, SocketServerCreate(t)
  PROVE  SocketInv'
BY NewSocketStep DEF SocketServerCreate

LEMMA SocketConnectStep ==
  ASSUME SocketInv, NEW t \in Threads, SocketConnect(t)
  PROVE  SocketInv'
<1>1. CASE Servers = Clients
  BY <1>1, NamesDiffer, FreshIsUnused DEF SocketConnect
<1>2. CASE Servers # Clients
  BY <1>2, NewSocketStep DEF SocketConnect
<1>. QED BY <1>1, <1>2

-----------------------------------------------------------------------------
(***************************************************************************)
(* Accept.                                                                 *)
(***************************************************************************)
\* The other Accepts on the server of thread t have noted that they overlap.
LEMMA OtherAccepts ==
  ASSUME SocketInv, NEW t \in Threads, pc(t) # "idle", thread[t].op = "accept"
  PROVE  \A u \in Threads \ {t} :
           pc(u) \in {"accepted", "adopt"} /\ thread[u].obj = thread[t].obj =>
             {"accept"} \in overlapped[thread[t].obj]
BY OthersOverlap, OpsAtSteps DEF SocketInv, pc

LEMMA ConnectionArrivesStep ==
  ASSUME SocketInv, NEW t \in Threads, ConnectionArrives(t)
  PROVE  SocketInv'
<1>. USE DEF SocketInv
<1>1. PICK c \in Fresh(Clients) :
        /\ status' = [status EXCEPT ![c] = "connected"]
        /\ fdTable' = [fdTable EXCEPT ![LowestFreeFd] = c]
        /\ thread' = [thread EXCEPT ![t].pc = "accepted", ![t].conn = c]
  BY DEF ConnectionArrives
<1>2. PICK n \in Fds : n = LowestFreeFd /\ n \in Numbers /\ fdTable[n] = Free
  BY FreeFdExists DEF ConnectionArrives
<1>3. PICK s \in Servers : thread[t].obj = s
  BY OpsAtSteps DEF ConnectionArrives, CallAt, WaitsFor, pc
<1>4. /\ pc(t) = "wait" /\ thread[t].op = "accept" /\ CallAt(thread[t]) /\ thread[t].conn = NoSocket
      /\ acceptFd' = [acceptFd EXCEPT ![s] = n]
      /\ UNCHANGED <<fd, stream, observers, serverMap, clientMap, shut, calls, others, overlapped,
                     touched, age, laps>>
  BY <1>2, <1>3, OpsAtSteps DEF ConnectionArrives, CallAt, WaitsFor, pc, maps, bounds, socketHistory
<1>5. /\ c \in Clients /\ c \in Sockets /\ c # NoSocket /\ c \notin observers \cup touched
      /\ status[c] = "none" /\ fd[c] = InvalidFd /\ c \notin StoredSockets /\ c # s
      /\ \A k \in Fds : fdTable[k] # c
      /\ \A u \in Threads : ~Uses(u, c)
      /\ s \in Sockets /\ Free \notin Sockets /\ InvalidFd \notin Fds /\ NoSocket \notin Sockets
  BY <1>3, FreshIsUnused, NamesDiffer
<1>6. /\ thread' \in [Threads -> ThreadRecord]
      /\ \A u \in Threads \ {t} : thread'[u] = thread[u] /\ pc(u)' = pc(u)
      /\ \A u \in Threads : thread'[u].op = thread[u].op /\ thread'[u].obj = thread[u].obj
      /\ thread'[t].op = "accept" /\ thread'[t].obj = s /\ thread'[t].conn = c
      /\ thread'[t].pc = "accepted" /\ pc(t)' = "accepted"
      /\ \A u \in Threads \ {t} : thread[u].obj # c /\ thread[u].conn # c
  <2>1. "accepted" \in PCs /\ thread \in [Threads -> ThreadRecord] /\ thread[t] \in ThreadRecord
    BY DEF PCs, SocketTypeOK
  <2>2. thread'[t] = [thread[t] EXCEPT !.pc = "accepted", !.conn = c]
    BY <1>1, <2>1
  <2>3. thread'[t] \in ThreadRecord
    BY <1>5, <2>1, <2>2 DEF ThreadRecord
  <2>4. /\ thread'[t].op = thread[t].op /\ thread'[t].obj = thread[t].obj
        /\ thread'[t].conn = c /\ thread'[t].pc = "accepted"
    BY <2>1, <2>2 DEF ThreadRecord
  <2>5. thread' \in [Threads -> ThreadRecord] /\ \A u \in Threads \ {t} : thread'[u] = thread[u]
    BY <1>1, <2>1, <2>3
  <2>. QED BY <1>3, <1>4, <1>5, <2>4, <2>5 DEF pc, Uses
<1>7. /\ status'[c] = "connected" /\ \A x \in Sockets \ {c} : status'[x] = status[x]
      /\ fdTable'[n] = c /\ \A k \in Fds \ {n} : fdTable'[k] = fdTable[k]
      /\ acceptFd'[s] = n /\ \A x \in Servers \ {s} : acceptFd'[x] = acceptFd[x]
  BY <1>1, <1>2, <1>3, <1>4, <1>5 DEF SocketTypeOK
<1>8. SocketTypeOK'
  BY <1>1, <1>2, <1>3, <1>4, <1>5, <1>6 DEF SocketTypeOK, IsMap
<1>9. CallInv'
  <2>1. CallAt(thread'[t])
    BY <1>3, <1>4, <1>5, <1>6 DEF CallAt, AtStep
  <2>. QED BY <1>6, <2>1 DEF CallInv
<1>10. LiveInv'
  <2>1. \A u \in Threads, x \in Sockets \ {c} :
          (Uses(u, x)' <=> Uses(u, x)) /\ (Making(u, x)' <=> Making(u, x))
    BY <1>3, <1>4, <1>5, <1>6 DEF Uses, Making
  <2>2. \A u \in Threads : (Uses(u, c)' => u = t) /\ (Making(u, c)' => u = t)
    BY <1>4, <1>5, <1>6 DEF Uses, Making
  <2>3. StoredSockets' = StoredSockets
    BY <1>4 DEF StoredSockets, Stored
  <2>4. \A x \in Sockets \ {c}, u \in Threads : thread[u].conn = x <=> thread'[u].conn = x
    BY <1>4, <1>5, <1>6
  <2>. QED BY <1>3, <1>4, <1>5, <1>6, <1>7, <2>1, <2>2, <2>3, <2>4 DEF LiveInv
<1>11. NewInv'
  BY <1>4, <1>5, <1>6 DEF NewInv
<1>12. StoredInv'
  BY <1>4, <1>6 DEF StoredInv, Stored, pc
<1>13. OverlapInv'
  BY <1>4, <1>6 DEF OverlapInv
<1>14. CloseInv'
  BY <1>4, <1>6 DEF CloseInv, Excused
<1>15. AgeInv'
  <2>1. \A u \in Threads : thread[u].op = "disconnect" => u # t
    BY <1>4
  <2>. QED BY <1>4, <1>6, <2>1 DEF AgeInv
<1>16. IdInv'
  BY <1>4, <1>6 DEF IdInv, pc
<1>17. AcceptInv'
  <2>1. ASSUME NEW u \in Threads \ {t}, pc(u) \in {"accepted", "adopt"},
               {"accept"} \notin overlapped[thread[u].obj]
        PROVE  /\ acceptFd'[thread[u].obj] = acceptFd[thread[u].obj]
               /\ \A k \in Fds : fdTable'[k] = thread[u].conn => fdTable[k] = thread[u].conn
               /\ \A k \in Fds : fdTable[k] = thread[u].conn /\ thread[u].conn # NoSocket =>
                    fdTable'[k] = thread[u].conn
    <3>1. thread[u].obj \in Servers
      BY <2>1, OpsAtSteps DEF CallAt, pc
    <3>2. thread[u].obj # s
      BY <1>3, <1>4, <2>1, OtherAccepts
    <3>3. thread[u].conn # NoSocket => thread[u].conn # Free
      BY <2>1, ThreadFields, NamesDiffer
    <3>. QED BY <1>2, <1>6, <1>7, <3>1, <3>2, <3>3
  <2>2. ASSUME NEW k \in Fds, fdTable'[k] = c
        PROVE  k = n
    BY <1>5, <1>7, <2>2
  <2>. QED BY <1>4, <1>5, <1>6, <1>7, <2>1, <2>2 DEF AcceptInv
<1>18. LeakInv'
  BY <1>4, <1>6, <1>7 DEF LeakInv, pc
<1>19. ASSUME NEW u \in Threads \ {t}, pc(u) # "idle"
       PROVE  thread[u].obj \in Sockets \ {c}
  BY <1>6, <1>19, OpsAtSteps DEF pc
<1>20. ClosedInv'
  BY <1>4, <1>6, <1>7, <1>19 DEF ClosedInv
<1>21. RegisterInv'
  BY <1>4, <1>6, <1>7, <1>19 DEF RegisterInv, ClosedEarly
<1>22. ObserverInv'
  <2>1. \A u \in Threads, x \in Sockets :
          (Deregisters(u, x) => Deregisters(u, x)') /\ (Keeps(u, x) => Keeps(u, x)')
    BY <1>4, <1>6 DEF Deregisters, Keeps
  <2>2. observers \subseteq Sockets \ {c}
    BY <1>5, NamesDiffer DEF SocketTypeOK
  <2>. QED BY <1>4, <1>7, <2>1, <2>2 DEF ObserverInv, Watched, ClosedEarly, Stored
<1>23. ListenInv'
  BY <1>4, <1>6, <1>7, <1>19 DEF ListenInv, Excused, pc
<1>24. NumberInv'
  <2>. SUFFICES ASSUME touched = {}
                PROVE  FdInv' /\ CallNumInv' /\ StreamInv'
    BY <1>4 DEF NumberInv
  <2>0. \A k \in Fds : fdTable[k] \in Sockets => fdTable'[k] = fdTable[k]
    BY <1>2, <1>5, <1>7
  <2>1. FdInv'
    BY <1>4, <2>0 DEF NumberInv, FdInv, Excused
  <2>2. CallNumInv'
    BY <1>4, <1>6, <1>19, <2>0 DEF NumberInv, CallNumInv, Excused, pc
  <2>3. StreamInv'
    <3>1. \A u \in Threads, x \in Clients : Disconnected(u, x) => Disconnected(u, x)'
      BY <1>4, <1>6 DEF Disconnected
    <3>2. \A u \in Threads, x \in Clients :
            (Making(u, x) /\ pc(u) = "add")' => Making(u, x) /\ pc(u) = "add"
      BY <1>4, <1>6 DEF Making
    <3>3. Clients \subseteq Sockets
      BY NamesDiffer
    <3>. QED BY <1>4, <2>0, <3>1, <3>2, <3>3 DEF NumberInv, StreamInv, OwnStream, Excused, Stored
  <2>. QED BY <2>1, <2>2, <2>3
<1>25. OwnDescriptorsOnly'
  BY <1>4 DEF OwnDescriptorsOnly
<1>. QED BY <1>8, <1>9, <1>10, <1>11, <1>12, <1>13, <1>14, <1>15, <1>16, <1>17, <1>18, <1>20,
            <1>21, <1>22, <1>23, <1>24, <1>25

LEMMA AcceptCheckStep ==
  ASSUME SocketInv, NEW t \in Threads, AcceptCheck(t)
  PROVE  SocketInv'
<1>. USE DEF SocketInv
<1>1. PICK s \in Servers : thread[t].obj = s
  BY OpsAtSteps DEF AcceptCheck, CallAt, pc
<1>2. PICK c : c = thread[t].conn
  OBVIOUS
<1>3. PICK w \in {"adopt", "return"} : MovesTo(t, w) /\ (w = "adopt" <=> acceptFd[s] \in Fds)
  BY <1>1, GotoMoves DEF AcceptCheck, PCs
<1>4. /\ pc(t) = "accepted" /\ thread[t].op = "accept" /\ CallAt(thread[t])
      /\ overlapped' = [x \in Sockets |-> IF x = c THEN overlapped[s] ELSE overlapped[x]]
      /\ UNCHANGED <<status, fd, stream, acceptFd, observers, serverMap, clientMap, fdTable, shut,
                     calls, others, touched, age, laps>>
  BY <1>1, <1>2, OpsAtSteps DEF AcceptCheck, pc, objects, maps, kernel, bounds
<1>5. /\ c # NoSocket =>
           /\ c \in Clients /\ c \in Sockets /\ c \notin StoredSockets /\ c # s /\ c \notin observers \cup touched
           /\ fd[c] = InvalidFd /\ \A u \in Threads \ {t} : ~Uses(u, c)
      /\ s \in Sockets /\ NoSocket \notin Sockets /\ Clients \subseteq Sockets
      /\ InvalidFd \notin Fds
  BY <1>1, <1>2, <1>4, AcceptedAlone, NamesDiffer DEF NewInv
<1>6. /\ thread' \in [Threads -> ThreadRecord]
      /\ \A u \in Threads \ {t} : thread'[u] = thread[u] /\ pc(u)' = pc(u)
      /\ \A u \in Threads : thread'[u].op = thread[u].op /\ thread'[u].obj = thread[u].obj
                              /\ thread'[u].conn = thread[u].conn /\ thread'[u].id = thread[u].id
      /\ thread'[t].pc = w /\ pc(t)' = w
  BY <1>3 DEF MovesTo, pc
<1>7. /\ \A x \in Sockets : x # c => overlapped'[x] = overlapped[x] /\ (Excused(x)' <=> Excused(x))
      /\ c \in Sockets => overlapped'[c] = overlapped[s]
      /\ \A u \in Threads \ {t} : c \in Sockets => thread[u].obj # c /\ thread[u].conn # c
      /\ \A x : \A u \in Threads : (Uses(u, x)' <=> Uses(u, x)) /\ (Making(u, x)' => Making(u, x))
  BY <1>4, <1>5, <1>6 DEF Excused, Uses, Making
<1>8. ASSUME NEW u \in Threads, pc(u) # "idle"
      PROVE  thread[u].obj \in Sockets /\ thread[u].obj # c
  BY <1>1, <1>5, <1>7, <1>8, OpsAtSteps DEF pc
<1>9. SocketTypeOK'
  BY <1>4, <1>5, <1>6 DEF SocketTypeOK, IsMap
<1>10. CallInv'
  <2>1. CallAt(thread'[t])
    BY <1>1, <1>3, <1>4, <1>5, <1>6 DEF CallAt, AtStep
  <2>. QED BY <1>6, <2>1 DEF CallInv
<1>11. LiveInv'
  <2>1. StoredSockets' = StoredSockets
    BY <1>4 DEF StoredSockets, Stored
  <2>. QED BY <1>4, <1>6, <1>7, <2>1 DEF LiveInv
<1>12. NewInv'
  BY <1>3, <1>4, <1>5, <1>6, <1>2 DEF NewInv
<1>13. StoredInv'
  BY <1>4, <1>6 DEF StoredInv, Stored, pc
<1>14. OverlapInv'
  <2>1. \A u \in Threads : thread[u].op # "none" => thread[u].obj \in Sockets /\ thread[u].obj # c
    BY <1>8, OpsAtSteps DEF pc
  <2>. SUFFICES ASSUME NEW u \in Threads, NEW v \in Threads, u # v,
                       thread[u].obj = thread[v].obj, thread[u].op # "none"
                PROVE  {thread[u].op, thread[v].op} \in overlapped'[thread[u].obj]
    BY <1>6 DEF OverlapInv
  <2>2. overlapped'[thread[u].obj] = overlapped[thread[u].obj]
    BY <1>7, <2>1
  <2>. QED BY <2>2 DEF OverlapInv
<1>15. CloseInv'
  <2>1. \A u \in Threads : thread[u].op = "close" => thread[u].obj \in Sockets /\ thread[u].obj # c
    BY <1>8, OpsAtSteps DEF pc
  <2>. QED BY <1>6, <1>7, <2>1 DEF CloseInv
<1>16. AgeInv'
  BY <1>4, <1>6 DEF AgeInv
<1>17. IdInv'
  BY <1>4, <1>6 DEF IdInv, pc
<1>18. AcceptInv'
  <2>1. \A u \in Threads : pc(u)' \in {"accepted", "adopt"} =>
          /\ pc(u) \in {"accepted", "adopt"} /\ (pc(u)' # pc(u) => u = t /\ w = "adopt")
          /\ overlapped'[thread[u].obj] = overlapped[thread[u].obj]
    BY <1>4, <1>6, <1>7, <1>8
  <2>2. w = "adopt" /\ c = NoSocket => {"accept"} \in overlapped[s]
    BY <1>1, <1>2, <1>3, <1>4, <1>5 DEF AcceptInv
  <2>. QED BY <1>1, <1>2, <1>4, <1>6, <2>1, <2>2 DEF AcceptInv
<1>19. LeakInv'
  <2>. SUFFICES ASSUME NEW n \in Fds, NEW x \in Sockets, fdTable[n] = x
                PROVE  \/ fd[x] = n
                       \/ \E u \in Threads : pc(u)' \in {"accepted", "adopt"} /\ thread[u].conn = x
                       \/ {"accept"} \in overlapped'[x]
    BY <1>4, <1>6 DEF LeakInv
  <2>1. CASE x # c
    BY <1>2, <1>6, <1>7, <2>1 DEF LeakInv
  <2>2. CASE x = c /\ w = "adopt"
    BY <1>2, <1>6, <2>2
  <2>3. CASE x = c /\ w # "adopt"
    BY <1>1, <1>2, <1>3, <1>4, <1>5, <1>7, <2>3 DEF AcceptInv
  <2>. QED BY <2>1, <2>2, <2>3
<1>20. ClosedInv'
  BY <1>4, <1>6 DEF ClosedInv
<1>21. RegisterInv'
  <2>1. \A u \in Threads : pc(u)' = "register" => pc(u) = "register" /\ u # t
    BY <1>4, <1>6
  <2>. QED BY <1>4, <1>6, <1>7, <1>8, <2>1 DEF RegisterInv, ClosedEarly
<1>22. ObserverInv'
  <2>1. \A x : \A u \in Threads : (Deregisters(u, x) => Deregisters(u, x)') /\ (Keeps(u, x) => Keeps(u, x)')
    BY <1>4, <1>6 DEF Deregisters, Keeps
  <2>2. \A x \in observers : x \in Sockets /\ x # c
    BY <1>5 DEF SocketTypeOK
  <2>. QED BY <1>4, <1>7, <2>1, <2>2 DEF ObserverInv, Watched, ClosedEarly, Stored
<1>23. ListenInv'
  <2>1. \A u \in Threads : thread[u].op = "create" => u # t /\ pc(u)' = pc(u) /\ thread[u].obj \in Sockets /\ thread[u].obj # c
    BY <1>4, <1>6, <1>8, OpsAtSteps DEF pc
  <2>. QED BY <1>4, <1>6, <1>7, <2>1 DEF ListenInv
<1>24. NumberInv'
  <2>. SUFFICES ASSUME touched = {}
                PROVE  FdInv' /\ CallNumInv' /\ StreamInv'
    BY <1>4 DEF NumberInv
  <2>0. c \in Sockets /\ ~Excused(c)' => ~Excused(s) /\ {"accept"} \notin overlapped[s]
    BY <1>7 DEF Excused
  <2>1. FdInv'
    <3>. SUFFICES ASSUME NEW x \in Sockets, fd[x] \in Fds, ~Excused(x)'
                  PROVE  fdTable[fd[x]] = x
      BY <1>4 DEF FdInv
    <3>1. CASE x # c
      BY <1>7, <3>1 DEF NumberInv, FdInv
    <3>2. CASE x = c
      BY <1>5, <3>2
    <3>. QED BY <3>1, <3>2
  <2>2. CallNumInv'
    <3>1. \A u \in Threads : thread'[u].pc = "call" => u # t /\ thread[u].pc = "call"
            /\ thread[u].obj \in Sockets /\ thread[u].obj # c
      BY <1>6, <1>8 DEF pc
    <3>. QED BY <1>4, <1>6, <1>7, <3>1 DEF NumberInv, CallNumInv
  <2>3. StreamInv'
    <3>1. \A u \in Threads, x \in Clients : Disconnected(u, x) => Disconnected(u, x)'
      BY <1>4, <1>6 DEF Disconnected
    <3>2. \A u \in Threads, x \in Clients :
            (Making(u, x) /\ pc(u) = "add")' => Making(u, x) /\ pc(u) = "add" /\ u # t
      BY <1>4, <1>6, <1>7 DEF Making
    <3>3. ASSUME NEW x \in Clients, x # c
          PROVE  OwnStream(x)'
      BY <1>4, <1>5, <1>7, <3>1, <3>2, <3>3 DEF NumberInv, StreamInv, OwnStream, Stored
    <3>4. c \in Clients => OwnStream(c)'
      BY <1>4, <1>5, <1>7, <3>2 DEF OwnStream, Stored, StoredSockets, Making, Uses
    <3>. QED BY <3>3, <3>4 DEF StreamInv
  <2>. QED BY <2>1, <2>2, <2>3
<1>25. OwnDescriptorsOnly'
  <2>1. \A x \in touched : x \in Sockets /\ x # c
    BY <1>5 DEF SocketTypeOK
  <2>. QED BY <1>4, <1>7, <2>1 DEF OwnDescriptorsOnly
<1>. QED BY <1>9, <1>10, <1>11, <1>12, <1>13, <1>14, <1>15, <1>16, <1>17, <1>18, <1>19, <1>20,
            <1>21, <1>22, <1>23, <1>24, <1>25

LEMMA AcceptedClientStep ==
  ASSUME SocketInv, NEW t \in Threads, AcceptedClient(t)
  PROVE  SocketInv'
<1>. USE DEF SocketInv
<1>1. PICK s \in Servers : thread[t].obj = s
  BY OpsAtSteps DEF AcceptedClient, CallAt, pc
<1>2. PICK c \in IF thread[t].conn = NoSocket THEN Fresh(Clients) ELSE {thread[t].conn} :
        /\ status' = [status EXCEPT ![c] = "connected"]
        /\ fd' = [fd EXCEPT ![c] = acceptFd[s]]
        /\ stream' = [stream EXCEPT ![c] = acceptFd[s]]
        /\ overlapped' = [overlapped EXCEPT ![c] = overlapped[s]]
        /\ thread' = [thread EXCEPT ![t].pc = "add", ![t].conn = c]
  BY <1>1 DEF AcceptedClient
<1>3. /\ pc(t) = "adopt" /\ thread[t].op = "accept" /\ CallAt(thread[t])
      /\ UNCHANGED <<acceptFd, observers, serverMap, clientMap, fdTable, shut, calls, others,
                     touched, age, laps>>
  BY OpsAtSteps DEF AcceptedClient, pc, maps, kernel, bounds
<1>4. /\ c \in Clients /\ c \in Sockets /\ c \notin StoredSockets /\ c # s
      /\ c \notin observers \cup touched
      /\ \A u \in Threads \ {t} : ~Uses(u, c)
      /\ thread[t].conn \in {NoSocket, c}
      /\ s \in Sockets /\ NoSocket \notin Sockets /\ Clients \subseteq Sockets /\ c # NoSocket
      /\ acceptFd[s] \in Numbers
  <2>1. CASE thread[t].conn = NoSocket
    BY <1>1, <1>2, <2>1, FreshIsUnused, NamesDiffer DEF SocketTypeOK
  <2>2. CASE thread[t].conn # NoSocket
    BY <1>1, <1>2, <1>3, <2>2, AcceptedAlone, NamesDiffer DEF NewInv, SocketTypeOK
  <2>. QED BY <2>1, <2>2
<1>5. {"accept"} \notin overlapped[s] =>
         /\ \A n \in Fds : fdTable[n] = c => n = acceptFd[s]
         /\ touched = {} => fdTable[acceptFd[s]] = c
  BY <1>1, <1>2, <1>3 DEF AcceptInv
<1>6. /\ thread' \in [Threads -> ThreadRecord]
      /\ \A u \in Threads \ {t} : thread'[u] = thread[u] /\ pc(u)' = pc(u)
      /\ \A u \in Threads : thread'[u].op = thread[u].op /\ thread'[u].obj = thread[u].obj
                              /\ thread'[u].id = thread[u].id
      /\ thread'[t].conn = c /\ thread'[t].pc = "add" /\ pc(t)' = "add"
      /\ \A u \in Threads \ {t} : thread[u].obj # c /\ thread[u].conn # c
  <2>1. "add" \in PCs /\ thread \in [Threads -> ThreadRecord] /\ thread[t] \in ThreadRecord
    BY DEF PCs, SocketTypeOK
  <2>2. thread'[t] = [thread[t] EXCEPT !.pc = "add", !.conn = c]
    BY <1>2, <2>1
  <2>3. thread'[t] \in ThreadRecord
    BY <1>4, <2>1, <2>2 DEF ThreadRecord
  <2>4. /\ thread'[t].op = thread[t].op /\ thread'[t].obj = thread[t].obj
        /\ thread'[t].id = thread[t].id /\ thread'[t].conn = c /\ thread'[t].pc = "add"
    BY <2>1, <2>2 DEF ThreadRecord
  <2>5. thread' \in [Threads -> ThreadRecord] /\ \A u \in Threads \ {t} : thread'[u] = thread[u]
    BY <1>2, <2>1, <2>3
  <2>. QED BY <1>3, <1>4, <2>4, <2>5 DEF pc, Uses
<1>7. /\ status'[c] = "connected" /\ \A x \in Sockets \ {c} : status'[x] = status[x]
      /\ fd'[c] = acceptFd[s] /\ \A x \in Sockets \ {c} : fd'[x] = fd[x]
      /\ stream'[c] = acceptFd[s] /\ \A x \in Clients \ {c} : stream'[x] = stream[x]
      /\ overlapped'[c] = overlapped[s] /\ \A x \in Sockets \ {c} : overlapped'[x] = overlapped[x]
  BY <1>2, <1>4 DEF SocketTypeOK
<1>8. /\ \A x \in Sockets \ {c} : (Excused(x)' <=> Excused(x)) /\ (ClosedEarly(x)' <=> ClosedEarly(x))
      /\ Excused(c)' <=> Excused(s)
  BY <1>7 DEF Excused, ClosedEarly
<1>9. SocketTypeOK'
  <2>1. overlapped[s] \in SUBSET SUBSET Ops
    BY <1>4 DEF SocketTypeOK
  <2>2. overlapped' \in [Sockets -> SUBSET SUBSET Ops]
    <3>. HIDE DEF Ops
    <3>. QED BY <1>2, <1>4, <2>1 DEF SocketTypeOK
  <2>. QED BY <1>2, <1>3, <1>4, <1>6, <2>2 DEF SocketTypeOK, IsMap
<1>10. CallInv'
  <2>1. CallAt(thread'[t])
    BY <1>1, <1>3, <1>4, <1>6 DEF CallAt, AtStep
  <2>. QED BY <1>6, <2>1 DEF CallInv
<1>11. LiveInv'
  <2>1. \A u \in Threads, x \in Sockets \ {c} :
          (Uses(u, x)' <=> Uses(u, x)) /\ (Making(u, x)' => Making(u, x))
    BY <1>3, <1>4, <1>6 DEF Uses, Making
  <2>2. \A u \in Threads : (Uses(u, c)' => u = t) /\ (Making(u, c)' => u = t)
    BY <1>4, <1>6 DEF Uses, Making
  <2>3. StoredSockets' = StoredSockets
    BY <1>3 DEF StoredSockets, Stored
  <2>4. \A x \in Sockets \ {c}, u \in Threads : thread'[u].conn = x => thread[u].conn = x
    BY <1>4, <1>6
  <2>. QED BY <1>1, <1>4, <1>6, <1>7, <2>1, <2>2, <2>3, <2>4 DEF LiveInv
<1>12. ASSUME NEW u \in Threads, pc(u) # "idle"
       PROVE  thread[u].obj \in Sockets \ {c} /\ (u # t => thread[u].conn # c)
  BY <1>1, <1>4, <1>6, <1>12, OpsAtSteps DEF pc
<1>13. NewInv'
  <2>1. \A u \in Threads : pc(u)' \in {"listen", "register", "connect", "accepted", "adopt"} =>
          u # t /\ pc(u) = pc(u)'
    BY <1>6
  <2>2. \A u \in Threads : thread[u].conn \in Sockets \cup {NoSocket}
    BY <1>4, ThreadFields
  <2>. QED BY <1>3, <1>6, <1>7, <1>12, <2>1, <2>2 DEF NewInv
<1>14. StoredInv'
  BY <1>3, <1>6 DEF StoredInv, Stored, pc
<1>15. OverlapInv'
  <2>. SUFFICES ASSUME NEW u \in Threads, NEW v \in Threads, u # v,
                       thread[u].obj = thread[v].obj, thread[u].op # "none"
                PROVE  {thread[u].op, thread[v].op} \in overlapped'[thread[u].obj]
    BY <1>6 DEF OverlapInv
  <2>1. overlapped'[thread[u].obj] = overlapped[thread[u].obj]
    BY <1>7, <1>12, OpsAtSteps DEF pc
  <2>. QED BY <2>1 DEF OverlapInv
<1>16. CloseInv'
  <2>1. \A u \in Threads : thread[u].op = "close" => thread[u].obj \in Sockets \ {c}
    BY <1>12, OpsAtSteps DEF pc
  <2>. QED BY <1>6, <1>8, <2>1 DEF CloseInv
<1>17. AgeInv'
  BY <1>3, <1>6 DEF AgeInv
<1>18. IdInv'
  BY <1>3, <1>6 DEF IdInv, pc
<1>19. AcceptInv'
  <2>1. \A u \in Threads : pc(u)' \in {"accepted", "adopt"} =>
          /\ u # t /\ pc(u) = pc(u)' /\ thread'[u] = thread[u]
          /\ overlapped'[thread[u].obj] = overlapped[thread[u].obj]
    BY <1>6, <1>7, <1>12
  <2>. QED BY <1>3, <2>1 DEF AcceptInv
<1>20. LeakInv'
  <2>. SUFFICES ASSUME NEW n \in Fds, NEW x \in Sockets, fdTable[n] = x
                PROVE  \/ fd'[x] = n
                       \/ \E u \in Threads : pc(u)' \in {"accepted", "adopt"} /\ thread'[u].conn = x
                       \/ {"accept"} \in overlapped'[x]
    BY <1>3 DEF LeakInv
  <2>1. CASE x # c
    <3>1. ASSUME NEW u \in Threads, pc(u) \in {"accepted", "adopt"}, thread[u].conn = x
          PROVE  u # t
      BY <1>4, <2>1, <3>1
    <3>. QED BY <1>6, <1>7, <2>1, <3>1 DEF LeakInv
  <2>2. CASE x = c
    BY <1>5, <1>7, <2>2
  <2>. QED BY <2>1, <2>2
<1>21. ClosedInv'
  BY <1>3, <1>6, <1>7, <1>12 DEF ClosedInv
<1>22. RegisterInv'
  BY <1>3, <1>6, <1>7, <1>8, <1>12 DEF RegisterInv
<1>23. ObserverInv'
  <2>1. \A x : \A u \in Threads : (Deregisters(u, x) => Deregisters(u, x)') /\ (Keeps(u, x) => Keeps(u, x)')
    BY <1>3, <1>6 DEF Deregisters, Keeps
  <2>2. \A x \in observers : x \in Sockets \ {c}
    BY <1>4 DEF SocketTypeOK
  <2>. QED BY <1>3, <1>7, <1>8, <2>1, <2>2 DEF ObserverInv, Watched, Stored
<1>24. ListenInv'
  <2>1. \A u \in Threads : thread[u].op = "create" => u # t /\ pc(u)' = pc(u) /\ thread[u].obj \in Sockets \ {c}
    BY <1>3, <1>6, <1>12, OpsAtSteps DEF pc
  <2>. QED BY <1>6, <1>7, <1>8, <2>1 DEF ListenInv
<1>25. NumberInv'
  <2>. SUFFICES ASSUME touched = {}
                PROVE  FdInv' /\ CallNumInv' /\ StreamInv'
    BY <1>3 DEF NumberInv
  <2>0. ~Excused(c)' => fdTable[acceptFd[s]] = c
    BY <1>5, <1>8 DEF Excused
  <2>1. FdInv'
    <3>. SUFFICES ASSUME NEW x \in Sockets, fd'[x] \in Fds, ~Excused(x)'
                  PROVE  fdTable[fd'[x]] = x
      BY <1>3 DEF FdInv
    <3>1. CASE x # c
      BY <1>7, <1>8, <3>1 DEF NumberInv, FdInv
    <3>2. CASE x = c
      BY <1>7, <2>0, <3>2
    <3>. QED BY <3>1, <3>2
  <2>2. CallNumInv'
    <3>1. \A u \in Threads : thread'[u].pc = "call" => u # t /\ thread[u].pc = "call"
            /\ thread[u].obj \in Sockets \ {c}
      BY <1>6, <1>12 DEF pc
    <3>. QED BY <1>3, <1>6, <1>8, <3>1 DEF NumberInv, CallNumInv
  <2>3. StreamInv'
    <3>1. \A u \in Threads, x \in Clients : Disconnected(u, x) => Disconnected(u, x)'
      BY <1>3, <1>6 DEF Disconnected
    <3>2. \A u \in Threads, x \in Clients \ {c} :
            (Making(u, x) /\ pc(u) = "add")' => Making(u, x) /\ pc(u) = "add"
      BY <1>3, <1>6, <1>4 DEF Making
    <3>3. ASSUME NEW x \in Clients, x # c
          PROVE  OwnStream(x)'
      BY <1>3, <1>4, <1>7, <1>8, <3>1, <3>2, <3>3 DEF NumberInv, StreamInv, OwnStream, Stored
    <3>4. OwnStream(c)'
      BY <1>3, <1>7, <2>0 DEF OwnStream
    <3>. QED BY <3>3, <3>4 DEF StreamInv
  <2>. QED BY <2>1, <2>2, <2>3
<1>26. OwnDescriptorsOnly'
  <2>1. \A x \in touched : x \in Sockets \ {c}
    BY <1>4 DEF SocketTypeOK
  <2>. QED BY <1>3, <1>7, <2>1 DEF OwnDescriptorsOnly
<1>. QED BY <1>9, <1>10, <1>11, <1>13, <1>14, <1>15, <1>16, <1>17, <1>18, <1>19, <1>20,
            <1>21, <1>22, <1>23, <1>24, <1>25, <1>26

-----------------------------------------------------------------------------
(***************************************************************************)
(* Ids.                                                                    *)
(***************************************************************************)
\* A step to the return that changes the maps only.
LEMMA ReturnFrame ==
  ASSUME SocketInv, NEW t \in Threads, pc(t) \in {"add", "remove"}, MovesTo(t, "return"),
         UNCHANGED <<objects, observers, kernel, bounds, overlapped, touched>>
  PROVE  /\ CallInv' /\ NewInv' /\ OverlapInv' /\ CloseInv' /\ AcceptInv' /\ LeakInv'
         /\ ClosedInv' /\ RegisterInv' /\ ListenInv' /\ OwnDescriptorsOnly'
         /\ \A x : \A u \in Threads : (Uses(u, x)' <=> Uses(u, x)) /\ (Making(u, x)' => Making(u, x) /\ u # t)
         /\ touched = {} => FdInv' /\ CallNumInv'
<1>. USE DEF SocketInv
<1>1. /\ CallAt(thread[t]) /\ pc(t)' = "return" /\ thread'[t].pc = "return"
      /\ \A u \in Threads \ {t} : thread'[u] = thread[u] /\ pc(u)' = pc(u)
      /\ \A u \in Threads : thread'[u].op = thread[u].op /\ thread'[u].obj = thread[u].obj
                              /\ thread'[u].conn = thread[u].conn /\ thread'[u].id = thread[u].id
      /\ UNCHANGED <<status, fd, stream, acceptFd, observers, fdTable, overlapped, touched>>
  BY OpsAtSteps DEF MovesTo, pc, objects, kernel
<1>2. CallInv'
  <2>1. CallAt(thread'[t])
    BY <1>1 DEF CallAt
  <2>. QED BY <1>1, <2>1 DEF CallInv
<1>3. NewInv'
  BY <1>1 DEF NewInv
<1>4. OverlapInv'
  BY <1>1 DEF OverlapInv
<1>5. CloseInv'
  BY <1>1 DEF CloseInv, Excused
<1>6. AcceptInv'
  BY <1>1 DEF AcceptInv
<1>7. LeakInv'
  BY <1>1 DEF LeakInv
<1>8. ClosedInv' /\ RegisterInv'
  BY <1>1 DEF ClosedInv, RegisterInv, ClosedEarly
<1>9. ListenInv'
  BY <1>1 DEF ListenInv, Excused
<1>10. OwnDescriptorsOnly'
  BY <1>1 DEF OwnDescriptorsOnly
<1>11. \A x : \A u \in Threads : (Uses(u, x)' <=> Uses(u, x)) /\ (Making(u, x)' => Making(u, x) /\ u # t)
  BY <1>1 DEF Uses, Making
<1>12. touched = {} => FdInv' /\ CallNumInv'
  BY <1>1 DEF NumberInv, FdInv, CallNumInv, Excused
<1>. QED BY <1>2, <1>3, <1>4, <1>5, <1>6, <1>7, <1>8, <1>9, <1>10, <1>11, <1>12

LEMMA RemoveEffect ==
  ASSUME NEW S, NEW m, IsMap(m, S), NEW i
  PROVE  LET n == RemoveObject(m, i)
         IN  /\ IsMap(n, S) /\ n.objectIncrease = m.objectIncrease
             /\ DOMAIN n.objects = DOMAIN m.objects \ {i}
             /\ \A j \in DOMAIN n.objects : n.objects[j] = m.objects[j]
<1>1. PICK D \in SUBSET Nat : m \in [objects : [D -> S], objectIncrease : Nat]
  BY DEF IsMap
<1>. DEFINE objs == [j \in D \ {i} |-> m.objects[j]]
<1>3. objs \in [D \ {i} -> S] /\ DOMAIN m.objects = D
  BY <1>1
<1>4. RemoveObject(m, i) = [objects |-> objs, objectIncrease |-> m.objectIncrease]
  BY <1>1 DEF RemoveObject
<1>. QED BY <1>1, <1>3, <1>4 DEF IsMap

LEMMA AddEffect ==
  ASSUME NEW S, NEW m, IsMap(m, S), NEW o \in S
  PROVE  LET n == AddObject(m, o)
             i == NextId(m)
         IN  /\ i \in Nat /\ IsMap(n, S) /\ n.objectIncrease = i + 1
             /\ DOMAIN n.objects = DOMAIN m.objects \cup {i}
             /\ \A j \in DOMAIN m.objects : n.objects[j] = m.objects[j]
             /\ i \notin DOMAIN m.objects => n.objects[i] = o
<1>. DEFINE i == NextId(m)
<1>1. PICK D \in SUBSET Nat : m \in [objects : [D -> S], objectIncrease : Nat]
  BY DEF IsMap
<1>2. i \in Nat /\ DOMAIN m.objects = D /\ m.objects \in [D -> S]
  BY <1>1 DEF NextId
<1>. HIDE DEF i
<1>3. CASE i \in D
  <2>1. AddObject(m, o) = [objects |-> m.objects, objectIncrease |-> i + 1]
    BY <1>2, <1>3 DEF AddObject, i
  <2>. QED BY <1>1, <1>2, <1>3, <2>1 DEF IsMap, i
<1>4. CASE i \notin D
  <2>. DEFINE objs == [j \in D \cup {i} |-> IF j = i THEN o ELSE m.objects[j]]
  <2>1. AddObject(m, o) = [objects |-> objs, objectIncrease |-> i + 1]
    BY <1>2, <1>4 DEF AddObject, i
  <2>2. objs \in [D \cup {i} -> S] /\ D \cup {i} \in SUBSET Nat
    BY <1>2
  <2>3. IsMap(AddObject(m, o), S)
    <3>. HIDE DEF objs
    <3>. QED BY <1>2, <2>1, <2>2 DEF IsMap
  <2>. QED BY <1>2, <1>4, <2>1, <2>2, <2>3 DEF i
<1>. QED BY <1>3, <1>4

LEMMA RemoveStep ==
  ASSUME SocketInv, NEW t \in Threads, Remove(t)
  PROVE  SocketInv'
<1>. USE DEF SocketInv
<1>1. /\ pc(t) = "remove" /\ MovesTo(t, "return") /\ CallAt(thread[t])
      /\ thread[t].op \in {"serverClose", "disconnect"}
      /\ UNCHANGED <<objects, observers, kernel, bounds, socketHistory>>
      /\ IF thread[t].op = "serverClose"
         THEN serverMap' = RemoveObject(serverMap, thread[t].id) /\ clientMap' = clientMap
         ELSE clientMap' = RemoveObject(clientMap, thread[t].id) /\ serverMap' = serverMap
  BY GotoMoves, OpsAtSteps DEF Remove, PCs, pc
<1>2. /\ CallInv' /\ NewInv' /\ OverlapInv' /\ CloseInv' /\ AcceptInv' /\ LeakInv'
      /\ ClosedInv' /\ RegisterInv' /\ ListenInv' /\ OwnDescriptorsOnly'
      /\ \A x : \A u \in Threads : (Uses(u, x)' <=> Uses(u, x)) /\ (Making(u, x)' => Making(u, x) /\ u # t)
      /\ touched = {} => FdInv' /\ CallNumInv'
  BY <1>1, ReturnFrame DEF socketHistory
<1>3. /\ pc(t)' = "return" /\ thread'[t].pc = "return" /\ thread' \in [Threads -> ThreadRecord]
      /\ \A u \in Threads \ {t} : thread'[u] = thread[u] /\ pc(u)' = pc(u)
      /\ \A u \in Threads : thread'[u].op = thread[u].op /\ thread'[u].obj = thread[u].obj
                              /\ thread'[u].conn = thread[u].conn /\ thread'[u].id = thread[u].id
      /\ UNCHANGED <<status, fd, stream, acceptFd, observers, fdTable, shut, calls, others,
                     overlapped, touched, age, laps>>
  BY <1>1 DEF MovesTo, pc, objects, kernel, bounds, socketHistory
\* the maps
<1>4. IsMap(serverMap, Servers) /\ IsMap(clientMap, Clients)
  BY DEF SocketTypeOK
<1>5. /\ IsMap(serverMap', Servers) /\ IsMap(clientMap', Clients)
      /\ clientMap'.objectIncrease = clientMap.objectIncrease
      /\ DOMAIN serverMap'.objects \subseteq DOMAIN serverMap.objects
      /\ \A i \in DOMAIN serverMap'.objects : serverMap'.objects[i] = serverMap.objects[i]
      /\ DOMAIN clientMap'.objects =
           IF thread[t].op = "disconnect" THEN DOMAIN clientMap.objects \ {thread[t].id}
                                          ELSE DOMAIN clientMap.objects
      /\ \A i \in DOMAIN clientMap'.objects : clientMap'.objects[i] = clientMap.objects[i]
  <2>1. CASE thread[t].op = "serverClose"
    <3>1. serverMap' = RemoveObject(serverMap, thread[t].id) /\ clientMap' = clientMap
      BY <1>1, <2>1
    <3>2. /\ IsMap(serverMap', Servers)
          /\ DOMAIN serverMap'.objects = DOMAIN serverMap.objects \ {thread[t].id}
          /\ \A i \in DOMAIN serverMap'.objects : serverMap'.objects[i] = serverMap.objects[i]
      BY <1>4, <3>1, RemoveEffect
    <3>. QED BY <1>4, <2>1, <3>1, <3>2
  <2>2. CASE thread[t].op = "disconnect"
    <3>1. clientMap' = RemoveObject(clientMap, thread[t].id) /\ serverMap' = serverMap
      BY <1>1, <2>2
    <3>2. /\ IsMap(clientMap', Clients) /\ clientMap'.objectIncrease = clientMap.objectIncrease
          /\ DOMAIN clientMap'.objects = DOMAIN clientMap.objects \ {thread[t].id}
          /\ \A i \in DOMAIN clientMap'.objects : clientMap'.objects[i] = clientMap.objects[i]
      BY <1>4, <3>1, RemoveEffect
    <3>. QED BY <1>4, <2>2, <3>1, <3>2
  <2>. QED BY <1>1, <2>1, <2>2
<1>6. /\ Stored(serverMap)' \subseteq Stored(serverMap) /\ Stored(clientMap)' \subseteq Stored(clientMap)
      /\ StoredSockets' \subseteq StoredSockets
  BY <1>5 DEF Stored, StoredSockets
<1>7. SocketTypeOK'
  BY <1>3, <1>5 DEF SocketTypeOK
<1>8. LiveInv'
  BY <1>2, <1>3, <1>6 DEF LiveInv
<1>9. StoredInv'
  <2>. SUFFICES ASSUME NEW u \in Threads, thread[u].op = "disconnect", pc(u)' # "return",
                       thread[u].obj \in Stored(clientMap)'
                PROVE  /\ thread[u].id \in DOMAIN clientMap'.objects
                       /\ clientMap'.objects[thread[u].id] = thread[u].obj
    BY <1>3, <1>5 DEF StoredInv, pc
  <2>1. /\ u # t /\ thread[u].obj \in Stored(clientMap) /\ pc(u) # "return"
        /\ thread[u].id \in DOMAIN clientMap.objects /\ clientMap.objects[thread[u].id] = thread[u].obj
    BY <1>3, <1>6 DEF StoredInv, pc
  <2>2. PICK i \in DOMAIN clientMap'.objects : clientMap'.objects[i] = thread[u].obj
    BY DEF Stored
  <2>3. i = thread[u].id
    BY <1>5, <2>1, <2>2 DEF StoredInv
  <2>. QED BY <2>2, <2>3
<1>10. AgeInv'
  BY <1>3, <1>5 DEF AgeInv
<1>11. IdInv'
  BY <1>3, <1>5 DEF IdInv, pc
<1>12. ObserverInv'
  <2>. SUFFICES ASSUME laps = {}, NEW c \in observers
                PROVE  Watched(c)'
    BY <1>3 DEF ObserverInv
  <2>1. /\ \A u \in Threads : (Deregisters(u, c) => Deregisters(u, c)') /\ (Keeps(u, c) => Keeps(u, c)')
        /\ ClosedEarly(c)' <=> ClosedEarly(c)
    BY <1>1, <1>3 DEF Deregisters, Keeps, ClosedEarly
  <2>2. c \in Stored(clientMap) /\ status[c] # "closed" => c \in Stored(clientMap)'
    <3>. SUFFICES ASSUME NEW i \in DOMAIN clientMap.objects, clientMap.objects[i] = c,
                         status[c] # "closed"
                  PROVE  i \in DOMAIN clientMap'.objects
      BY <1>5 DEF Stored
    <3>1. thread[t].op = "disconnect" /\ i = thread[t].id => c = thread[t].obj
      BY <1>1 DEF IdInv, pc
    <3>2. status[thread[t].obj] = "closed"
      BY <1>1 DEF ClosedInv
    <3>. QED BY <1>5, <3>1, <3>2
  <2>. QED BY <1>3, <2>1, <2>2 DEF ObserverInv, Watched
<1>13. NumberInv'
  <2>. SUFFICES ASSUME touched = {}, NEW c \in Clients, OwnStream(c)
                PROVE  OwnStream(c)'
    BY <1>2, <1>3 DEF NumberInv, StreamInv
  <2>. SUFFICES ASSUME ~Excused(c), stream[c] \in Fds,
                       c \in Stored(clientMap)' \/ \E u \in Threads : Making(u, c)' /\ pc(u)' = "add",
                       NEW d \in Threads, Disconnected(d, c)
                PROVE  Disconnected(d, c)'
    BY <1>2, <1>3, <1>6 DEF OwnStream, Excused
  <2>1. CASE d # t
    BY <1>3, <2>1 DEF Disconnected, pc
  <2>2. CASE d = t
    <3>1. thread[t].op = "disconnect" /\ thread[t].obj = c /\ c \in Sockets
      BY <2>2, NamesDiffer DEF Disconnected
    <3>2. c \notin Stored(clientMap)'
      <4>. SUFFICES ASSUME NEW i \in DOMAIN clientMap'.objects, clientMap'.objects[i] = c
                    PROVE  FALSE
        BY DEF Stored
      <4>1. i \in DOMAIN clientMap.objects /\ clientMap.objects[i] = c /\ i # thread[t].id
        BY <1>5, <3>1
      <4>2. c \in Stored(clientMap)
        BY <4>1 DEF Stored
      <4>3. thread[t].id \in DOMAIN clientMap.objects /\ clientMap.objects[thread[t].id] = c
        BY <1>1, <3>1, <4>2 DEF StoredInv, pc
      <4>. QED BY <4>1, <4>3 DEF StoredInv
    <3>3. PICK u \in Threads : Making(u, c) /\ u # t
      BY <1>2, <3>2
    <3>. QED BY <3>1, <3>3 DEF LiveInv, Uses
  <2>. QED BY <2>1, <2>2
<1>. QED BY <1>2, <1>7, <1>8, <1>9, <1>10, <1>11, <1>12, <1>13

\* The ages of the ids when the next one is handed out.
LEMMA AgeOfId ==
  ASSUME SocketTypeOK, AgeInv
  PROVE  LET i == NextId(clientMap)
         IN  /\ i \in 1 .. MaxObject
             /\ i \in DOMAIN age => age[i] \in Nat /\ age[i] + 1 >= MaxObject
             /\ \A j \in DOMAIN age : j # i =>
                  age[j] + 1 >= IF j < i + 1 THEN i - j ELSE i - j + MaxObject
<1>. DEFINE next == clientMap.objectIncrease
            i == NextId(clientMap)
<1>1. /\ MaxObject \in Nat /\ MaxObject > 0 /\ next \in 1 .. (MaxObject + 1)
      /\ DOMAIN age \subseteq 1 .. MaxObject
      /\ \A j \in DOMAIN age : age[j] >= IF j < next THEN next - 1 - j ELSE next - 1 - j + MaxObject
      /\ \A j \in DOMAIN age : age[j] \in Nat
  BY NamesDiffer DEF AgeInv, SocketTypeOK
<1>2. i = IF next > MaxObject THEN 1 ELSE next
  BY DEF NextId
<1>. HIDE DEF next, i
<1>3. i \in 1 .. MaxObject
  BY <1>1, <1>2
<1>4. i \in DOMAIN age => age[i] \in Nat /\ age[i] + 1 >= MaxObject
  BY <1>1, <1>2
<1>5. ASSUME NEW j \in DOMAIN age, j # i
      PROVE  age[j] + 1 >= IF j < i + 1 THEN i - j ELSE i - j + MaxObject
  <2>1. j \in 1 .. MaxObject /\ age[j] \in Nat
        /\ age[j] >= IF j < next THEN next - 1 - j ELSE next - 1 - j + MaxObject
    BY <1>1
  <2>2. CASE next > MaxObject
    BY <1>1, <1>2, <1>5, <2>1, <2>2
  <2>3. CASE ~(next > MaxObject)
    BY <1>1, <1>2, <1>5, <2>1, <2>3
  <2>. QED BY <2>2, <2>3
<1>. QED BY <1>3, <1>4, <1>5 DEF i

LEMMA AddStep ==
  ASSUME SocketInv, NEW t \in Threads, Add(t)
  PROVE  SocketInv'
<1>. USE DEF SocketInv
<1>1. /\ pc(t) = "add" /\ MovesTo(t, "return") /\ CallAt(thread[t])
      /\ thread[t].op \in {"create", "accept", "connect"}
      /\ UNCHANGED <<objects, observers, kernel, bounds, overlapped, touched>>
  BY GotoMoves, OpsAtSteps DEF Add, PCs, pc
<1>2. /\ CallInv' /\ NewInv' /\ OverlapInv' /\ CloseInv' /\ AcceptInv' /\ LeakInv'
      /\ ClosedInv' /\ RegisterInv' /\ ListenInv' /\ OwnDescriptorsOnly'
      /\ \A x : \A u \in Threads : (Uses(u, x)' <=> Uses(u, x)) /\ (Making(u, x)' => Making(u, x) /\ u # t)
      /\ touched = {} => FdInv' /\ CallNumInv'
  BY <1>1, ReturnFrame
<1>3. /\ pc(t)' = "return" /\ thread'[t].pc = "return" /\ thread' \in [Threads -> ThreadRecord]
      /\ \A u \in Threads \ {t} : thread'[u] = thread[u] /\ pc(u)' = pc(u)
      /\ \A u \in Threads : thread'[u].op = thread[u].op /\ thread'[u].obj = thread[u].obj
                              /\ thread'[u].conn = thread[u].conn /\ thread'[u].id = thread[u].id
      /\ UNCHANGED <<status, fd, stream, acceptFd, observers, fdTable, shut, calls, others,
                     overlapped, touched>>
  BY <1>1 DEF MovesTo, pc, objects, kernel, bounds
\* the new socket
<1>4. PICK new : new = IF thread[t].op = "accept" THEN thread[t].conn ELSE thread[t].obj
  OBVIOUS
<1>5. /\ new \in Sockets /\ Making(t, new) /\ new \notin StoredSockets
      /\ new \in Servers <=> thread[t].op = "create"
      /\ new \in Clients <=> thread[t].op # "create"
      /\ thread[t].op # "accept" => thread[t].obj = new
  BY <1>1, <1>4, ThreadFields, NamesDiffer DEF CallAt, Making, LiveInv, pc
<1>6. \A u \in Threads \ {t} : Uses(u, new) => thread[u].op = "close" /\ ~Making(u, new)
  <2>. SUFFICES ASSUME NEW u \in Threads \ {t}, Uses(u, new)
                PROVE  thread[u].op = "close" /\ ~Making(u, new)
    OBVIOUS
  <2>1. thread[u].op = "close"
    BY <1>5 DEF LiveInv
  <2>2. thread[u].conn = NoSocket /\ NoSocket \notin Sockets
    BY <2>1, OpsAtSteps, NamesDiffer DEF CallAt
  <2>. QED BY <1>5, <2>1, <2>2 DEF Making
<1>7. IsMap(serverMap, Servers) /\ IsMap(clientMap, Clients)
  BY DEF SocketTypeOK
<1>8. \A x \in Sockets : \A u \in Threads : Making(u, x)' => x # new
  <2>1. \A u \in Threads : Making(u, new)' => FALSE
    <3>1. \A u \in Threads : Making(u, new) => Uses(u, new)
      BY DEF Making, Uses
    <3>. QED BY <1>2, <1>6, <3>1
  <2>. QED BY <1>3, <2>1 DEF Making, pc
\* into g_serverMap
<1>9. CASE new \in Servers
  <2>1. serverMap' = AddObject(serverMap, new) /\ UNCHANGED <<clientMap, age, laps>>
    BY <1>4, <1>9 DEF Add
  <2>2. /\ IsMap(serverMap', Servers)
        /\ DOMAIN serverMap'.objects = DOMAIN serverMap.objects \cup {NextId(serverMap)}
        /\ \A j \in DOMAIN serverMap.objects : serverMap'.objects[j] = serverMap.objects[j]
        /\ NextId(serverMap) \notin DOMAIN serverMap.objects => serverMap'.objects[NextId(serverMap)] = new
    BY <1>7, <1>9, <2>1, AddEffect
  <2>3. Stored(clientMap)' = Stored(clientMap) /\ StoredSockets' \subseteq StoredSockets \cup {new}
    BY <2>1, <2>2 DEF Stored, StoredSockets
  <2>4. SocketTypeOK'
    BY <1>3, <2>1, <2>2 DEF SocketTypeOK
  <2>5. LiveInv'
    <3>1. status[new] # "none"
      BY <1>5 DEF LiveInv, Uses, Making
    <3>. QED BY <1>2, <1>3, <1>5, <1>8, <2>3, <3>1 DEF LiveInv
  <2>6. StoredInv'
    BY <1>3, <2>1 DEF StoredInv, Stored, pc
  <2>7. AgeInv' /\ IdInv'
    BY <1>3, <2>1 DEF AgeInv, IdInv, pc
  <2>8. ObserverInv'
    <3>1. \A u \in Threads, c \in Clients :
            (Deregisters(u, c) => Deregisters(u, c)') /\ (Keeps(u, c) => Keeps(u, c)')
      BY <1>1, <1>3, <1>5, <1>9 DEF Deregisters, Keeps
    <3>. QED BY <1>3, <2>1, <2>3, <3>1 DEF ObserverInv, Watched, ClosedEarly, SocketTypeOK
  <2>9. NumberInv'
    <3>1. \A c : \A u \in Threads : Disconnected(u, c) => Disconnected(u, c)'
      BY <1>1, <1>3 DEF Disconnected
    <3>2. \A c : \A u \in Threads : (Making(u, c) /\ pc(u) = "add")' => Making(u, c) /\ pc(u) = "add"
      BY <1>2, <1>3
    <3>. QED BY <1>2, <1>3, <2>3, <3>1, <3>2 DEF NumberInv, StreamInv, OwnStream, Excused
  <2>. QED BY <1>2, <2>4, <2>5, <2>6, <2>7, <2>8, <2>9
\* into g_clientMap
<1>10. CASE new \in Clients
  <2>1. PICK i : i = NextId(clientMap)
    OBVIOUS
  <2>2. /\ clientMap' = AddObject(clientMap, new) /\ serverMap' = serverMap
        /\ laps' = IF InUse(i) THEN laps \cup {age[i] + 1} ELSE laps
        /\ age' = [j \in DOMAIN age \cup {i} |-> IF j = i THEN 0 ELSE age[j] + 1]
    BY <1>4, <1>5, <1>10, <2>1 DEF Add
  <2>3. /\ IsMap(clientMap', Clients) /\ clientMap'.objectIncrease = i + 1
        /\ DOMAIN clientMap'.objects = DOMAIN clientMap.objects \cup {i}
        /\ \A j \in DOMAIN clientMap.objects : clientMap'.objects[j] = clientMap.objects[j]
        /\ i \notin DOMAIN clientMap.objects => clientMap'.objects[i] = new
    BY <1>7, <1>10, <2>1, <2>2, AddEffect
  <2>4. /\ i \in 1 .. MaxObject /\ i \in Nat
        /\ i \in DOMAIN age => age[i] \in Nat /\ age[i] + 1 >= MaxObject
        /\ \A j \in DOMAIN age : j # i =>
             age[j] + 1 >= IF j < i + 1 THEN i - j ELSE i - j + MaxObject
    BY <2>1, AgeOfId
  <2>5. InUse(i) => i \in DOMAIN age
    BY DEF InUse, AgeInv
  <2>6. laps' \subseteq Nat /\ laps \subseteq laps' /\ \A n \in laps' : n >= MaxObject
    <3>1. laps \subseteq Nat /\ \A n \in laps : n >= MaxObject
      BY DEF AgeInv, SocketTypeOK
    <3>2. CASE InUse(i)
      <4>1. PICK a \in Nat : a = age[i] + 1 /\ a >= MaxObject
        BY <2>4, <2>5, <3>2
      <4>2. laps' = laps \cup {a}
        BY <2>2, <3>2, <4>1
      <4>. QED BY <3>1, <4>1, <4>2
    <3>3. CASE ~InUse(i)
      BY <2>2, <3>1, <3>3
    <3>. QED BY <3>2, <3>3
  <2>7. /\ Stored(serverMap)' = Stored(serverMap) /\ Stored(clientMap) \subseteq Stored(clientMap)'
        /\ Stored(clientMap)' \subseteq Stored(clientMap) \cup {new}
        /\ StoredSockets' \subseteq StoredSockets \cup {new}
        /\ i \notin DOMAIN clientMap.objects => new \in Stored(clientMap)'
    BY <2>2, <2>3 DEF Stored, StoredSockets
  <2>8. /\ DOMAIN age' = DOMAIN age \cup {i} /\ age'[i] = 0
        /\ \A j \in DOMAIN age : j # i => age'[j] = age[j] + 1
    BY <2>2
  <2>9. SocketTypeOK'
    <3>1. \E D \in SUBSET Nat : age' \in [D -> Nat]
      <4>1. PICK D \in SUBSET Nat : age \in [D -> Nat]
        BY DEF SocketTypeOK
      <4>2. D \cup {i} \in SUBSET Nat /\ age' \in [D \cup {i} -> Nat]
        BY <2>2, <2>4, <4>1
      <4>. QED BY <4>2
    <3>. QED BY <1>3, <2>2, <2>3, <2>6, <3>1 DEF SocketTypeOK
  <2>10. LiveInv'
    <3>1. status[new] # "none"
      BY <1>5 DEF LiveInv, Uses, Making
    <3>. QED BY <1>2, <1>3, <1>5, <1>8, <2>7, <3>1 DEF LiveInv
  <2>11. StoredInv'
    <3>1. ASSUME NEW j \in DOMAIN clientMap.objects
          PROVE  clientMap.objects[j] # new
      BY <1>5, <3>1 DEF StoredSockets, Stored
    <3>2. ASSUME NEW j \in DOMAIN clientMap'.objects, NEW k \in DOMAIN clientMap'.objects,
                 clientMap'.objects[j] = clientMap'.objects[k]
          PROVE  j = k
      BY <2>3, <3>1, <3>2 DEF StoredInv
    <3>3. ASSUME NEW u \in Threads, thread[u].op = "disconnect", pc(u)' # "return",
                 thread[u].obj \in Stored(clientMap)'
          PROVE  /\ thread[u].id \in DOMAIN clientMap'.objects
                 /\ clientMap'.objects[thread[u].id] = thread[u].obj
      <4>1. u # t /\ pc(u) # "return" /\ thread[u].obj # new
        BY <1>3, <1>6, <3>3 DEF Uses
      <4>2. thread[u].obj \in Stored(clientMap)
        BY <2>7, <3>3, <4>1
      <4>. QED BY <2>3, <3>3, <4>1, <4>2 DEF StoredInv, pc
    <3>. QED BY <1>3, <3>2, <3>3 DEF StoredInv, pc
  <2>12. AgeInv'
    <3>1. clientMap'.objectIncrease = i + 1 /\ i + 1 \in 1 .. (MaxObject + 1)
      BY <2>3, <2>4, NamesDiffer
    <3>2. ASSUME NEW j \in DOMAIN age'
          PROVE  age'[j] >= IF j < i + 1 THEN (i + 1) - 1 - j ELSE (i + 1) - 1 - j + MaxObject
      <4>1. i \in Nat /\ MaxObject \in Nat /\ (j \in DOMAIN age => j \in Nat /\ age[j] \in Nat)
        BY <2>4, NamesDiffer DEF AgeInv, SocketTypeOK
      <4>2. CASE j = i
        BY <2>8, <4>1, <4>2
      <4>3. CASE j # i
        <5>1. age'[j] = age[j] + 1 /\ j \in DOMAIN age
          BY <2>8, <4>3
        <5>. QED BY <2>4, <4>1, <4>3, <5>1
      <4>. QED BY <4>2, <4>3
    <3>3. DOMAIN clientMap'.objects \subseteq DOMAIN age' /\ DOMAIN age' \subseteq 1 .. MaxObject
      BY <2>3, <2>4, <2>8 DEF AgeInv
    <3>4. \A u \in Threads : thread'[u].op = "disconnect" => thread'[u].id \in DOMAIN age'
      BY <1>3, <2>8 DEF AgeInv
    <3>. QED BY <2>6, <3>1, <3>2, <3>3, <3>4 DEF AgeInv
  <2>13. laps' = {} => laps = {} /\ ~InUse(i)
    BY <2>2, <2>6
  <2>14. IdInv'
    <3>. SUFFICES ASSUME laps = {}, ~InUse(i), NEW u \in Threads, thread[u].op = "disconnect",
                         pc(u)' # "return", thread[u].id \in DOMAIN clientMap'.objects
                  PROVE  clientMap'.objects[thread[u].id] = thread[u].obj
      BY <1>3, <2>13 DEF IdInv, pc
    <3>1. u # t /\ pc(u) # "return" /\ thread[u].id # i
      BY <1>3 DEF InUse
    <3>. QED BY <2>3, <3>1 DEF IdInv, pc
  <2>15. ObserverInv'
    <3>. SUFFICES ASSUME laps = {}, ~InUse(i), NEW c \in observers
                  PROVE  Watched(c)'
      BY <1>3, <2>13 DEF ObserverInv
    <3>1. \A u \in Threads : /\ Deregisters(u, c) => Deregisters(u, c)'
                             /\ Keeps(u, c) /\ ~Keeps(u, c)' => c = new
      BY <1>1, <1>3, <1>5 DEF Deregisters, Keeps
    <3>2. c = new => c \in Stored(clientMap)'
      BY <2>7 DEF InUse
    <3>3. ClosedEarly(c)' <=> ClosedEarly(c)
      BY <1>3 DEF ClosedEarly
    <3>. QED BY <1>3, <2>7, <3>1, <3>2, <3>3 DEF ObserverInv, Watched
  <2>16. NumberInv'
    <3>. SUFFICES ASSUME touched = {}, NEW c \in Clients, OwnStream(c)
                  PROVE  OwnStream(c)'
      BY <1>2, <1>3 DEF NumberInv, StreamInv
    <3>1. \A u \in Threads : Disconnected(u, c) => Disconnected(u, c)'
      BY <1>1, <1>3 DEF Disconnected
    <3>2. \A u \in Threads : (Making(u, c) /\ pc(u) = "add")' => Making(u, c) /\ pc(u) = "add"
      BY <1>2, <1>3
    <3>3. c \in Stored(clientMap)' => c \in Stored(clientMap) \/ (Making(t, c) /\ pc(t) = "add")
      BY <1>1, <1>5, <2>7
    <3>. QED BY <1>3, <3>1, <3>2, <3>3 DEF OwnStream, Excused
  <2>. QED BY <1>2, <2>9, <2>10, <2>11, <2>12, <2>14, <2>15, <2>16
<1>. QED BY <1>5, <1>9, <1>10, NamesDiffer

-----------------------------------------------------------------------------
(***************************************************************************)
(* Return, with the destructors of what nobody refers to any more.         *)
(***************************************************************************)
LEMMA ReturnStep ==
  ASSUME SocketInv, NEW t \in Threads, Return(t)
  PROVE  SocketInv'
<1>. USE DEF SocketInv
<1>1. PICK gone : gone = LastReference(t)
  OBVIOUS
<1>2. /\ pc(t) = "return"
      /\ thread' = [thread EXCEPT ![t] = Idle]
      /\ status' = [s \in Sockets |-> IF s \in gone THEN "none" ELSE status[s]]
      /\ fd' = [s \in Sockets |-> IF s \in gone THEN InvalidFd ELSE fd[s]]
      /\ stream' = [c \in Clients |-> IF c \in gone THEN 0 ELSE stream[c]]
      /\ acceptFd' = [s \in Servers |-> IF s \in gone THEN 0 ELSE acceptFd[s]]
      /\ fdTable' = [n \in Fds |-> IF n \in {fd[s] : s \in gone} \cap Fds THEN Free ELSE fdTable[n]]
      /\ shut' = shut \ gone
      /\ touched' = touched \cup {s \in gone : FileOf(fd[s]) \notin {Free, s}}
      /\ UNCHANGED <<observers, serverMap, clientMap, calls, others, overlapped, age, laps>>
  BY <1>1 DEF Return, maps, bounds
<1>3. /\ gone \subseteq Sockets /\ gone \cap StoredSockets = {} /\ NoSocket \notin Sockets
      /\ \A s \in gone : \A u \in Threads \ {t} : thread[u].obj # s /\ thread[u].conn # s
  BY <1>1, NamesDiffer DEF LastReference, StoredSockets
<1>4. /\ thread' \in [Threads -> ThreadRecord]
      /\ thread'[t] = Idle /\ IsIdle(thread'[t]) /\ pc(t)' = "idle"
      /\ \A u \in Threads \ {t} : thread'[u] = thread[u] /\ pc(u)' = pc(u)
  <2>1. Idle \in ThreadRecord /\ IsIdle(Idle) /\ Idle.pc = "idle"
    BY NamesDiffer DEF Idle, ThreadRecord, IsIdle, Ops, PCs, Whats
  <2>. QED BY <1>2, <2>1 DEF SocketTypeOK, pc
<1>5. /\ Idle.op = "none" /\ Idle.pc = "idle" /\ Idle.obj = NoSocket /\ Idle.conn = NoSocket
  BY DEF Idle
<1>6. /\ \A x \in gone : status'[x] = "none" /\ fd'[x] = InvalidFd
      /\ \A x \in Sockets \ gone : status'[x] = status[x] /\ fd'[x] = fd[x]
      /\ \A x \in Clients \ gone : stream'[x] = stream[x]
      /\ \A x \in Servers \ gone : acceptFd'[x] = acceptFd[x]
      /\ \A n \in Fds : fdTable'[n] \in {Free, fdTable[n]}
  BY <1>2, <1>3, NamesDiffer
\* who closes a number of another's touches it
<1>7. ASSUME touched' = {}, NEW n \in Fds, fdTable'[n] # fdTable[n]
      PROVE  \E s \in gone : fdTable[n] = s
  <2>1. PICK s \in gone : fd[s] = n
    BY <1>2, <1>7
  <2>2. FileOf(fd[s]) = fdTable[n] /\ fdTable[n] # Free /\ s \notin touched'
    BY <1>2, <1>7, <2>1 DEF FileOf
  <2>. QED BY <1>2, <2>1, <2>2
<1>8. touched \subseteq touched' /\ touched' \subseteq touched \cup gone
  BY <1>2
<1>9. /\ \A x : \A u \in Threads \ {t} : (Uses(u, x)' <=> Uses(u, x)) /\ (Making(u, x)' <=> Making(u, x))
      /\ \A x \in Sockets : ~Uses(t, x)' /\ ~Making(t, x)'
      /\ StoredSockets' = StoredSockets /\ Stored(clientMap)' = Stored(clientMap)
  BY <1>2, <1>3, <1>4, <1>5 DEF Uses, Making, StoredSockets, Stored
<1>10. ASSUME NEW u \in Threads, pc(u)' # "idle"
       PROVE  /\ u # t /\ thread'[u] = thread[u] /\ pc(u)' = pc(u)
              /\ thread[u].obj \in Sockets \ gone
              /\ thread[u].conn \notin gone
  BY <1>3, <1>4, <1>10, OpsAtSteps DEF pc
<1>11. SocketTypeOK'
  BY <1>2, <1>3, <1>4, <1>8, NamesDiffer DEF SocketTypeOK, IsMap
<1>12. CallInv'
  BY <1>4 DEF CallInv
<1>13. LiveInv'
  <2>1. \A x \in gone : x \notin StoredSockets /\ \A u \in Threads \ {t} : ~Uses(u, x)
    BY <1>3 DEF Uses
  <2>. QED BY <1>3, <1>4, <1>6, <1>9, <2>1 DEF LiveInv
<1>14. NewInv'
  <2>1. \A u \in Threads : pc(u)' \in {"accepted", "adopt"} /\ thread[u].conn # NoSocket =>
          thread[u].conn \in Sockets
    BY ThreadFields, NamesDiffer
  <2>. QED BY <1>2, <1>6, <1>8, <1>10, <2>1 DEF NewInv
<1>15. StoredInv'
  BY <1>2, <1>4, <1>5, <1>9 DEF StoredInv, pc
<1>16. OverlapInv'
  <2>1. \A u \in Threads : thread'[u].op # "none" => u # t /\ thread'[u].obj # NoSocket
    BY <1>3, <1>4, <1>5, OpsAtSteps
  <2>. QED BY <1>2, <1>4, <1>5, <2>1 DEF OverlapInv
<1>17. CloseInv'
  BY <1>2, <1>4, <1>5 DEF CloseInv, Excused
<1>18. AgeInv'
  BY <1>2, <1>4, <1>5 DEF AgeInv
<1>19. IdInv'
  BY <1>2, <1>4, <1>5 DEF IdInv, pc
<1>20. AcceptInv'
  <2>. SUFFICES ASSUME NEW u \in Threads, pc(u)' \in {"accepted", "adopt"},
                       ({"accept"} \notin overlapped[thread[u].obj])'
                PROVE  (LET c == thread[u].conn
                            n == acceptFd[thread[u].obj]
                        IN  /\ c = NoSocket => pc(u) = "accepted" /\ n = InvalidFd
                            /\ c # NoSocket => n \in Fds
                            /\ c # NoSocket => \A k \in Fds : fdTable[k] = c => k = n
                            /\ c # NoSocket /\ touched = {} => fdTable[n] = c)'
    BY DEF AcceptInv
  <2>0. /\ u # t /\ thread'[u] = thread[u] /\ pc(u)' = pc(u) /\ pc(u) \in {"accepted", "adopt"}
        /\ {"accept"} \notin overlapped[thread[u].obj]
    BY <1>2, <1>10
  <2>1. thread[u].obj \in Servers \ gone /\ thread[u].conn \notin gone
    BY <2>0, <1>4, <1>10, OpsAtSteps DEF CallAt, pc
  <2>2. acceptFd'[thread[u].obj] = acceptFd[thread[u].obj]
    BY <1>6, <2>1
  <2>3. thread[u].conn # Free
    BY ThreadFields, NamesDiffer DEF Free, NoSocket
  <2>. QED BY <1>6, <1>7, <1>8, <2>0, <2>1, <2>2, <2>3 DEF AcceptInv
<1>21. LeakInv'
  <2>. SUFFICES ASSUME NEW n \in Fds, NEW x \in Sockets, fdTable'[n] = x
                PROVE  \/ fd'[x] = n
                       \/ \E u \in Threads : pc(u)' \in {"accepted", "adopt"} /\ thread'[u].conn = x
                       \/ {"accept"} \in overlapped[x]
    BY <1>2 DEF LeakInv
  <2>1. fdTable[n] = x /\ \A s \in gone : fd[s] # n
    BY <1>2, NamesDiffer
  <2>2. CASE x \in gone
    BY <1>2, <1>3, <2>1, <2>2 DEF LeakInv
  <2>3. CASE x \notin gone
    BY <1>2, <1>4, <1>6, <2>1, <2>3 DEF LeakInv
  <2>. QED BY <2>2, <2>3
<1>22. ClosedInv' /\ RegisterInv'
  <2>1. ClosedInv'
    BY <1>6, <1>10 DEF ClosedInv
  <2>2. RegisterInv'
    BY <1>2, <1>6, <1>10 DEF RegisterInv, ClosedEarly
  <2>. QED BY <2>1, <2>2
<1>23. ObserverInv'
  <2>. SUFFICES ASSUME laps = {}, NEW c \in observers
                PROVE  Watched(c)'
    BY <1>2 DEF ObserverInv
  <2>1. \A u \in Threads : /\ Deregisters(u, c) => Deregisters(u, c)' /\ c \notin gone
                           /\ Keeps(u, c) => Keeps(u, c)' /\ c \notin gone
    BY <1>2, <1>3, <1>4 DEF Deregisters, Keeps
  <2>2. c \in Stored(clientMap) => c \notin gone
    BY <1>3 DEF StoredSockets
  <2>3. (ClosedEarly(c)' <=> ClosedEarly(c)) /\ c \in Sockets
    BY <1>2, NamesDiffer DEF ClosedEarly, SocketTypeOK
  <2>. QED BY <1>6, <1>9, <2>1, <2>2, <2>3 DEF ObserverInv, Watched
<1>24. ListenInv'
  <2>. SUFFICES ASSUME NEW u \in Threads, thread'[u].op = "create", ~Excused(thread[u].obj)',
                       thread'[u].pc \in {"listen", "call", "wait", "done", "listening", "refused"}
                PROVE  thread'[u].pc # "refused" /\ status'[thread'[u].obj] = "init"
    BY DEF ListenInv
  <2>1. thread'[u] = thread[u] /\ thread[u].obj \in Sockets \ gone
    BY <1>10 DEF pc
  <2>2. ~Excused(thread[u].obj)
    BY <1>2, <2>1 DEF Excused
  <2>. QED BY <1>6, <2>1, <2>2 DEF ListenInv
<1>25. NumberInv'
  <2>. SUFFICES ASSUME touched' = {}
                PROVE  FdInv' /\ CallNumInv' /\ StreamInv'
    BY DEF NumberInv
  <2>0. /\ \A n \in Fds : fdTable[n] \in Sockets \ gone => fdTable'[n] = fdTable[n]
        /\ touched = {} /\ InvalidFd \notin Fds
        /\ \A x \in Sockets : Excused(x)' <=> Excused(x)
    BY <1>2, <1>7, <1>8, NamesDiffer DEF Excused
  <2>1. FdInv'
    BY <1>6, <2>0 DEF NumberInv, FdInv
  <2>2. CallNumInv'
    BY <1>6, <1>10, <2>0 DEF NumberInv, CallNumInv, pc
  <2>3. StreamInv'
    <3>. SUFFICES ASSUME NEW c \in Clients, ~Excused(c), stream'[c] \in Fds,
                         c \in Stored(clientMap) \/ \E u \in Threads : (Making(u, c) /\ pc(u) = "add")'
                  PROVE  fdTable'[stream'[c]] = c \/ \E u \in Threads : Disconnected(u, c)'
      BY <1>9, <2>0, NamesDiffer DEF StreamInv, OwnStream
    <3>1. c \in Sockets \ gone
      BY <1>3, <1>9, NamesDiffer DEF StoredSockets, Making, Uses
    <3>2. c \in Stored(clientMap) \/ \E u \in Threads : Making(u, c) /\ pc(u) = "add"
      BY <1>4, <1>9, <3>1
    <3>3. \A u \in Threads : Disconnected(u, c) => Disconnected(u, c)'
      BY <1>2, <1>4 DEF Disconnected
    <3>. QED BY <1>6, <2>0, <3>1, <3>2, <3>3 DEF NumberInv, StreamInv, OwnStream
  <2>. QED BY <2>1, <2>2, <2>3
<1>26. OwnDescriptorsOnly'
  <2>1. CASE touched # {}
    BY <1>2, <1>8, <2>1 DEF OwnDescriptorsOnly
  <2>2. CASE touched = {}
    <3>1. ASSUME NEW s \in touched'
          PROVE  Excused(s)
      <4>1. s \in Sockets /\ FileOf(fd[s]) \notin {Free, s}
        BY <1>2, <1>3, <2>2, <3>1
      <4>2. fd[s] \in Fds /\ fdTable[fd[s]] # s
        BY <4>1 DEF FileOf
      <4>. QED BY <2>2, <4>1, <4>2 DEF NumberInv, FdInv
    <3>. QED BY <1>2, <3>1 DEF OwnDescriptorsOnly, Excused
  <2>. QED BY <2>1, <2>2
<1>. QED BY <1>11, <1>12, <1>13, <1>14, <1>15, <1>16, <1>17, <1>18, <1>19, <1>20, <1>21,
            <1>22, <1>23, <1>24, <1>25, <1>26

-----------------------------------------------------------------------------
(***************************************************************************)
(* The theorems.                                                           *)
(***************************************************************************)
LEMMA OtherOpensStep ==
  ASSUME SocketInv, OtherOpens
  PROVE  SocketInv'
<1>. USE DEF SocketInv
<1>1. PICK n \in Fds : /\ fdTable[n] = Free /\ fdTable' = [fdTable EXCEPT ![n] = Other]
  BY FreeFdExists DEF OtherOpens
<1>2. UNCHANGED <<status, fd, stream, acceptFd, observers, serverMap, clientMap, thread, shut, calls,
                  overlapped, touched, age, laps>>
  BY DEF OtherOpens, objects, maps, socketHistory
<1>0. others' = others + 1
  BY DEF OtherOpens
<1>3. /\ \A k \in Fds : fdTable[k] # Free => fdTable'[k] = fdTable[k]
      /\ \A k \in Fds : fdTable'[k] # Other => fdTable'[k] = fdTable[k]
      /\ Free \notin Sockets /\ Other \notin Sockets /\ Clients \subseteq Sockets
  BY <1>1, NamesDiffer DEF SocketTypeOK
<1>4. SocketTypeOK'
  BY <1>0, <1>1, <1>2 DEF SocketTypeOK, IsMap
<1>5. CallInv' /\ LiveInv' /\ NewInv' /\ StoredInv' /\ OverlapInv' /\ CloseInv'
  <2>1. CallInv' /\ LiveInv' /\ NewInv'
    BY <1>2 DEF CallInv, LiveInv, NewInv, Uses, Making, StoredSockets, Stored, pc
  <2>2. StoredInv'
    BY <1>2 DEF StoredInv, Stored, pc
  <2>3. OverlapInv' /\ CloseInv'
    BY <1>2 DEF OverlapInv, CloseInv, Excused
  <2>. QED BY <2>1, <2>2, <2>3
<1>6. AgeInv' /\ IdInv' /\ ClosedInv' /\ RegisterInv' /\ ListenInv' /\ OwnDescriptorsOnly'
  BY <1>2 DEF AgeInv, IdInv, ClosedInv, RegisterInv, ListenInv, OwnDescriptorsOnly, ClosedEarly,
              Excused, pc
<1>7. ObserverInv'
  BY <1>2 DEF ObserverInv, Watched, ClosedEarly, Deregisters, Keeps, Stored, pc
<1>8. AcceptInv'
  <2>1. \A u \in Threads : thread[u].conn # NoSocket => thread[u].conn \in Sockets
    BY ThreadFields, NamesDiffer
  <2>. QED BY <1>2, <1>3, <2>1 DEF AcceptInv, pc
<1>9. LeakInv'
  BY <1>2, <1>3 DEF LeakInv, pc
<1>10. NumberInv'
  <2>. SUFFICES ASSUME touched = {}
                PROVE  FdInv' /\ CallNumInv' /\ StreamInv'
    BY <1>2 DEF NumberInv
  <2>1. FdInv'
    BY <1>2, <1>3 DEF NumberInv, FdInv, Excused
  <2>2. CallNumInv'
    <3>1. \A u \in Threads : thread[u].pc = "call" => thread[u].obj \in Sockets
      BY OpsAtSteps
    <3>. QED BY <1>2, <1>3, <3>1 DEF NumberInv, CallNumInv, Excused
  <2>3. StreamInv'
    BY <1>2, <1>3 DEF NumberInv, StreamInv, OwnStream, Excused, Disconnected, Making, Stored, pc
  <2>. QED BY <2>1, <2>2, <2>3
<1>. QED BY <1>4, <1>5, <1>6, <1>7, <1>8, <1>9, <1>10

LEMMA SocketStutter ==
  ASSUME SocketInv, UNCHANGED socketVars
  PROVE  SocketInv'
<1>. USE DEF SocketInv
<1>1. UNCHANGED <<status, fd, stream, acceptFd, observers, serverMap, clientMap, thread, fdTable,
                  shut, calls, others, overlapped, touched, age, laps>>
  BY DEF socketVars, objects, maps, kernel, bounds, socketHistory
<1>2. SocketTypeOK'
  BY <1>1 DEF SocketTypeOK, IsMap
<1>3. CallInv' /\ LiveInv' /\ NewInv' /\ StoredInv' /\ OverlapInv' /\ CloseInv'
  <2>1. CallInv' /\ LiveInv' /\ NewInv'
    BY <1>1 DEF CallInv, LiveInv, NewInv, Uses, Making, StoredSockets, Stored, pc
  <2>2. StoredInv'
    BY <1>1 DEF StoredInv, Stored, pc
  <2>3. OverlapInv' /\ CloseInv'
    BY <1>1 DEF OverlapInv, CloseInv, Excused
  <2>. QED BY <2>1, <2>2, <2>3
<1>4. AgeInv' /\ IdInv' /\ AcceptInv' /\ LeakInv' /\ ClosedInv' /\ RegisterInv'
  BY <1>1 DEF AgeInv, IdInv, AcceptInv, LeakInv, ClosedInv, RegisterInv, ClosedEarly, pc
<1>5. ObserverInv' /\ ListenInv' /\ OwnDescriptorsOnly'
  BY <1>1 DEF ObserverInv, Watched, ClosedEarly, Deregisters, Keeps, Stored, ListenInv, Excused,
              OwnDescriptorsOnly, pc
<1>6. NumberInv'
  BY <1>1 DEF NumberInv, FdInv, CallNumInv, StreamInv, OwnStream, Excused, Disconnected, Making,
              Stored, pc
<1>. QED BY <1>2, <1>3, <1>4, <1>5, <1>6

LEMMA SocketInitially == SocketInit => SocketInv
<1>. SUFFICES ASSUME SocketInit
              PROVE  SocketInv
  OBVIOUS
<1>1. /\ Idle.op = "none" /\ Idle.pc = "idle" /\ Idle.obj = NoSocket /\ Idle.conn = NoSocket
      /\ Idle \in ThreadRecord
      /\ \A t \in Threads : thread[t] = Idle
  BY NamesDiffer DEF SocketInit, Idle, ThreadRecord, Ops, PCs, Whats
<1>2. /\ DOMAIN EmptyMap.objects = {} /\ EmptyMap.objectIncrease = 1
      /\ \A S : IsMap(EmptyMap, S)
  <2>1. <<>> \in [{} -> {}] /\ \A S : <<>> \in [{} -> S]
    OBVIOUS
  <2>. QED BY <2>1 DEF EmptyMap, IsMap
<1>3. /\ \A s \in Sockets : status[s] = "none" /\ fd[s] = InvalidFd
      /\ \A n \in Fds : fdTable[n] = Free
      /\ serverMap = EmptyMap /\ clientMap = EmptyMap /\ observers = {} /\ touched = {} /\ laps = {}
      /\ DOMAIN age = {} /\ age \in [{} -> Nat]
  BY DEF SocketInit
<1>4. SocketTypeOK
  BY <1>1, <1>2, <1>3, NamesDiffer DEF SocketInit, SocketTypeOK
<1>5. CallInv /\ NewInv /\ OverlapInv /\ CloseInv
  BY <1>1, <1>3 DEF CallInv, IsIdle, NewInv, OverlapInv, CloseInv, pc
<1>6. LiveInv
  BY <1>1, <1>2, <1>3, NamesDiffer DEF LiveInv, Uses, Making, StoredSockets, Stored
<1>7. StoredInv /\ AgeInv /\ IdInv
  BY <1>1, <1>2, <1>3, NamesDiffer DEF StoredInv, AgeInv, IdInv
<1>8. AcceptInv /\ LeakInv /\ ClosedInv /\ RegisterInv /\ ObserverInv /\ ListenInv
  BY <1>1, <1>3, NamesDiffer DEF AcceptInv, LeakInv, ClosedInv, RegisterInv, ObserverInv, ListenInv, pc
<1>9. NumberInv
  <2>1. FdInv /\ CallNumInv
    BY <1>1, <1>3, NamesDiffer DEF FdInv, CallNumInv
  <2>2. StreamInv
    BY <1>1, <1>2, <1>3 DEF StreamInv, OwnStream, Stored, pc
  <2>. QED BY <2>1, <2>2 DEF NumberInv
<1>10. OwnDescriptorsOnly
  BY <1>3 DEF OwnDescriptorsOnly
<1>. QED BY <1>4, <1>5, <1>6, <1>7, <1>8, <1>9, <1>10 DEF SocketInv

LEMMA SocketNextKeeps == SocketInv /\ [SocketNext]_socketVars => SocketInv'
<1>. SUFFICES ASSUME SocketInv, [SocketNext]_socketVars
              PROVE  SocketInv'
  OBVIOUS
<1>1. ASSUME NEW t \in Threads, SocketStep(t)
      PROVE  SocketInv'
  BY <1>1, SystemCallStep, WokenStep, ListenCheckStep, SetListeningStep, RefuseListeningStep,
     AcceptCheckStep, AcceptedClientStep, RegisterClientObserverStep, ConnectChannelStep, ConnectedStep,
     DataDoneStep, AddStep, CloseCheckStep, CloseSetStep, CloseFdStep, DeregisterObserverStep,
     RemoveStep, ReturnStep
     DEF SocketStep
<1>2. ASSUME NEW t \in Threads, Answer(t)
      PROVE  SocketInv'
  BY <1>2, ListenAnswerStep, ConnectAnswerStep DEF Answer
<1>3. ASSUME NEW t \in Threads,
             \/ SocketServerCreate(t) \/ SocketServerAccept(t) \/ SocketConnect(t)
             \/ SocketReadWrite(t) \/ CallClose(t) \/ ConnectionArrives(t)
             \/ ServiceFails(t) \/ ServiceSends(t)
      PROVE  SocketInv'
  BY <1>3, SocketServerCreateStep, SocketServerAcceptStep, SocketConnectStep, SocketReadWriteStep,
     CallCloseStep, ConnectionArrivesStep, WokenStep, ServiceSendsStep
<1>. QED BY <1>1, <1>2, <1>3, OtherOpensStep, SocketStutter DEF SocketNext

\* Type correctness of the sockets, with everything the two properties below
\* rest on: who refers to a socket, which numbers are its own, how old its id
\* is.  The steps are those of ClientSocket, ServerSocket, their destructors
\* and the C interface, in any order and by any number of threads.
THEOREM SocketInvariance == SocketSpec => []SocketInv
<1>. QED BY SocketInitially, SocketNextKeeps, PTL DEF SocketSpec

\* No open descriptor and no registered observer outlives the socket it
\* belongs to, but for the two Accepts, the Close during Connect and the id
\* handed out while in use that ResourcesReturned names.
THEOREM NothingOutlivesItsSocket == SocketSpec => []ResourcesReturned
<1>1. SocketInv => ResourcesReturned
  <2>. SUFFICES ASSUME SocketInv
                PROVE  ResourcesReturned
    OBVIOUS
  <2>. USE DEF SocketInv
  <2>1. ASSUME NEW n \in Fds, fdTable[n] \in Sockets, fd[fdTable[n]] = n
        PROVE  status[fdTable[n]] # "none"
    BY <2>1, NamesDiffer DEF LiveInv
  <2>2. ASSUME NEW c \in observers, laps = {}, ~ClosedEarly(c)
        PROVE  status[c] # "none"
    <3>1. c \in Sockets
      BY NamesDiffer DEF SocketTypeOK
    <3>2. CASE \E t \in Threads : Deregisters(t, c)
      BY <3>1, <3>2 DEF Deregisters, LiveInv, Uses
    <3>. QED BY <2>2, <3>2 DEF ObserverInv, Watched
  <2>3. ASSUME laps # {}
        PROVE  \E n \in laps : n >= MaxObject
    BY <2>3 DEF AgeInv
  <2>. QED BY <2>1, <2>2, <2>3 DEF ResourcesReturned, LeakInv, ClosedEarly
<1>. QED BY <1>1, SocketInvariance, PTL

\* A socket reads, writes, shuts down or closes another's file only after a
\* Close of it overlapped a call on it, or two Accepts on its server did: the
\* destructor that closes fd_ once more, a failed Listen or Connect and the
\* readers of a stream do not.
THEOREM OnlyOwnDescriptors == SocketSpec => []OwnDescriptorsOnly
<1>1. SocketInv => OwnDescriptorsOnly
  BY DEF SocketInv
<1>. QED BY <1>1, SocketInvariance, PTL

=============================================================================
