---------------------------- MODULE OhosBtGattAdv ----------------------------
(***************************************************************************)
(* The advertising half of the C adapter                                   *)
(* (frameworks/inner/c_adapter/ohos_bt_gatt.cpp): a table of MAX_BLE_ADV_NUM *)
(* BleAdvCallback objects, one BleAdvertiser for all of them, which is     *)
(* dropped with the last, a serial queue of start and stop tasks, and the  *)
(* timers that end an advertisement with an address of its own.            *)
(*                                                                         *)
(* What a thread does with g_advMutex locked is one step: the calls of the *)
(* application, the tasks, and parts of the reports.  The application is   *)
(* told of an advertisement by its advId only, tasks and timers know no    *)
(* more, and an advId is used again.                                       *)
(*                                                                         *)
(* BleAdvertiser and the service are external here (see                    *)
(* BluetoothBleAdvertiser): the handles between them are left out, an      *)
(* advertising set is named by its BleAdvCallback.  So are the types of    *)
(* ranging applications (g_advIdAppTypeMap) and the calls that only pass a *)
(* callback on.                                                            *)
(***************************************************************************)
EXTENDS Naturals, Sequences, FiniteSetsExt

CONSTANTS
  MAX_BLE_ADV_NUM,
  MaxStarts,    \* bound on the advertisements started
  MaxDeaths,    \* bound on the deaths of the service
  Addressed     \* the starts that give an address of their own

AdvIds == 0 .. MAX_BLE_ADV_NUM - 1

\* BleAdvCallback objects, in the order in which they are made
Objects == 1 .. MaxStarts

ASSUME AdvAssumption ==
  /\ MAX_BLE_ADV_NUM \in Nat \ {0}
  /\ {MaxStarts, MaxDeaths} \subseteq Nat
  /\ Addressed \subseteq Objects

None == 0

VARIABLES
  slots,        \* g_bleAdvCallbacks
  advertiser,   \* g_BleAdvertiser # nullptr
  timerIds,     \* g_advAddrTimerIds: whose timer
  advIds,       \* per object its advId_
  queue,        \* startAdvQueue
  timers,       \* BluetoothTimer: timers that run
  fired,        \* timers whose callback waits for g_advMutex
  reporter,     \* the thread that delivers reports
  registered,   \* BleAdvertiser: callbacks that have a handle
  wanted,       \* application: what it takes an advId to stand for
  up, sets,     \* service: it runs; the advertising sets it keeps
  reports,      \* reports on their way
  notices,      \* notices of a death on their way
  deaths,
  crashed,      \* the object whose start task found no advertiser
  untracked,    \* history: objects that the table or BleAdvertiser lost
  untimed       \* history: objects whose timer could not be registered, was
                \* unregistered for another, or whose stop failed

table == <<slots, advertiser, registered>>
clock == <<timerIds, timers>>
service == <<up, sets, notices, deaths>>
history == <<untracked, untimed>>
vars == <<table, clock, advIds, queue, fired, reporter, wanted, service, reports,
          crashed, history>>

Init ==
  /\ slots = [i \in AdvIds |-> None]
  /\ timerIds = [i \in AdvIds |-> None]
  /\ wanted = [i \in AdvIds |-> None]
  /\ advertiser = FALSE /\ registered = {}
  /\ advIds = <<>> /\ queue = <<>> /\ reports = <<>>
  /\ timers = {} /\ fired = {}
  /\ reporter = [pc |-> "idle", object |-> None]
  /\ up = TRUE /\ sets = {} /\ notices = {} /\ deaths = 0
  /\ crashed = None
  /\ untracked = {} /\ untimed = {}

-----------------------------------------------------------------------------
(* Starting. *)

\* mutant: AllocateAdvHandle does not look whether the slot is empty
AnyAdvId == AdvIds

\* AllocateAdvHandle takes the first of these.
FreeAdvIds == {i \in AdvIds : slots[i] = None}

Full == \A i \in AdvIds : slots[i] # None

\* The advIds that CheckAdvIdInUse takes back: those the application does not
\* name when the table is full.
Reclaimable == {i \in AdvIds : Full /\ wanted[i] = None}

Submit(kind, i, o) == queue' = Append(queue, [kind |-> kind, advId |-> i, object |-> o])

\* BluetoothTimer::UnRegister of the timer noted for i.
UnRegister(i) ==
  /\ timers' = timers \ {timerIds[i]}
  /\ timerIds' = [timerIds EXCEPT ![i] = None]

\* mutant: the id noted for i decides whether a timer is registered
StartTimerOnce(i, o) ==
  /\ timers' = IF timerIds[i] = None THEN timers \cup {o} ELSE timers
  /\ timerIds' = [timerIds EXCEPT ![i] = IF @ = None THEN o ELSE @]
  /\ UNCHANGED untimed

\* StartAdvAddrTimer.  A timer that was noted for i before is forgotten.  If
\* BluetoothTimer::Register fails the advertisement starts without a timer.
StartAdvAddrTimer(i, o) ==
  \/ /\ timers' = timers \cup {o}
     /\ timerIds' = [timerIds EXCEPT ![i] = o]
     /\ UNCHANGED untimed
  \/ /\ timerIds' = [timerIds EXCEPT ![i] = None]
     /\ untimed' = untimed \cup {o}
     /\ UNCHANGED timers

\* mutant: only BleStartAdvWithAddr makes an advertiser
MakeIfAddressed(o) == advertiser' = (advertiser \/ o \in Addressed)

\* Both calls make an advertiser if there is none.
MakeAdvertiser(o) == advertiser' = TRUE

\* BleStartAdvEx or, for an object that is Addressed, BleStartAdvWithAddr, whose
\* address may have been in use for too long.  A start that gets no advId changes
\* nothing.
BleStartAdv ==
  LET free == FreeAdvIds \cup Reclaimable
      i == Min(free)
      o == Len(advIds) + 1
      addr == o \in Addressed
      kept == [j \in AdvIds |-> IF j \in Reclaimable THEN None ELSE slots[j]]
  IN  /\ up /\ crashed = None /\ o \in Objects
      /\ free # {}
      /\ untracked' = untracked \cup {slots[j] : j \in Reclaimable}
      /\ \/ /\ advIds' = Append(advIds, i)
            /\ slots' = [kept EXCEPT ![i] = o]
            /\ MakeAdvertiser(o)
            /\ wanted' = [wanted EXCEPT ![i] = o]
            /\ Submit("start", i, o)
            /\ IF addr THEN StartAdvAddrTimer(i, o) ELSE UNCHANGED <<clock, untimed>>
         \/ /\ addr
            /\ slots' = kept
            /\ UNCHANGED <<advertiser, clock, advIds, queue, wanted, untimed>>
      /\ UNCHANGED <<registered, fired, reporter, service, reports, crashed>>

-----------------------------------------------------------------------------
(* Stopping. *)

BleStopAdv(i) ==
  IF advertiser /\ slots[i] # None
  THEN UnRegister(i) /\ Submit("stop", i, slots[i])
  ELSE UNCHANGED <<clock, queue>>

ApplicationStops(i) ==
  /\ crashed = None
  /\ wanted[i] # None
  /\ BleStopAdv(i)
  /\ wanted' = [wanted EXCEPT ![i] = None]
  /\ UNCHANGED <<table, advIds, fired, reporter, service, reports, crashed, history>>

TimerFires(o) ==
  /\ crashed = None
  /\ o \in timers
  /\ timers' = timers \ {o}
  /\ fired' = fired \cup {o}
  /\ UNCHANGED <<table, timerIds, advIds, queue, reporter, wanted, service, reports, crashed,
                 history>>

\* The callback of the timer calls BleStopAdv.
TimerStops(o) ==
  /\ crashed = None
  /\ o \in fired
  /\ fired' = fired \ {o}
  /\ BleStopAdv(advIds[o])
  /\ untimed' = untimed \cup ({timerIds[advIds[o]]} \ {o, None})
  /\ UNCHANGED <<table, advIds, reporter, wanted, service, reports, crashed, untracked>>

-----------------------------------------------------------------------------
(* The tasks of the queue. *)

Task == Head(queue)

Holder == slots[Task.advId]

Report(kind, o) == reports' = Append(reports, [kind |-> kind, object |-> o])

\* StartAdvertising has returned an error: the slot is emptied, and the timer of
\* the advId unregistered if the task is BleStartAdvWithAddr's.
StartFailed ==
  /\ slots' = [slots EXCEPT ![Task.advId] = None]
  /\ IF Task.object \in Addressed
     THEN UnRegister(Task.advId) /\ untimed' = untimed \cup ({timerIds[Task.advId]} \ {Task.object, None})
     ELSE UNCHANGED <<clock, untimed>>

\* startAdvFunc.  It does not look whether there is an advertiser; without a
\* callback StartAdvertising returns an error.  If the service has no handle
\* left the application is told, otherwise not.
StartTask ==
  /\ crashed = None /\ queue # <<>> /\ Task.kind = "start"
  /\ queue' = Tail(queue)
  /\ untracked' = untracked \cup ({Holder} \ {Task.object, None})
  /\ \/ /\ ~advertiser
        /\ crashed' = Task.object
        /\ UNCHANGED <<table, clock, wanted, sets, reports, untimed>>
     \/ /\ advertiser /\ Holder # None /\ up
        /\ registered' = registered \cup {Holder}
        /\ \/ /\ sets' = sets \cup {Holder}
              /\ UNCHANGED <<slots, reports, clock, untimed>>
           \/ /\ sets' = sets \ {Holder}
              /\ Report("startFailed", Holder)
              /\ UNCHANGED <<slots, clock, untimed>>
           \/ /\ StartFailed
              /\ UNCHANGED <<sets, reports>>
        /\ UNCHANGED <<advertiser, wanted, crashed>>
     \/ /\ advertiser /\ Holder \notin registered
        /\ StartFailed
        /\ \/ ~up /\ UNCHANGED wanted
           \/ Holder = None /\ UNCHANGED wanted
           \/ up /\ Holder # None /\ wanted' = [wanted EXCEPT ![Task.advId] = None]
        /\ UNCHANGED <<advertiser, registered, sets, reports, crashed>>
     \/ /\ advertiser /\ Holder \in registered /\ ~up
        /\ StartFailed
        /\ UNCHANGED <<advertiser, registered, wanted, sets, reports, crashed>>
  /\ UNCHANGED <<advIds, fired, reporter, up, notices, deaths>>

\* The service does not stop the set.  StopAdvertising returns its error, which
\* is logged, or the result is reported as an error: OnStopResultEvent empties
\* the slot whatever the result.
StopFails ==
  /\ untimed' = untimed \cup {Holder}
  /\ \/ UNCHANGED <<reports, untracked>>
     \/ Report("stopped", Holder) /\ untracked' = untracked \cup {Holder}
  /\ UNCHANGED sets

\* stopAdvFunc.  A callback without a handle is an error that is logged.
StopTask ==
  /\ crashed = None /\ queue # <<>> /\ Task.kind = "stop"
  /\ queue' = Tail(queue)
  /\ IF advertiser /\ up /\ Holder \in registered \cap sets
     THEN \/ /\ sets' = sets \ {Holder} /\ Report("stopped", Holder)
             /\ UNCHANGED history
          \/ StopFails
     ELSE UNCHANGED <<sets, reports, history>>
  /\ UNCHANGED <<table, clock, advIds, fired, reporter, wanted, up, notices, deaths, crashed>>

-----------------------------------------------------------------------------
(* Reports of the service. *)

\* BleAdvertiser finds the callback and takes it out.  (That a start succeeded
\* changes nothing here and is left out.)
OnReport ==
  LET r == Head(reports)
      known == r.object \in registered
  IN  /\ crashed = None /\ reports # <<>> /\ reporter.pc = "idle"
      /\ reports' = Tail(reports)
      /\ registered' = registered \ {r.object}
      /\ wanted' = IF known /\ r.kind = "startFailed"
                   THEN [wanted EXCEPT ![advIds[r.object]] = None]
                   ELSE wanted
      /\ reporter' = IF known /\ r.kind = "stopped"
                     THEN [pc |-> "clear", object |-> r.object]
                     ELSE reporter
      /\ UNCHANGED <<slots, advertiser, clock, advIds, queue, fired, service, crashed, history>>

\* ClearAdvertisingResource and the report to the application.
ClearAdvertisingResource ==
  LET i == advIds[reporter.object]
      left == [slots EXCEPT ![i] = None]
      last == \A j \in AdvIds : left[j] = None
  IN  /\ crashed = None /\ reporter.pc = "clear"
      /\ slots' = left
      /\ advertiser' = (advertiser /\ ~last)
      /\ registered' = IF last THEN {} ELSE registered
      /\ wanted' = [wanted EXCEPT ![i] = None]
      /\ untracked' = untracked \cup ({slots[i]} \ {reporter.object, None})
      /\ reporter' = [reporter EXCEPT !.pc = "timer"]
      /\ UNCHANGED <<clock, advIds, queue, fired, service, reports, crashed, untimed>>

\* The rest of OnStopResultEvent unregisters the timer of the advId.
StopUnregistersTimer ==
  LET i == advIds[reporter.object]
  IN  /\ crashed = None /\ reporter.pc = "timer"
      /\ UnRegister(i)
      /\ untimed' = untimed \cup ({timerIds[i]} \ {reporter.object, None})
      /\ reporter' = [pc |-> "idle", object |-> None]
      /\ UNCHANGED <<table, advIds, queue, fired, wanted, service, reports, crashed, untracked>>

-----------------------------------------------------------------------------
(* The life of the service. *)

ServiceDies ==
  /\ crashed = None /\ up /\ notices = {} /\ deaths < MaxDeaths
  /\ up' = FALSE
  /\ sets' = {}
  /\ notices' = {"remoteDied", "clearGlobal"}
  /\ deaths' = deaths + 1
  /\ UNCHANGED <<table, clock, advIds, queue, fired, reporter, wanted, reports, crashed, history>>

ServiceStarts ==
  /\ crashed = None /\ ~up
  /\ up' = TRUE
  /\ UNCHANGED <<table, clock, advIds, queue, fired, reporter, wanted, sets, notices, deaths,
                 reports, crashed, history>>

\* BleAdvertiser's death recipient.
OnRemoteDied ==
  /\ crashed = None /\ "remoteDied" \in notices
  /\ notices' = notices \ {"remoteDied"}
  /\ registered' = {}
  /\ untracked' = untracked \cup sets
  /\ UNCHANGED <<slots, advertiser, clock, advIds, queue, fired, reporter, wanted, up, sets,
                 deaths, reports, crashed, untimed>>

\* Called by the profile manager; the application learns that Bluetooth is off.
ClearGlobalResource ==
  /\ crashed = None /\ "clearGlobal" \in notices
  /\ notices' = notices \ {"clearGlobal"}
  /\ slots' = [i \in AdvIds |-> None]
  /\ wanted' = [i \in AdvIds |-> None]
  /\ untracked' = untracked \cup ({slots[i] : i \in AdvIds} \ {None})
  /\ UNCHANGED <<advertiser, registered, clock, advIds, queue, fired, reporter, up, sets,
                 deaths, reports, crashed, untimed>>

-----------------------------------------------------------------------------
Step ==
  \/ StartTask \/ StopTask
  \/ OnReport \/ ClearAdvertisingResource \/ StopUnregistersTimer
  \/ OnRemoteDied \/ ClearGlobalResource

Next ==
  \/ Step
  \/ BleStartAdv
  \/ \E i \in AdvIds : ApplicationStops(i)
  \/ \E o \in Objects : TimerFires(o) \/ TimerStops(o)
  \/ ServiceDies \/ ServiceStarts

Spec == Init /\ [][Next]_vars

-----------------------------------------------------------------------------
(* Properties. *)

\* An advertising set that the service keeps can be stopped with its advId: its
\* callback is in the table and has its handle.  The exceptions are untracked:
\* the advId was taken back while the stop was queued, given up by a task or a
\* late report of an earlier advertisement, by a late notice of a death, or on
\* the report that a stop of the set itself failed.
SetsHaveAnAdvId ==
  \A o \in sets : (slots[advIds[o]] = o /\ o \in registered) \/ o \in untracked

\* A start task, which does not look for the advertiser, finds one unless the
\* table had lost the advertisement it is for.
StartFindsAdvertiser == crashed # None => crashed \in untracked

\* "adv must stop after ADV_ADDR_TIME_THRESHOLD": a set with an address of its
\* own has a timer that runs or has fired, or its stop is queued, unless the
\* timer could not be registered, was unregistered for another advertisement
\* with the same advId, or the stop, before which it is unregistered, failed.
AddressedSetsTimed ==
  \A o \in sets \cap Addressed :
    \/ o \in timers \cup fired
    \/ \E n \in DOMAIN queue : queue[n].kind = "stop" /\ queue[n].advId = advIds[o]
    \/ o \in untracked \cup untimed
=============================================================================
