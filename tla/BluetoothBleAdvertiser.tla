----------------------- MODULE BluetoothBleAdvertiser -----------------------
(***************************************************************************)
(* BleAdvertiser (frameworks/inner/src/bluetooth_ble_advertiser.cpp) and   *)
(* the map from advertising handles to callbacks that it keeps             *)
(* (include/bluetooth_observer_map.h).                                     *)
(*                                                                         *)
(* Every operation of the map is locked, and every call of BleAdvertiser   *)
(* makes several of them with calls of the service in between, so the      *)
(* steps of two calls, of the thread that delivers the service's reports   *)
(* and of the death notice interleave.  The service is external: it hands  *)
(* out handles, the lowest free one first, keeps an advertising set for    *)
(* each until it stops, and reports what happens; a report may be on its   *)
(* way when the handle it is about is free again, or the service is dead.  *)
(*                                                                         *)
(* The settings and the data of an advertisement, their checks and the     *)
(* calls that only pass a handle on to the service and change nothing here *)
(* (Enable, Disable, SetAdvertisingData, ChangeAdvertisingParams) are left *)
(* out.                                                                    *)
(***************************************************************************)
EXTENDS Naturals, Sequences, FiniteSetsExt

CONSTANTS
  Threads,      \* threads of the application
  Callbacks,    \* BleAdvertiseCallback objects
  MaxHandle,    \* handles are 1..MaxHandle
  MaxCalls,     \* bound on the calls the application makes
  MaxDeaths     \* bound on the deaths of the service

ASSUME AdvertiserAssumption == {MaxHandle, MaxCalls, MaxDeaths} \subseteq Nat

Handles == 1..MaxHandle

Invalid == 0    \* BLE_INVALID_ADVERTISING_HANDLE

NoCallback == "null"

VARIABLES
  callbacks,    \* callbacks_: a function from some handles to callbacks
  thread,       \* what each thread is doing
  reporter,     \* what the thread that delivers reports is doing
  up,           \* service: it runs and this process is registered with it
  sets,         \* service: the callback each handle was taken for
  reports,      \* reports on their way
  noticed,      \* FALSE while a death notice is on its way
  calls, deaths,
  excuse,       \* history: why the entry of a handle may be lost
  twice         \* history: callbacks that two calls asked a handle for at once

service == <<up, sets>>
history == <<excuse, twice>>
vars == <<callbacks, thread, reporter, service, reports, noticed,
          calls, deaths, history>>

Idle == [pc |-> "idle", callback |-> NoCallback, handle |-> Invalid]

Init ==
  /\ callbacks = <<>>
  /\ thread = [t \in Threads |-> Idle]
  /\ reporter = NoCallback
  /\ up = FALSE
  /\ sets = [h \in Handles |-> NoCallback]
  /\ reports = <<>>
  /\ noticed = TRUE
  /\ calls = 0 /\ deaths = 0
  /\ excuse = [h \in Handles |-> {}]
  /\ twice = {}

-----------------------------------------------------------------------------
(* BluetoothObserverMap. *)

HandlesOf(c) == {h \in DOMAIN callbacks : callbacks[h] = c}

\* GetAdvertiserHandle and IsExistAdvertiserCallback: the first entry counts.
GetAdvertiserHandle(c) == IF HandlesOf(c) = {} THEN Invalid ELSE Min(HandlesOf(c))

GetAdvertiserObserver(h) == IF h \in DOMAIN callbacks THEN callbacks[h] ELSE NoCallback

Without(h) == [k \in DOMAIN callbacks \ {h} |-> callbacks[k]]

Register(h, c) ==
  callbacks' = [k \in DOMAIN callbacks \cup {h} |-> IF k = h THEN c ELSE callbacks[k]]

PopAdvertiserObserver(h) == callbacks' = Without(h)

\* Deregister erases the first entry of the callback.
Deregister(c) == callbacks' = Without(GetAdvertiserHandle(c))

-----------------------------------------------------------------------------
(* The service. *)

FreeHandles == {h \in Handles : sets[h] = NoCallback}

Report(kind, h) == reports' = Append(reports, [kind |-> kind, handle |-> h])

\* RegisterFunc's function runs when the service is there: the callback and
\* the death recipient are registered.
ServiceStarts ==
  /\ ~up
  /\ up' = TRUE
  /\ UNCHANGED <<callbacks, thread, reporter, sets, reports, noticed, calls, deaths, history>>

ServiceDies ==
  /\ up /\ noticed /\ deaths < MaxDeaths
  /\ up' = FALSE
  /\ sets' = [h \in Handles |-> NoCallback]
  /\ noticed' = FALSE
  /\ deaths' = deaths + 1
  /\ UNCHANGED <<callbacks, thread, reporter, reports, calls, history>>

\* OnRemoteDied clears the map, also of what a new service was asked for.
OnRemoteDied ==
  /\ ~noticed
  /\ noticed' = TRUE
  /\ callbacks' = <<>>
  /\ UNCHANGED <<thread, reporter, service, reports, calls, deaths, history>>

\* The duration of an advertisement ends.
AutoStop(h) ==
  /\ sets[h] # NoCallback
  /\ sets' = [sets EXCEPT ![h] = NoCallback]
  /\ Report("autoStop", h)
  /\ UNCHANGED <<callbacks, thread, reporter, up, noticed, calls, deaths, history>>

-----------------------------------------------------------------------------
(* Calls of the application. *)

pc(t) == thread[t].pc

Goto(t, where) == thread' = [thread EXCEPT ![t].pc = where]

Return(t) == thread' = [thread EXCEPT ![t] = Idle]

Call(t, where, c, h) ==
  /\ pc(t) = "idle" /\ up /\ calls < MaxCalls
  /\ calls' = calls + 1
  /\ thread' = [thread EXCEPT ![t] = [pc |-> where, callback |-> c, handle |-> h]]

\* StartAdvertising has found the service.  The wait for the callback to be
\* registered ends in any case, if only after a while.
StartAdvertising(t, c) ==
  /\ Call(t, "lookUp", c, Invalid)
  /\ UNCHANGED <<callbacks, reporter, service, reports, noticed, deaths, history>>

Starting(t, c) == thread[t].callback = c /\ pc(t) \in {"getHandle", "register"}

\* Mutant of LookUp: a callback that has a handle is given another one.
LookUpAlwaysNew(t) ==
  LET c == thread[t].callback
  IN  /\ pc(t) = "lookUp"
      /\ Goto(t, "getHandle")
      /\ twice' = twice \cup {d \in {c} : \E u \in Threads : Starting(u, c)}
      /\ UNCHANGED <<callbacks, reporter, service, reports, noticed, calls, deaths, excuse>>

\* The callback has a handle already, or is given one.
LookUp(t) ==
  LET c == thread[t].callback
      h == GetAdvertiserHandle(c)
  IN  /\ pc(t) = "lookUp"
      /\ thread' = [thread EXCEPT ![t].pc = IF h = Invalid THEN "getHandle" ELSE "start",
                                  ![t].handle = h]
      /\ twice' = twice \cup {d \in {c} : h = Invalid /\ \E u \in Threads : Starting(u, c)}
      /\ UNCHANGED <<callbacks, reporter, service, reports, noticed, calls, deaths, excuse>>

\* Why the entry that h gets now may be lost: a report about an earlier use of
\* h, or the notice of an earlier death, is still on its way, a call still
\* holds h from an earlier use, or a Close is about to deregister.
Excuses(h) ==
  {e \in {"report", "death", "call", "close"} :
     CASE e = "report" -> (\E i \in DOMAIN reports : reports[i].handle = h) \/ reporter # NoCallback
       [] e = "death"  -> ~noticed
       [] e = "call"   -> \E u \in Threads : thread[u].handle = h
       [] e = "close"  -> \E u \in Threads : pc(u) = "closeDereg"}

\* The service gives a handle, or an error that ends the call.
GetHandle(t) ==
  /\ pc(t) = "getHandle"
  /\ \/ /\ up /\ FreeHandles # {}
        /\ LET h == Min(FreeHandles)
           IN  /\ sets' = [sets EXCEPT ![h] = thread[t].callback]
               /\ thread' = [thread EXCEPT ![t].pc = "register", ![t].handle = h]
               /\ excuse' = [excuse EXCEPT ![h] = Excuses(h)]
     \/ Return(t) /\ UNCHANGED <<sets, excuse>>
  /\ UNCHANGED <<callbacks, reporter, up, reports, noticed, calls, deaths, twice>>

RegisterCallback(t) ==
  /\ pc(t) = "register"
  /\ Register(thread[t].handle, thread[t].callback)
  /\ Goto(t, "start")
  /\ UNCHANGED <<reporter, service, reports, noticed, calls, deaths, history>>

\* The service starts the set, or fails to, frees the handle and says so.  A
\* handle that is not of this service is an error that nothing is done about.
StartSet(t) ==
  LET h == thread[t].handle
  IN  /\ pc(t) = "start"
      /\ \/ /\ sets[h] # NoCallback
            /\ Report("started", h) /\ UNCHANGED sets
         \/ /\ sets[h] # NoCallback
            /\ Report("startFailed", h) /\ sets' = [sets EXCEPT ![h] = NoCallback]
         \/ /\ sets[h] = NoCallback
            /\ UNCHANGED <<sets, reports>>
      /\ Return(t)
      /\ UNCHANGED <<callbacks, reporter, up, noticed, calls, deaths, history>>

\* StopAdvertising finds the handle and asks the service.
StopAdvertising(t, c) ==
  /\ GetAdvertiserHandle(c) # Invalid
  /\ Call(t, "stop", c, GetAdvertiserHandle(c))
  /\ UNCHANGED <<callbacks, reporter, service, reports, noticed, deaths, history>>

\* The service stops the set and frees the handle, or reports that it cannot.
StopSet(t) ==
  LET h == thread[t].handle
  IN  /\ pc(t) = "stop"
      /\ IF sets[h] = NoCallback
         THEN UNCHANGED <<sets, reports, excuse>>
         ELSE /\ Report("stopped", h)
              /\ \/ sets' = [sets EXCEPT ![h] = NoCallback] /\ UNCHANGED excuse
                 \/ UNCHANGED sets /\ excuse' = [excuse EXCEPT ![h] = @ \cup {"stop"}]
      /\ Return(t)
      /\ UNCHANGED <<callbacks, reporter, up, noticed, calls, deaths, twice>>

Close(t, c) ==
  /\ GetAdvertiserHandle(c) # Invalid
  /\ Call(t, "closeSet", c, GetAdvertiserHandle(c))
  /\ UNCHANGED <<callbacks, reporter, service, reports, noticed, deaths, history>>

CloseSet(t) ==
  /\ pc(t) = "closeSet"
  /\ sets' = [sets EXCEPT ![thread[t].handle] = NoCallback]
  /\ Goto(t, "closeGet")
  /\ UNCHANGED <<callbacks, reporter, up, reports, noticed, calls, deaths, history>>

\* Close looks the handle up again for the callback to deregister.
CloseGet(t) ==
  LET c == GetAdvertiserObserver(thread[t].handle)
  IN  /\ pc(t) = "closeGet"
      /\ thread' = [thread EXCEPT ![t] =
           IF c = NoCallback THEN Idle ELSE [@ EXCEPT !.pc = "closeDereg", !.callback = c]]
      /\ UNCHANGED <<callbacks, reporter, service, reports, noticed,
                     calls, deaths, history>>

CloseDeregister(t) ==
  /\ pc(t) = "closeDereg"
  /\ Deregister(thread[t].callback)
  /\ Return(t)
  /\ UNCHANGED <<reporter, service, reports, noticed, calls, deaths, history>>

-----------------------------------------------------------------------------
(* Reports of the service. *)

\* Mutant of OnReport: a start that succeeded pops the callback as well.
OnReportPopsAlways ==
  /\ reports # <<>> /\ reporter = NoCallback
  /\ reports' = Tail(reports)
  /\ IF Head(reports).kind = "autoStop"
     THEN reporter' = GetAdvertiserObserver(Head(reports).handle) /\ UNCHANGED callbacks
     ELSE PopAdvertiserObserver(Head(reports).handle) /\ UNCHANGED reporter
  /\ UNCHANGED <<thread, service, noticed, calls, deaths, history>>

\* OnStartResultEvent, OnStopResultEvent and the first half of
\* OnAutoStopAdvEvent.
OnReport ==
  /\ reports # <<>> /\ reporter = NoCallback
  /\ reports' = Tail(reports)
  /\ CASE Head(reports).kind = "started" ->
            UNCHANGED <<callbacks, reporter>>
       [] Head(reports).kind \in {"startFailed", "stopped"} ->
            PopAdvertiserObserver(Head(reports).handle) /\ UNCHANGED reporter
       [] Head(reports).kind = "autoStop" ->
            reporter' = GetAdvertiserObserver(Head(reports).handle) /\ UNCHANGED callbacks
  /\ UNCHANGED <<thread, service, noticed, calls, deaths, history>>

\* The second half of OnAutoStopAdvEvent.
AutoStopDeregister ==
  /\ reporter # NoCallback
  /\ Deregister(reporter)
  /\ reporter' = NoCallback
  /\ UNCHANGED <<thread, service, reports, noticed, calls, deaths, history>>

-----------------------------------------------------------------------------
Step(t) ==
  \/ LookUp(t) \/ GetHandle(t) \/ RegisterCallback(t) \/ StartSet(t)
  \/ StopSet(t) \/ CloseSet(t) \/ CloseGet(t) \/ CloseDeregister(t)

Next ==
  \/ \E t \in Threads :
       \/ Step(t)
       \/ \E c \in Callbacks : StartAdvertising(t, c) \/ StopAdvertising(t, c) \/ Close(t, c)
  \/ OnReport \/ AutoStopDeregister
  \/ ServiceStarts \/ ServiceDies \/ OnRemoteDied
  \/ \E h \in Handles : AutoStop(h)

Spec == Init /\ [][Next]_vars

-----------------------------------------------------------------------------
(* Properties. *)

\* An advertising set that the service keeps can be stopped: its handle is in
\* the map with the callback it was started with, or a StartAdvertising is
\* about to put it there.  The entry of a handle is lost only if a report or a
\* Close of an earlier use of the handle, or the notice of an earlier death,
\* was under way when the handle was given out, if its callback was given two
\* handles at once, or if the service could not stop it.
SetsCanBeStopped ==
  \A h \in Handles :
    sets[h] # NoCallback =>
      \/ GetAdvertiserObserver(h) = sets[h]
      \/ \E t \in Threads : pc(t) = "register" /\ thread[t].handle = h
      \/ excuse[h] # {} \/ sets[h] \in twice

\* A callback has one handle, unless two StartAdvertising calls for it ran
\* between looking it up and registering it.
OneHandlePerCallback ==
  \A h, k \in DOMAIN callbacks :
    h # k /\ callbacks[h] = callbacks[k] => callbacks[h] \in twice

=============================================================================
