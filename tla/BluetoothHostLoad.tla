-------------------------- MODULE BluetoothHostLoad --------------------------
(***************************************************************************)
(* How the host gets the service started                                   *)
(* (BluetoothHost::impl::LoadBluetoothHostService): it asks the system     *)
(* ability manager to load it and waits, for at most four seconds, until   *)
(* the profile manager finds the remote or the load is reported to have    *)
(* failed.  The waiter is woken by LoadSystemAbilitySuccess and            *)
(* LoadSystemAbilityFail, which take no lock, from the callback of the     *)
(* load and from OnAddSystemAbility.                                       *)
(*                                                                         *)
(* The threads are the clients of the profile manager.  A load that is     *)
(* part of a switch action holds switchModuleMutex_, for which             *)
(* OnRemoveBluetoothSystemAbility waits on the callback thread.            *)
(***************************************************************************)
EXTENDS BluetoothProfileManager

CONSTANT MaxLoads           \* bound on the calls that need the service

ASSUME MaxLoadsAssumption == MaxLoads \in Nat

VARIABLES
  loader,             \* where each client is in LoadBluetoothHostService
  switchModuleMutex,
  proxyMutex,
  saManagerStatus,
  loading,            \* clients whose load the system ability manager has not answered
  loads,              \* history: calls so far
  atEnd,              \* history: the service when a wait timed out or its outcome was read
  lateFails           \* history: starts that were handled when a load was said to fail

loadHistoryVars == <<atEnd, lateFails>>
loadVars == <<loader, switchModuleMutex, proxyMutex, saManagerStatus, loading, loads,
              loadHistoryVars>>
lvars == <<vars, loadVars>>

managerVars == <<serviceVars, stateVars, lockVars, historyVars>>

LoadInit ==
  /\ Init
  /\ loader = [t \in Clients |-> "none"]
  /\ switchModuleMutex = NoThread
  /\ proxyMutex = NoThread
  /\ saManagerStatus = "WAIT_NOTIFY"
  /\ loading = {}
  /\ loads = 0
  /\ atEnd = [t \in Clients |-> [service |-> 0, handled |-> FALSE]]
  /\ lateFails = {}

At(t, step) == loader[t] = step
LoaderGoto(t, step) == loader' = [loader EXCEPT ![t] = step]

\* the service runs, and the callback thread has told the host so
StartHandled ==
  /\ service # 0
  /\ saEvents = <<>>
  /\ thread[SaThread].pc \notin {"add", "addNeedCheck", "addNotify"}

\* history: what t's wait ends with
NoteEnd(t) == atEnd' = [atEnd EXCEPT ![t] = [service |-> service, handled |-> StartHandled]]

(***************************************************************************)
(* Calls: the switch actions hold switchModuleMutex_, SatelliteControl     *)
(* does not.                                                               *)
(***************************************************************************)
NeedsService(t) ==
  /\ thread[t].pc = "idle"
  /\ loads < MaxLoads
  /\ loads' = loads + 1
  /\ LoaderGoto(t, "lock")
  /\ thread' = [thread EXCEPT ![t].op = "load", ![t].pc = "load"]
  /\ UNCHANGED <<managerVars, proxyMutex, saManagerStatus, loading, loadHistoryVars>>

SwitchActionLoads(t) ==
  /\ switchModuleMutex = NoThread
  /\ switchModuleMutex' = t
  /\ NeedsService(t)

SatelliteControl(t) == NeedsService(t) /\ UNCHANGED switchModuleMutex

(***************************************************************************)
(* LoadBluetoothHostService                                                *)
(***************************************************************************)
\* GetProfileRemote(BLUETOOTH_HOST), then on with step
LookUpHost(t, step) ==
  /\ thread' = [thread EXCEPT ![t].pc = "find", ![t].name = BLUETOOTH_HOST]
  /\ LoaderGoto(t, step)

LoadReturn(t) ==
  /\ thread' = [thread EXCEPT ![t] = Idle]
  /\ LoaderGoto(t, "none")
  /\ proxyMutex' = NoThread
  /\ switchModuleMutex' = IF switchModuleMutex = t THEN NoThread ELSE switchModuleMutex

LoadLocks(t) ==
  /\ At(t, "lock")
  /\ proxyMutex = NoThread
  /\ proxyMutex' = t
  /\ LookUpHost(t, "first")
  /\ UNCHANGED <<managerVars, switchModuleMutex, saManagerStatus, loading, loads,
                 loadHistoryVars>>

ServiceIsUp(t) ==
  /\ At(t, "first") /\ thread[t].pc = "got"
  /\ thread[t].remote # 0
  /\ LoadReturn(t)
  /\ UNCHANGED <<managerVars, saManagerStatus, loading, loads, loadHistoryVars>>

\* the request is accepted, or refused at once
LoadSystemAbility(t) ==
  /\ At(t, "first") /\ thread[t].pc = "got"
  /\ thread[t].remote = 0
  /\ \/ /\ loading' = loading \cup {t}
        /\ LookUpHost(t, "predicate")
        /\ UNCHANGED <<proxyMutex, switchModuleMutex>>
     \/ LoadReturn(t) /\ UNCHANGED loading
  /\ UNCHANGED <<managerVars, saManagerStatus, loads, loadHistoryVars>>

(***************************************************************************)
(* The predicate of wait_for.  It is evaluated before the first wait,      *)
(* after each notification and, for the last time, after the timeout.      *)
(***************************************************************************)
EvaluatePredicate(t) ==
  /\ loader[t] \in {"predicate", "lastPredicate"} /\ thread[t].pc = "got"
  /\ IF thread[t].remote # 0 \/ saManagerStatus = "LOAD_FAIL"
       THEN LoaderGoto(t, "loaded")
       ELSE LoaderGoto(t, IF At(t, "predicate") THEN "sleep" ELSE "giveUp")
  /\ Goto(t, "load")
  /\ UNCHANGED <<managerVars, switchModuleMutex, proxyMutex, saManagerStatus, loading,
                 loads, loadHistoryVars>>

\* a notification between the predicate and this step is lost
FallAsleep(t) ==
  /\ At(t, "sleep")
  /\ LoaderGoto(t, "asleep")
  /\ proxyMutex' = NoThread
  /\ UNCHANGED <<managerVars, thread, switchModuleMutex, saManagerStatus, loading, loads,
                 loadHistoryVars>>

\* mutant: the predicate is not evaluated after the timeout
TimeoutGivesUp(t) ==
  /\ loader[t] \in {"notified", "timedOut"}
  /\ proxyMutex = NoThread
  /\ proxyMutex' = t
  /\ IF At(t, "notified") THEN LookUpHost(t, "predicate")
                          ELSE LoaderGoto(t, "giveUp") /\ UNCHANGED thread
  /\ UNCHANGED <<managerVars, switchModuleMutex, saManagerStatus, loading, loads,
                 loadHistoryVars>>

WakeUp(t) ==
  /\ loader[t] \in {"notified", "timedOut"}
  /\ proxyMutex = NoThread
  /\ proxyMutex' = t
  /\ LookUpHost(t, IF At(t, "notified") THEN "predicate" ELSE "lastPredicate")
  /\ UNCHANGED <<managerVars, switchModuleMutex, saManagerStatus, loading, loads,
                 loadHistoryVars>>

GiveUp(t) ==
  /\ At(t, "giveUp")
  /\ LoadReturn(t)
  /\ UNCHANGED <<managerVars, saManagerStatus, loading, loads, loadHistoryVars>>

(***************************************************************************)
(* The status is read, again and without a lock against those that write   *)
(* it, and decides what is returned; in a second step it is reset.         *)
(***************************************************************************)
ReadStatus(t) ==
  /\ At(t, "loaded")
  /\ LoaderGoto(t, IF saManagerStatus = "LOAD_FAIL" THEN "failed" ELSE "succeeded")
  /\ NoteEnd(t)
  /\ UNCHANGED <<managerVars, thread, switchModuleMutex, proxyMutex, saManagerStatus,
                 loading, loads, lateFails>>

\* the load returns false from "failed" and true from "succeeded"
ResetStatus(t) ==
  /\ loader[t] \in {"failed", "succeeded"}
  /\ saManagerStatus' = "WAIT_NOTIFY"
  /\ LoadReturn(t)
  /\ UNCHANGED <<managerVars, loading, loads, loadHistoryVars>>

LoaderStep(t) ==
  \/ LoadLocks(t) \/ ServiceIsUp(t) \/ LoadSystemAbility(t) \/ EvaluatePredicate(t)
  \/ FallAsleep(t) \/ WakeUp(t) \/ GiveUp(t) \/ ReadStatus(t) \/ ResetStatus(t)

(***************************************************************************)
(* What wakes the waiter                                                   *)
(***************************************************************************)
Asleep == {t \in Clients : At(t, "asleep")}

NotifyOne ==
  IF Asleep = {} THEN UNCHANGED loader ELSE \E t \in Asleep : LoaderGoto(t, "notified")

LoadSystemAbilitySuccess == saManagerStatus' = "LOAD_SUCCESS" /\ NotifyOne
LoadSystemAbilityFail == saManagerStatus' = "LOAD_FAIL" /\ NotifyOne

(***************************************************************************)
(* The answers of the system ability manager to a load (external).  They   *)
(* may be late: neither says what the service does when it arrives.        *)
(***************************************************************************)
OnLoadSystemAbilitySuccess(t) ==
  /\ t \in loading
  /\ loading' = loading \ {t}
  /\ LoadSystemAbilitySuccess
  /\ UNCHANGED <<managerVars, thread, switchModuleMutex, proxyMutex, loads,
                 loadHistoryVars>>

OnLoadSystemAbilityFail(t) ==
  /\ t \in loading
  /\ loading' = loading \ {t}
  /\ LoadSystemAbilityFail
  /\ lateFails' = IF StartHandled THEN lateFails \cup {service} ELSE lateFails
  /\ UNCHANGED <<managerVars, thread, switchModuleMutex, proxyMutex, loads, atEnd>>

\* OnAddSystemAbility
AddNotifiesLoader(t) ==
  /\ AddNotifiesHost(t)
  /\ LoadSystemAbilitySuccess
  /\ UNCHANGED <<switchModuleMutex, proxyMutex, loading, loads, loadHistoryVars>>

\* OnRemoveBluetoothSystemAbility, which ends with an event for the switch module
RemoveNeedsSwitchModule(t) ==
  /\ switchModuleMutex = NoThread
  /\ RemoveTellsSwitch(t)
  /\ UNCHANGED loadVars

(***************************************************************************)
(* Four seconds are over, whatever the callback thread has handled by then *)
(* and whether or not it is blocked.                                       *)
(***************************************************************************)
\* mutant: wait instead of wait_for
WaitForEver(t) == At(t, "asleep") /\ FALSE

LoadTimeout(t) ==
  /\ At(t, "asleep")
  /\ LoaderGoto(t, "timedOut")
  /\ NoteEnd(t)
  /\ UNCHANGED <<managerVars, thread, switchModuleMutex, proxyMutex, saManagerStatus,
                 loading, loads, lateFails>>

HostThreadStep(t) ==
  \/ ManagerStep(t) /\ UNCHANGED loadVars
  \/ AddNotifiesLoader(t)
  \/ RemoveNeedsSwitchModule(t)

\* the clients make no other calls here: the lookups of the loads stand for all
LoadNext ==
  \/ (ServiceStarts \/ ServiceDies \/ DeliverSaEvent) /\ UNCHANGED loadVars
  \/ \E t \in Clients : SwitchActionLoads(t) \/ SatelliteControl(t)
  \/ \E t \in Clients : LoaderStep(t)
  \/ \E t \in Clients : OnLoadSystemAbilitySuccess(t) \/ OnLoadSystemAbilityFail(t)
  \/ \E t \in Clients : LoadTimeout(t)
  \/ \E t \in Threads : HostThreadStep(t)

(***************************************************************************)
(* As in the profile manager; and a wait ends after its time.  The system  *)
(* ability manager need not answer a load.                                 *)
(***************************************************************************)
LoadFairness ==
  /\ WF_lvars(DeliverSaEvent /\ UNCHANGED loadVars)
  /\ \A t \in Threads : SF_lvars(HostThreadStep(t))
  /\ \A t \in Clients : SF_lvars(LoaderStep(t)) /\ WF_lvars(LoadTimeout(t))

LoadSpec == LoadInit /\ [][LoadNext]_lvars /\ LoadFairness

-----------------------------------------------------------------------------
(***************************************************************************)
(* A load returns false although the service runs in two cases only.  When *)
(* the four seconds were over the callback thread had not handled the      *)
(* report of the start yet; the loader itself may be the reason, when the  *)
(* report of an earlier death waits for the loader's switchModuleMutex_    *)
(* and that of the start behind it.  Or LOAD_FAIL is read: it comes from   *)
(* before the start was handled, or from an answer to some load that said  *)
(* so afterwards.  A lost notification costs time but not the load,        *)
(* because the predicate is evaluated again after the timeout, and an old  *)
(* failure does not outlive the report of a start.                         *)
(***************************************************************************)
HandledStartIsNotGivenUp ==
  \A t \in Clients :
    service # 0 /\ atEnd[t] = [service |-> service, handled |-> TRUE] =>
      /\ ~At(t, "giveUp")
      /\ At(t, "failed") => service \in lateFails

(***************************************************************************)
(* Every load returns, and so does the callback thread that waits for the  *)
(* loader, although the loader waits for the callback thread.              *)
(***************************************************************************)
LoadsReturn ==
  /\ \A t \in Clients : loader[t] # "none" ~> loader[t] = "none"
  /\ thread[SaThread].pc # "idle" ~> thread[SaThread].pc = "idle"
=============================================================================
