------------------ MODULE BluetoothBleCentralManagerProofs ------------------
(***************************************************************************)
(* Safety of the BLE central manager, for any number of threads, calls,    *)
(* changes of the service and numbers.                                     *)
(***************************************************************************)
EXTENDS BluetoothBleCentralManager, TLAPS

PCs == {"idle", "check", "enter", "lock", "init", "scan", "callback"}

ThreadRecords == [pc : PCs, op : {"start", "stop"}, inCallback : BOOLEAN]

\* The variables that the argument is about have their types.
TypeInv ==
  /\ obj \in {"none", "stored", "constructing", "live", "deregistered", "gone"}
  /\ scannerId \in Nat
  /\ nextId \in Nat \ {0}
  /\ Known \subseteq Nat \ {0}
  /\ thread \in [Threads -> ThreadRecords]
  /\ notifier \in [Notifiers -> {"idle", "on", "off", "removed"}]
  /\ reports \in Seq({"on", "off"})
  /\ notices \in Seq({"add", "remove"})
  /\ checked \subseteq Threads

\* scannerIdMutex_ is held from "init" or "scan" on, the map's lock while a
\* function is to run.
LockInv ==
  /\ \A t \in Threads : pc(t) \in {"init", "scan"} => scannerIdMutex = t
  /\ \A n \in Notifiers : notifier[n] \in {"on", "off"} => mapLock = n

\* Calls are made of a live manager only, functions run while they are stored.
LifeInv ==
  /\ obj # "live" => \A t \in Threads : pc(t) = "idle"
  /\ ~Stored => \A n \in Notifiers : notifier[n] \notin {"on", "off"}
  /\ obj = "none" => scannerId = Invalid

\* The service knows numbers only while BLE is on, and calls that hold the
\* mutex have a number or none according to where they are.
NumberInv ==
  /\ ~(up /\ ble) => Known = {}
  /\ \A t \in Threads : pc(t) = "init" => scannerId = Invalid
  /\ \A t \in Threads : pc(t) = "scan" => scannerId # Invalid

\* A check that still holds is of a call under way, and the number it checked
\* was replaced by valid ones only.
CheckInv ==
  /\ \A t \in checked : pc(t) \in {"enter", "lock", "init", "scan"}
  /\ checked # {} => scannerId \in Known \cup {Invalid}

Inv == TypeInv /\ LockInv /\ LifeInv /\ NumberInv /\ CheckInv

-----------------------------------------------------------------------------
(* Steps of a thread. *)

\* What a new record for one thread does to the table.
LEMMA TableMoves ==
  ASSUME NEW t \in Threads, NEW r \in ThreadRecords, TypeInv,
         thread' = [thread EXCEPT ![t] = r]
  PROVE  /\ thread' \in [Threads -> ThreadRecords]
         /\ pc(t)' = r.pc
         /\ \A u \in Threads : u # t => pc(u)' = pc(u)
BY DEF TypeInv, pc

\* What Goto does to the places of all threads.
LEMMA GotoMoves ==
  ASSUME NEW t \in Threads, NEW where \in PCs, TypeInv, Goto(t, where)
  PROVE  /\ thread' \in [Threads -> ThreadRecords]
         /\ pc(t)' = where
         /\ \A u \in Threads : u # t => pc(u)' = pc(u)
BY DEF TypeInv, ThreadRecords, Goto, pc

\* A return leads to the observer or out of the framework.
LEMMA ReturnMoves ==
  ASSUME NEW t \in Threads, TypeInv, Return(t)
  PROVE  /\ thread' \in [Threads -> ThreadRecords]
         /\ pc(t)' \in {"idle", "callback"}
         /\ \A u \in Threads : u # t => pc(u)' = pc(u)
         /\ checked' = checked \ {t}
<1>1. PICK where \in {"idle", "callback"} : Goto(t, where)
  BY DEF Return
<1>2. QED
  BY <1>1, GotoMoves DEF Return, PCs

-----------------------------------------------------------------------------
(* The invariant. *)

\* The invariant holds before the manager is constructed.
LEMMA InvInit == Init => Inv
BY CentralAssumption DEF Init, Inv, TypeInv, LockInv, LifeInv, NumberInv, CheckInv,
   ThreadRecords, PCs, Idle, NoneRegistered, Known, pc, Invalid, Notifiers

\* Every step preserves it, one step of the proof per action.
LEMMA InvStep == Inv /\ [Next]_vars => Inv'
<1> SUFFICES ASSUME Inv, [Next]_vars PROVE Inv'
  OBVIOUS
<1> USE CentralAssumption, ThreadsAssumption DEF Inv, TypeInv, Invalid, Ids, Notifiers,
     manager, locks, host, service, bounds, history
<1>1. ASSUME NEW t \in Threads, CheckValidScannerId(t) PROVE Inv'
  <2>0. Goto(t, "enter")
    BY <1>1 DEF CheckValidScannerId
  <2>1. /\ thread' \in [Threads -> ThreadRecords]
        /\ \A u \in Threads : u # t => pc(u)' = pc(u)
        /\ pc(t)' = "enter"
    BY <2>0, GotoMoves, ReturnMoves DEF PCs
  <2>2. TypeInv'
    BY <1>1, <2>1 DEF CheckValidScannerId, ResetScannerId, Known
  <2>3. LockInv'
    BY <1>1, <2>1 DEF CheckValidScannerId, ResetScannerId, LockInv, pc
  <2>4. LifeInv'
    BY <1>1, <2>1 DEF CheckValidScannerId, ResetScannerId, LockInv, LifeInv, Stored, pc
  <2>5. NumberInv'
    BY <1>1, <2>1 DEF CheckValidScannerId, ResetScannerId, LockInv, NumberInv, LifeInv,
       Known, pc, Invalid
  <2>6. CheckInv'
    BY <1>1, <2>1 DEF CheckValidScannerId, ResetScannerId, LockInv, LifeInv, NumberInv,
       CheckInv, Known, pc, Invalid, Stored
  <2> QED
    BY <2>2, <2>3, <2>4, <2>5, <2>6
<1>2. ASSUME NEW t \in Threads, Enter(t) PROVE Inv'
  <2>1. /\ thread' \in [Threads -> ThreadRecords]
        /\ \A u \in Threads : u # t => pc(u)' = pc(u)
        /\ \/ pc(t)' = "lock" /\ checked' = checked
           \/ pc(t)' \in {"idle", "callback"} /\ checked' = checked \ {t}
    BY <1>2, GotoMoves, ReturnMoves DEF Enter, PCs
  <2>2. TypeInv' /\ LockInv' /\ LifeInv'
    BY <1>2, <2>1 DEF Enter, LockInv, LifeInv, Stored, Known, pc
  <2>3. NumberInv'
    BY <1>2, <2>1 DEF Enter, NumberInv, Known, pc
  <2>4. CheckInv'
    BY <1>2, <2>1 DEF Enter, CheckInv, Known
  <2> QED
    BY <2>2, <2>3, <2>4
<1>3. ASSUME NEW t \in Threads, Lock(t) PROVE Inv'
  <2>0. Goto(t, IF scannerId = Invalid THEN "init" ELSE "scan")
    BY <1>3 DEF Lock
  <2>1. /\ thread' \in [Threads -> ThreadRecords]
        /\ \A u \in Threads : u # t => pc(u)' = pc(u)
        /\ pc(t)' = IF scannerId = Invalid THEN "init" ELSE "scan"
    BY <2>0, GotoMoves, ReturnMoves DEF PCs
  <2>2. TypeInv'
    BY <1>3, <2>1 DEF Lock, Known
  <2>3. LockInv'
    BY <1>3, <2>1 DEF Lock, LockInv, pc
  <2>4. LifeInv'
    BY <1>3, <2>1 DEF Lock, LockInv, LifeInv, Stored, pc
  <2>5. NumberInv'
    BY <1>3, <2>1 DEF Lock, LockInv, NumberInv, LifeInv, Known, pc, Invalid
  <2>6. CheckInv'
    BY <1>3, <2>1 DEF Lock, LockInv, LifeInv, NumberInv, CheckInv, Known, pc, Invalid,
       Stored
  <2> QED
    BY <2>2, <2>3, <2>4, <2>5, <2>6
<1>4. ASSUME NEW t \in Threads, InitScannerId(t) PROVE Inv'
  <2>1. pc(t) = "init" /\ obj = "live" /\ scannerId = Invalid /\ scannerIdMutex = t
    BY <1>4 DEF InitScannerId, LockInv, LifeInv, NumberInv
  <2>2. \A u \in Threads : u # t => pc(u) \notin {"init", "scan"}
    BY <2>1 DEF LockInv
  <2>3. CASE scannerId' = Invalid
    <3>1. /\ thread' \in [Threads -> ThreadRecords]
          /\ pc(t)' \in {"idle", "callback"}
          /\ \A u \in Threads : u # t => pc(u)' = pc(u)
          /\ checked' = checked \ {t}
      BY <1>4, <2>3, ReturnMoves DEF InitScannerId
    <3>2. UNCHANGED <<obj, notifier, mapLock, up, ble, nextId, registered, reports, notices>>
      BY <1>4, <2>3 DEF InitScannerId, RegisterCallback
    <3>3. TypeInv' /\ LockInv' /\ LifeInv'
      BY <2>1, <2>2, <2>3, <3>1, <3>2 DEF LockInv, LifeInv, Stored, Known
    <3>4. NumberInv' /\ CheckInv'
      BY <2>1, <2>2, <2>3, <3>1, <3>2 DEF NumberInv, CheckInv, Known
    <3> QED
      BY <3>3, <3>4
  <2>4. CASE scannerId' # Invalid
    <3>1. /\ thread' \in [Threads -> ThreadRecords]
          /\ pc(t)' = "scan"
          /\ \A u \in Threads : u # t => pc(u)' = pc(u)
      BY <1>4, <2>4, GotoMoves DEF InitScannerId, PCs
    <3>2. /\ UNCHANGED <<obj, notifier, mapLock, scannerIdMutex, up, ble,
                       reports, notices, checked>>
          /\ up /\ ble
          /\ scannerId' = nextId /\ nextId' = nextId + 1 /\ Known' = Known \cup {nextId}
      BY <1>4, <2>4 DEF InitScannerId, RegisterCallback, Known
    <3>3. TypeInv' /\ LockInv' /\ LifeInv'
      BY <2>1, <2>2, <2>4, <3>1, <3>2 DEF LockInv, LifeInv, Stored
    <3>4. NumberInv' /\ CheckInv'
      BY <2>1, <2>2, <2>4, <3>1, <3>2 DEF NumberInv, CheckInv
    <3> QED
      BY <3>3, <3>4
  <2> QED
    BY <2>3, <2>4
<1>5. ASSUME NEW t \in Threads, Scan(t) PROVE Inv'
  <2>0. Return(t)
    BY <1>5 DEF Scan
  <2>1. /\ thread' \in [Threads -> ThreadRecords]
        /\ \A u \in Threads : u # t => pc(u)' = pc(u)
        /\ pc(t)' \in {"idle", "callback"}
    BY <2>0, GotoMoves, ReturnMoves DEF PCs
  <2>2. TypeInv'
    BY <1>5, <2>1 DEF Scan, Known, Return
  <2>3. LockInv'
    BY <1>5, <2>1 DEF Scan, LockInv, pc
  <2>4. LifeInv'
    BY <1>5, <2>1 DEF Scan, LockInv, LifeInv, Stored, pc
  <2>5. NumberInv'
    BY <1>5, <2>1 DEF Scan, LockInv, NumberInv, LifeInv, Known, pc, Invalid
  <2>6. CheckInv'
    BY <1>5, <2>1 DEF Scan, LockInv, LifeInv, NumberInv, CheckInv, Known, pc, Invalid,
       Stored, Return
  <2> QED
    BY <2>2, <2>3, <2>4, <2>5, <2>6
<1>6. ASSUME NEW t \in Threads, ObserverReturns(t) PROVE Inv'
  <2>1. TypeInv'
    BY <1>6 DEF ObserverReturns, Idle, Known, ThreadRecords, PCs
  <2>2. LockInv'
    BY <1>6 DEF ObserverReturns, Idle, LockInv, pc
  <2>3. LifeInv'
    BY <1>6 DEF ObserverReturns, Idle, LockInv, LifeInv, Stored, pc
  <2>4. NumberInv'
    BY <1>6 DEF ObserverReturns, Idle, LockInv, NumberInv, LifeInv, Known, pc, Invalid
  <2>5. CheckInv'
    BY <1>6 DEF ObserverReturns, Idle, LockInv, LifeInv, NumberInv, CheckInv, Known, pc,
       Invalid, Stored
  <2> QED
    BY <2>1, <2>2, <2>3, <2>4, <2>5
<1>7. ASSUME NEW t \in Threads, OnScanCallback(t) PROVE Inv'
  <2> DEFINE record == [pc |-> "callback", op |-> thread[t].op, inCallback |-> TRUE]
  <2>0. thread' = [thread EXCEPT ![t] = record]
    BY <1>7 DEF OnScanCallback
  <2>1. /\ thread' \in [Threads -> ThreadRecords]
        /\ pc(t) = "idle" /\ pc(t)' = "callback" /\ obj = "live"
        /\ \A u \in Threads : u # t => pc(u)' = pc(u)
    <3>1. record \in ThreadRecords /\ record.pc = "callback"
      BY DEF ThreadRecords, PCs
    <3>2. pc(t) = "idle" /\ obj = "live"
      BY <1>7 DEF OnScanCallback
    <3> HIDE DEF record
    <3> QED
      BY <2>0, <3>1, <3>2, TableMoves
  <2>2. UNCHANGED <<obj, scannerId, scannerIdMutex, mapLock, notifier, up, ble, registered,
                    nextId, reports, notices, checked>>
    BY <1>7 DEF OnScanCallback
  <2>3. TypeInv' /\ LockInv' /\ LifeInv'
    BY <2>1, <2>2 DEF LockInv, LifeInv, Stored, Known
  <2>4. NumberInv' /\ CheckInv'
    BY <2>1, <2>2 DEF NumberInv, CheckInv, Known
  <2> QED
    BY <2>3, <2>4
<1>8. ASSUME NEW t \in Threads, NEW op \in {"start", "stop"}, NEW js \in BOOLEAN,
             ScanCall(t, op, js)
      PROVE  Inv'
  <2>0. PICK where \in {"check", "enter"} :
          thread' = [thread EXCEPT ![t] = [pc |-> where, op |-> op,
                                            inCallback |-> thread[t].inCallback]]
    BY <1>8 DEF ScanCall
  <2> DEFINE record == [pc |-> where, op |-> op, inCallback |-> thread[t].inCallback]
  <2>1. /\ thread' \in [Threads -> ThreadRecords]
        /\ pc(t) \in {"idle", "callback"} /\ pc(t)' \in {"check", "enter"} /\ obj = "live"
        /\ \A u \in Threads : u # t => pc(u)' = pc(u)
    <3>1. record \in ThreadRecords /\ record.pc = where
      BY DEF ThreadRecords, PCs
    <3>2. pc(t) \in {"idle", "callback"} /\ obj = "live"
      BY <1>8 DEF ScanCall, MayCall
    <3>3. thread' = [thread EXCEPT ![t] = record]
      BY <2>0
    <3> HIDE DEF record
    <3> QED
      BY <3>1, <3>2, <3>3, TableMoves
  <2>2. UNCHANGED <<obj, scannerId, scannerIdMutex, mapLock, notifier, up, ble, registered,
                    nextId, reports, notices, checked>>
    BY <1>8 DEF ScanCall
  <2>3. TypeInv' /\ LockInv' /\ LifeInv'
    BY <2>1, <2>2 DEF LockInv, LifeInv, Stored, Known
  <2>4. NumberInv' /\ CheckInv'
    BY <2>1, <2>2 DEF NumberInv, CheckInv, Known
  <2> QED
    BY <2>3, <2>4
<1>9. ASSUME NEW n \in Notifiers, TurnOff(n) PROVE Inv'
  <2>1. TypeInv'
    BY <1>9 DEF TurnOff, Unlock, Known
  <2>2. LockInv'
    BY <1>9 DEF TurnOff, Unlock, LockInv, pc
  <2>3. LifeInv'
    BY <1>9 DEF TurnOff, Unlock, LockInv, LifeInv, Stored, pc
  <2>4. NumberInv'
    BY <1>9 DEF TurnOff, Unlock, LockInv, NumberInv, LifeInv, Known, pc, Invalid
  <2>5. CheckInv'
    BY <1>9 DEF TurnOff, Unlock, LockInv, LifeInv, NumberInv, CheckInv,
       Known, pc, Invalid, Stored
  <2> QED
    BY <2>1, <2>2, <2>3, <2>4, <2>5
<1>10. ASSUME NEW n \in Notifiers, NotifyTurnOn(n) PROVE Inv'
  <2>1. TypeInv'
    BY <1>10 DEF NotifyTurnOn, TurnOn, RegisterCallback, Unlock, Known
  <2>2. LockInv'
    BY <1>10 DEF NotifyTurnOn, TurnOn, RegisterCallback, Unlock, LockInv, pc
  <2>3. LifeInv'
    BY <1>10 DEF NotifyTurnOn, TurnOn, RegisterCallback, Unlock, LockInv, LifeInv, Stored,
       pc
  <2>4. NumberInv'
    BY <1>10 DEF NotifyTurnOn, TurnOn, RegisterCallback, Unlock, LockInv, NumberInv,
       LifeInv, Known, pc, Invalid
  <2>5. CheckInv'
    BY <1>10 DEF NotifyTurnOn, TurnOn, RegisterCallback, Unlock, LockInv, LifeInv,
       NumberInv, CheckInv, Known, pc, Invalid, Stored
  <2> QED
    BY <2>1, <2>2, <2>3, <2>4, <2>5
<1>11. ASSUME OnReport PROVE Inv'
  <2>1. TypeInv'
    BY <1>11 DEF OnReport, OnStateChanged, Intercepted, Notify, Known
  <2>2. LockInv'
    BY <1>11 DEF OnReport, OnStateChanged, Intercepted, Notify, LockInv, pc
  <2>3. LifeInv'
    BY <1>11 DEF OnReport, OnStateChanged, Intercepted, Notify, LockInv, LifeInv, Stored, pc
  <2>4. NumberInv'
    BY <1>11 DEF OnReport, OnStateChanged, Intercepted, Notify, LockInv, NumberInv, LifeInv,
       Known, pc, Invalid
  <2>5. CheckInv'
    BY <1>11 DEF OnReport, OnStateChanged, Intercepted, Notify, LockInv, LifeInv, NumberInv,
       CheckInv, Known, pc, Invalid, Stored
  <2> QED
    BY <2>1, <2>2, <2>3, <2>4, <2>5
<1>12. ASSUME OnAddSystemAbility PROVE Inv'
  <2>1. TypeInv'
    BY <1>12 DEF OnAddSystemAbility, Known
  <2>2. LockInv'
    BY <1>12 DEF OnAddSystemAbility, LockInv, pc
  <2>3. LifeInv'
    BY <1>12 DEF OnAddSystemAbility, LockInv, LifeInv, Stored, pc
  <2>4. NumberInv'
    BY <1>12 DEF OnAddSystemAbility, LockInv, NumberInv, LifeInv, Known, pc, Invalid
  <2>5. CheckInv'
    BY <1>12 DEF OnAddSystemAbility, LockInv, LifeInv, NumberInv, CheckInv, Known, pc,
       Invalid, Stored
  <2> QED
    BY <2>1, <2>2, <2>3, <2>4, <2>5
<1>13. ASSUME OnRemoveSystemAbility PROVE Inv'
  <2>1. TypeInv'
    BY <1>13 DEF OnRemoveSystemAbility, Known
  <2>2. LockInv'
    BY <1>13 DEF OnRemoveSystemAbility, LockInv, pc
  <2>3. LifeInv'
    BY <1>13 DEF OnRemoveSystemAbility, LockInv, LifeInv, Stored, pc
  <2>4. NumberInv'
    BY <1>13 DEF OnRemoveSystemAbility, LockInv, NumberInv, LifeInv, Known, pc, Invalid
  <2>5. CheckInv'
    BY <1>13 DEF OnRemoveSystemAbility, LockInv, LifeInv, NumberInv, CheckInv, Known, pc,
       Invalid, Stored
  <2> QED
    BY <2>1, <2>2, <2>3, <2>4, <2>5
<1>14. ASSUME OnRemoveBluetoothSystemAbility PROVE Inv'
  <2>1. TypeInv'
    BY <1>14 DEF OnRemoveBluetoothSystemAbility, OnStateChanged, Intercepted, Notify, Known,
       ThreadRecords, PCs
  <2>2. LockInv'
    BY <1>14 DEF OnRemoveBluetoothSystemAbility, OnStateChanged, Intercepted, Notify,
       LockInv, pc
  <2>3. LifeInv'
    BY <1>14 DEF OnRemoveBluetoothSystemAbility, OnStateChanged, Intercepted, Notify,
       LockInv, LifeInv, Stored, pc
  <2>4. NumberInv'
    BY <1>14 DEF OnRemoveBluetoothSystemAbility, OnStateChanged, Intercepted, Notify,
       LockInv, NumberInv, LifeInv, Known, pc, Invalid
  <2>5. CheckInv'
    BY <1>14 DEF OnRemoveBluetoothSystemAbility, OnStateChanged, Intercepted, Notify,
       LockInv, LifeInv, NumberInv, CheckInv, Known, pc, Invalid, Stored
  <2> QED
    BY <2>1, <2>2, <2>3, <2>4, <2>5
<1>15. ASSUME Construct PROVE Inv'
  <2>1. TypeInv'
    BY <1>15 DEF Construct, Known
  <2>2. LockInv'
    BY <1>15 DEF Construct, LockInv, pc
  <2>3. LifeInv'
    BY <1>15 DEF Construct, LockInv, LifeInv, Stored, pc
  <2>4. NumberInv'
    BY <1>15 DEF Construct, LockInv, NumberInv, LifeInv, Known, pc, Invalid
  <2>5. CheckInv'
    BY <1>15 DEF Construct, LockInv, LifeInv, NumberInv, CheckInv, Known, pc, Invalid,
       Stored
  <2> QED
    BY <2>1, <2>2, <2>3, <2>4, <2>5
<1>16. ASSUME ConstructTurnOn PROVE Inv'
  <2>1. TypeInv'
    BY <1>16 DEF ConstructTurnOn, TurnOn, RegisterCallback, Known
  <2>2. LockInv'
    BY <1>16 DEF ConstructTurnOn, TurnOn, RegisterCallback, LockInv, pc
  <2>3. LifeInv'
    BY <1>16 DEF ConstructTurnOn, TurnOn, RegisterCallback, LockInv, LifeInv, Stored, pc
  <2>4. NumberInv'
    BY <1>16 DEF ConstructTurnOn, TurnOn, RegisterCallback, LockInv, NumberInv, LifeInv,
       Known, pc, Invalid
  <2>5. CheckInv'
    BY <1>16 DEF ConstructTurnOn, TurnOn, RegisterCallback, LockInv, LifeInv, NumberInv,
       CheckInv, Known, pc, Invalid, Stored
  <2> QED
    BY <2>1, <2>2, <2>3, <2>4, <2>5
<1>17. ASSUME ConstructEnd PROVE Inv'
  <2>1. TypeInv'
    BY <1>17 DEF ConstructEnd, Known
  <2>2. LockInv'
    BY <1>17 DEF ConstructEnd, LockInv, pc
  <2>3. LifeInv'
    BY <1>17 DEF ConstructEnd, LockInv, LifeInv, Stored, pc
  <2>4. NumberInv'
    BY <1>17 DEF ConstructEnd, LockInv, NumberInv, LifeInv, Known, pc, Invalid
  <2>5. CheckInv'
    BY <1>17 DEF ConstructEnd, LockInv, LifeInv, NumberInv, CheckInv, Known, pc, Invalid,
       Stored
  <2> QED
    BY <2>1, <2>2, <2>3, <2>4, <2>5
<1>18. ASSUME DeregisterFunc PROVE Inv'
  <2>1. TypeInv'
    BY <1>18 DEF DeregisterFunc, Known
  <2>2. LockInv'
    BY <1>18 DEF DeregisterFunc, LockInv, pc
  <2>3. LifeInv'
    BY <1>18 DEF DeregisterFunc, LockInv, LifeInv, Stored, pc
  <2>4. NumberInv'
    BY <1>18 DEF DeregisterFunc, LockInv, NumberInv, LifeInv, Known, pc, Invalid
  <2>5. CheckInv'
    BY <1>18 DEF DeregisterFunc, LockInv, LifeInv, NumberInv, CheckInv, Known, pc, Invalid,
       Stored
  <2> QED
    BY <2>1, <2>2, <2>3, <2>4, <2>5
<1>19. ASSUME Destroy PROVE Inv'
  <2>1. TypeInv'
    BY <1>19 DEF Destroy, Known
  <2>2. LockInv'
    BY <1>19 DEF Destroy, LockInv, pc
  <2>3. LifeInv'
    BY <1>19 DEF Destroy, LockInv, LifeInv, Stored, pc
  <2>4. NumberInv'
    BY <1>19 DEF Destroy, LockInv, NumberInv, LifeInv, Known, pc, Invalid
  <2>5. CheckInv'
    BY <1>19 DEF Destroy, LockInv, LifeInv, NumberInv, CheckInv, Known, pc, Invalid, Stored
  <2> QED
    BY <2>1, <2>2, <2>3, <2>4, <2>5
<1>20. ASSUME BleTurnsOn PROVE Inv'
  <2>0. reports' \in Seq({"on", "off"})
    BY <1>20 DEF BleTurnsOn
  <2>1. TypeInv'
    BY <1>20, <2>0 DEF BleTurnsOn, Known
  <2>2. LockInv'
    BY <1>20 DEF BleTurnsOn, Change, LockInv, pc
  <2>3. LifeInv'
    BY <1>20 DEF BleTurnsOn, Change, LockInv, LifeInv, Stored, pc
  <2>4. NumberInv'
    BY <1>20 DEF BleTurnsOn, Change, LockInv, NumberInv, LifeInv, Known, pc, Invalid
  <2>5. CheckInv'
    BY <1>20 DEF BleTurnsOn, Change, LockInv, LifeInv, NumberInv, CheckInv, Known, pc,
       Invalid, Stored
  <2> QED
    BY <2>1, <2>2, <2>3, <2>4, <2>5
<1>21. ASSUME BleTurnsOff PROVE Inv'
  <2>1. reports' \in Seq({"on", "off"})
    BY <1>21 DEF BleTurnsOff
  <2>2. /\ Known' = {} /\ checked' = {}
        /\ UNCHANGED <<obj, scannerId, scannerIdMutex, mapLock, thread, notifier, nextId, notices>>
    BY <1>21 DEF BleTurnsOff, Expire, NoneRegistered, Known
  <2>3. TypeInv' /\ LockInv' /\ LifeInv'
    BY <2>1, <2>2 DEF LockInv, LifeInv, Stored, pc
  <2>4. NumberInv' /\ CheckInv'
    BY <2>2 DEF NumberInv, CheckInv, pc
  <2> QED
    BY <2>3, <2>4
<1>22. ASSUME ServiceDies PROVE Inv'
  <2>1. TypeInv'
    BY <1>22 DEF ServiceDies, Change, Expire, NoneRegistered, Known
  <2>2. LockInv'
    BY <1>22 DEF ServiceDies, Change, Expire, NoneRegistered, LockInv, pc
  <2>3. LifeInv'
    BY <1>22 DEF ServiceDies, Change, Expire, NoneRegistered, LockInv, LifeInv, Stored, pc
  <2>4. NumberInv'
    BY <1>22 DEF ServiceDies, Change, Expire, NoneRegistered, LockInv, NumberInv, LifeInv,
       Known, pc, Invalid
  <2>5. CheckInv'
    BY <1>22 DEF ServiceDies, Change, Expire, NoneRegistered, LockInv, LifeInv, NumberInv,
       CheckInv, Known, pc, Invalid, Stored
  <2> QED
    BY <2>1, <2>2, <2>3, <2>4, <2>5
<1>23. ASSUME ServiceStarts PROVE Inv'
  <2>1. TypeInv'
    BY <1>23 DEF ServiceStarts, Known
  <2>2. LockInv'
    BY <1>23 DEF ServiceStarts, LockInv, pc
  <2>3. LifeInv'
    BY <1>23 DEF ServiceStarts, LockInv, LifeInv, Stored, pc
  <2>4. NumberInv'
    BY <1>23 DEF ServiceStarts, LockInv, NumberInv, LifeInv, Known, pc, Invalid
  <2>5. CheckInv'
    BY <1>23 DEF ServiceStarts, LockInv, LifeInv, NumberInv, CheckInv, Known, pc, Invalid,
       Stored
  <2> QED
    BY <2>1, <2>2, <2>3, <2>4, <2>5
<1>24. CASE UNCHANGED vars
  BY <1>24 DEF vars, LockInv, LifeInv, NumberInv, CheckInv, Stored, Known, pc
<1>25. QED
  BY <1>1, <1>2, <1>3, <1>4, <1>5, <1>6, <1>7, <1>8, <1>9, <1>10, <1>11, <1>12, <1>13,
     <1>14, <1>15, <1>16, <1>17, <1>18, <1>19, <1>20, <1>21, <1>22, <1>23, <1>24
  DEF Next, ThreadStep, NotifierStep, Deliver, ObjectStep, ServiceStep

\* The inductive invariant holds.
THEOREM Invariance == Spec => []Inv
BY InvInit, InvStep, PTL DEF Spec

-----------------------------------------------------------------------------
(* Consequences. *)

\* The functions that refer to the manager are not run once its destructor has
\* deregistered them: DeregisterFunc waits for the lock that is held while
\* they run.
THEOREM NoFunctionRunsLate == Spec => []NoFunctionAfterDestruction
<1>1. Inv => NoFunctionAfterDestruction
  BY DEF Inv, LifeInv, Stored, NoFunctionAfterDestruction
<1>2. QED
  BY <1>1, Invariance, PTL

\* A number that was checked is valid when the scan is made, unless BLE went
\* off in between.
THEOREM ChecksHold == Spec => []CheckedNumberIsKnown
<1>1. Inv => CheckedNumberIsKnown
  BY DEF Inv, TypeInv, NumberInv, CheckInv, CheckedNumberIsKnown
<1>2. QED
  BY <1>1, Invariance, PTL

-----------------------------------------------------------------------------
(* What is left at the service. *)

\* A step of RegisterCallback on an invalid number adds the new number only.
LEMMA RegisterAddsCurrent ==
  ASSUME Inv, scannerId = Invalid, RegisterCallback,
         Known \subseteq forgotten \cup {scannerId}, UNCHANGED forgotten
  PROVE  (Known \subseteq forgotten \cup {scannerId})'
<1>1. Known \subseteq forgotten
  BY DEF Inv, TypeInv, Invalid
<1>2. QED
  BY <1>1 DEF RegisterCallback, Known

\* Numbers are registered only when there is none, and reset only when the
\* service does not know them or a function does it late.
LEMMA NothingLeftStep == Inv /\ NothingLeftAtService /\ [Next]_vars => NothingLeftAtService'
<1> SUFFICES ASSUME Inv, NothingLeftAtService, [Next]_vars PROVE NothingLeftAtService'
  OBVIOUS
<1> USE DEF NothingLeftAtService, manager, locks, host, service, bounds, history
<1>1. ASSUME NEW t \in Threads, CheckValidScannerId(t) PROVE NothingLeftAtService'
  BY <1>1 DEF CheckValidScannerId, ResetScannerId, Inv, TypeInv, NumberInv, Known, Invalid
<1>2. ASSUME NEW t \in Threads, InitScannerId(t) PROVE NothingLeftAtService'
  <2>1. obj = "live" /\ scannerId = Invalid
    BY <1>2 DEF InitScannerId, Inv, LifeInv, NumberInv
  <2>2. QED
    BY <1>2, <2>1, RegisterAddsCurrent DEF InitScannerId
<1>3. ASSUME NEW t \in Threads,
             \/ Enter(t) \/ Lock(t) \/ Scan(t) \/ ObserverReturns(t) \/ OnScanCallback(t)
             \/ \E op \in {"start", "stop"}, js \in BOOLEAN : ScanCall(t, op, js)
      PROVE  NothingLeftAtService'
  BY <1>3 DEF Enter, Lock, Scan, ObserverReturns, OnScanCallback, ScanCall, Return, Known
<1>4. ASSUME NEW n \in Notifiers, TurnOff(n) PROVE NothingLeftAtService'
  BY <1>4 DEF TurnOff, Known
<1>5. ASSUME NEW n \in Notifiers, NotifyTurnOn(n) PROVE NothingLeftAtService'
  <2>1. obj # "gone"
    BY <1>5 DEF NotifyTurnOn, Inv, LifeInv, Stored
  <2>2. CASE scannerId = Invalid
    BY <1>5, <2>1, <2>2, RegisterAddsCurrent DEF NotifyTurnOn, TurnOn
  <2>3. CASE scannerId # Invalid
    BY <1>5, <2>1, <2>3 DEF NotifyTurnOn, TurnOn, Known
  <2>4. QED
    BY <2>2, <2>3
<1>6. ASSUME Deliver PROVE NothingLeftAtService'
  BY <1>6 DEF Deliver, OnReport, OnAddSystemAbility, OnRemoveSystemAbility,
     OnRemoveBluetoothSystemAbility, Known
<1>7. ASSUME ConstructTurnOn PROVE NothingLeftAtService'
  <2>1. CASE scannerId = Invalid /\ isServiceOn /\ ble
    BY <1>7, <2>1, RegisterAddsCurrent DEF ConstructTurnOn, TurnOn
  <2>2. CASE ~(scannerId = Invalid /\ isServiceOn /\ ble)
    BY <1>7, <2>2 DEF ConstructTurnOn, TurnOn, Known
  <2>3. QED
    BY <2>1, <2>2
<1>8. ASSUME Construct \/ ConstructEnd \/ DeregisterFunc PROVE NothingLeftAtService'
  BY <1>8 DEF Construct, ConstructEnd, DeregisterFunc, Known
<1>9. ASSUME Destroy PROVE NothingLeftAtService'
  BY <1>9 DEF Destroy, Known
<1>10. ASSUME ServiceStep PROVE NothingLeftAtService'
  BY <1>10 DEF ServiceStep, BleTurnsOn, BleTurnsOff, ServiceDies, ServiceStarts, Expire,
     NoneRegistered, Known
<1>11. CASE UNCHANGED vars
  BY <1>11 DEF vars, Known
<1>12. QED
  BY <1>1, <1>2, <1>3, <1>4, <1>5, <1>6, <1>7, <1>8, <1>9, <1>10, <1>11
  DEF Next, ThreadStep, NotifierStep, ObjectStep

\* What the service keeps is under the current number or under one that a late
\* turn-off reset, and nothing else is left after the destructor.
THEOREM NothingIsLeft == Spec => []NothingLeftAtService
<1>1. Init => NothingLeftAtService
  BY DEF Init, NothingLeftAtService, NoneRegistered, Known
<1>2. QED
  BY <1>1, Invariance, NothingLeftStep, PTL DEF Spec

-----------------------------------------------------------------------------
(* The mode. *)

\* Once the constructor is over the mode is the one asked for.
ModeInv ==
  obj \in {"live", "deregistered", "gone"} =>
    /\ enableRandomAddrMode = asked
    /\ \A i \in Known \ early : registered[i] = asked

\* A registration uses the current mode and leaves the others alone.
LEMMA RegisterKeepsMode ==
  ASSUME ModeInv, RegisterCallback, UNCHANGED <<asked, enableRandomAddrMode, early>>,
         obj \in {"live", "deregistered", "gone"}
  PROVE  \A i \in (Known \ early)' : registered'[i] = asked
<1>1. CASE registered' = registered
  BY <1>1 DEF ModeInv, Known
<1>2. CASE registered' = [i \in Known \cup {nextId} |->
                            IF i = nextId THEN enableRandomAddrMode ELSE registered[i]]
  <2>1. SUFFICES ASSUME NEW i \in (Known \ early)' PROVE registered'[i] = asked
    OBVIOUS
  <2>2. i \in Known \cup {nextId} /\ i \notin early
    BY <1>2 DEF Known
  <2>3. registered'[i] = IF i = nextId THEN enableRandomAddrMode ELSE registered[i]
    BY <1>2, <2>2
  <2>4. QED
    BY <2>2, <2>3 DEF ModeInv
<1>3. QED
  BY <1>1, <1>2 DEF RegisterCallback

\* Only registrations, the end of the constructor and expiry matter.
LEMMA ModeStep == Inv /\ ModeInv /\ [Next]_vars => ModeInv'
<1> SUFFICES ASSUME Inv, ModeInv, [Next]_vars PROVE ModeInv'
  OBVIOUS
<1> USE DEF manager, locks, host, service, bounds, history
<1>1. ASSUME NEW t \in Threads, InitScannerId(t) PROVE ModeInv'
  <2>1. RegisterCallback /\ UNCHANGED <<obj, asked, enableRandomAddrMode, early>>
    BY <1>1 DEF InitScannerId
  <2>2. QED
    BY <2>1, RegisterKeepsMode DEF ModeInv
<1>2. ASSUME NEW n \in Notifiers, NotifyTurnOn(n) PROVE ModeInv'
  <2>1. UNCHANGED <<obj, asked, enableRandomAddrMode, early>>
    BY <1>2 DEF NotifyTurnOn
  <2>2. CASE RegisterCallback
    BY <2>1, <2>2, RegisterKeepsMode DEF ModeInv
  <2>3. CASE UNCHANGED registered
    BY <2>1, <2>3 DEF ModeInv, Known
  <2>4. QED
    BY <1>2, <2>2, <2>3 DEF NotifyTurnOn, TurnOn
<1>3. ASSUME Construct \/ ConstructTurnOn \/ ConstructEnd PROVE ModeInv'
  BY <1>3 DEF Construct, ConstructTurnOn, ConstructEnd, ModeInv, Known
<1>4. ASSUME Destroy PROVE ModeInv'
  BY <1>4 DEF Destroy, ModeInv, Known
<1>5. ASSUME BleTurnsOff \/ ServiceDies PROVE ModeInv'
  BY <1>5 DEF BleTurnsOff, ServiceDies, Expire, NoneRegistered, ModeInv, Known
<1>6. ASSUME UNCHANGED <<asked, enableRandomAddrMode, registered, early>>,
             obj' = obj \/ DeregisterFunc
      PROVE  ModeInv'
  BY <1>6 DEF DeregisterFunc, ModeInv, Known
<1>7. ASSUME NEW t \in Threads,
             \/ CheckValidScannerId(t) \/ Enter(t) \/ Lock(t) \/ Scan(t)
             \/ ObserverReturns(t) \/ OnScanCallback(t)
             \/ \E op \in {"start", "stop"}, js \in BOOLEAN : ScanCall(t, op, js)
      PROVE  ModeInv'
  BY <1>6, <1>7 DEF CheckValidScannerId, Enter, Lock, Scan, ObserverReturns, OnScanCallback,
     ScanCall
<1>8. ASSUME NEW n \in Notifiers, TurnOff(n) PROVE ModeInv'
  BY <1>6, <1>8 DEF TurnOff
<1>9. ASSUME Deliver \/ BleTurnsOn \/ ServiceStarts \/ DeregisterFunc PROVE ModeInv'
  BY <1>6, <1>9 DEF Deliver, OnReport, OnAddSystemAbility, OnRemoveSystemAbility,
     OnRemoveBluetoothSystemAbility, BleTurnsOn, ServiceStarts, DeregisterFunc
<1>10. CASE UNCHANGED vars
  BY <1>6, <1>10 DEF vars
<1>11. QED
  BY <1>1, <1>2, <1>3, <1>4, <1>5, <1>7, <1>8, <1>9, <1>10
  DEF Next, ThreadStep, NotifierStep, ObjectStep, ServiceStep

\* What a manager registers once it is constructed has the mode its constructor
\* was given.
THEOREM ModeIsHonoured == Spec => []RegisteredAsAsked
<1>1. Init => ModeInv
  BY DEF Init, ModeInv
<1>2. ModeInv => RegisteredAsAsked
  BY DEF ModeInv, RegisteredAsAsked
<1>3. QED
  BY <1>1, <1>2, Invariance, ModeStep, PTL DEF Spec

-----------------------------------------------------------------------------
(* Expired numbers. *)

\* Taking the first element off a queue leaves what is not the first.
LEMMA TailKeeps ==
  ASSUME NEW S, NEW s \in Seq(S), s # <<>>, NEW x, OnItsWay(s, x), Head(s) # x
  PROVE  OnItsWay(Tail(s), x)
<1>1. PICK i \in DOMAIN s : s[i] = x
  BY DEF OnItsWay
<1>2. i \in 2..Len(s) /\ Tail(s)[i - 1] = x /\ i - 1 \in DOMAIN Tail(s)
  BY <1>1
<1>3. QED
  BY <1>2 DEF OnItsWay

\* Putting an element on a queue leaves what is there.
LEMMA AppendKeeps ==
  ASSUME NEW S, NEW s \in Seq(S), NEW y \in S
  PROVE  /\ OnItsWay(Append(s, y), y)
         /\ \A x : OnItsWay(s, x) => OnItsWay(Append(s, y), x)
<1>1. Len(s) + 1 \in DOMAIN Append(s, y) /\ Append(s, y)[Len(s) + 1] = y
  OBVIOUS
<1>2. \A i \in DOMAIN s : i \in DOMAIN Append(s, y) /\ Append(s, y)[i] = s[i]
  OBVIOUS
<1>3. QED
  BY <1>1, <1>2 DEF OnItsWay

\* Why an expired number is going to be reset.
ResetIsComing ==
  \/ OnItsWay(reports, "off") \/ OnItsWay(notices, "remove")
  \/ \E n \in Notifiers : notifier[n] \in {"off", "removed"}

\* A number that needs no reset.
Sound == scannerId \in Known \cup {Invalid} \cup missed

\* Whatever ends a number's life sends something that resets it, and what was
\* sent is lost only by resetting the number or by recording it as missed.
LEMMA ExpiredStep == Inv /\ ExpiredNumberIsReset /\ [Next]_vars => ExpiredNumberIsReset'
<1> SUFFICES ASSUME Inv, ExpiredNumberIsReset, [Next]_vars, Stored'
             PROVE  Sound' \/ ResetIsComing'
  BY DEF ExpiredNumberIsReset, Sound, ResetIsComing
<1> USE DEF manager, locks, host, service, bounds, history
<1>0. \/ Construct
      \/ Sound \/ ResetIsComing
  <2>1. Stored \/ Construct
    BY DEF Stored, Next, ThreadStep, NotifierStep, Deliver, ObjectStep, ServiceStep,
       CheckValidScannerId, Enter, Lock, InitScannerId, Scan, ObserverReturns, OnScanCallback,
       ScanCall, TurnOff, NotifyTurnOn, OnReport, OnAddSystemAbility, OnRemoveSystemAbility,
       OnRemoveBluetoothSystemAbility, ConstructTurnOn, ConstructEnd, DeregisterFunc, Destroy,
       BleTurnsOn, BleTurnsOff, ServiceDies, ServiceStarts, vars
  <2>2. QED
    BY <2>1 DEF ExpiredNumberIsReset, Sound, ResetIsComing
<1>1. ASSUME NEW t \in Threads, CheckValidScannerId(t) PROVE Sound' \/ ResetIsComing'
  BY <1>1, <1>0 DEF CheckValidScannerId, ResetScannerId, Sound, ResetIsComing, Known, Construct
<1>2. ASSUME NEW t \in Threads, InitScannerId(t) PROVE Sound' \/ ResetIsComing'
  BY <1>2 DEF InitScannerId, RegisterCallback, Sound, Known
<1>3. ASSUME NEW t \in Threads,
             \/ Enter(t) \/ Lock(t) \/ Scan(t) \/ ObserverReturns(t) \/ OnScanCallback(t)
             \/ \E op \in {"start", "stop"}, js \in BOOLEAN : ScanCall(t, op, js)
      PROVE  Sound' \/ ResetIsComing'
  <2>1. UNCHANGED <<obj, scannerId, registered, missed, reports, notices, notifier>>
    BY <1>3 DEF Enter, Lock, Scan, ObserverReturns, OnScanCallback, ScanCall
  <2>2. QED
    BY <1>0, <2>1 DEF Construct, Sound, ResetIsComing, OnItsWay, Known
<1>4. ASSUME NEW n \in Notifiers, TurnOff(n) PROVE Sound' \/ ResetIsComing'
  BY <1>4 DEF TurnOff, Sound
<1>5. ASSUME NEW n \in Notifiers, NotifyTurnOn(n) PROVE Sound' \/ ResetIsComing'
  <2>1. CASE scannerId = Invalid
    BY <1>5, <2>1 DEF NotifyTurnOn, TurnOn, RegisterCallback, Sound, Known
  <2>2. CASE scannerId # Invalid
    <3>1. UNCHANGED <<obj, scannerId, registered, missed, reports, notices>>
      BY <1>5, <2>2 DEF NotifyTurnOn, TurnOn
    <3>2. \A m \in Notifiers :
            notifier[m] \in {"off", "removed"} => notifier'[m] = notifier[m]
      BY <1>5 DEF NotifyTurnOn, Unlock, Inv, TypeInv
    <3>3. QED
      BY <1>0, <3>1, <3>2 DEF Construct, Sound, ResetIsComing, OnItsWay, Known
  <2>3. QED
    BY <2>1, <2>2
<1>6. ASSUME OnReport PROVE Sound' \/ ResetIsComing'
  <2>1. /\ UNCHANGED <<obj, scannerId, registered, notices>>
        /\ reports # <<>> /\ reports' = Tail(reports) /\ notifier["observer"] = "idle"
    BY <1>6 DEF OnReport
  <2>2. missed \subseteq missed'
    BY <1>6 DEF OnReport, OnStateChanged
  <2>3. CASE Head(reports) = "off" /\ Intercepted("off")
    BY <1>6, <2>1, <2>3 DEF OnReport, OnStateChanged, Sound, Known, Intercepted
  <2>4. CASE Head(reports) = "off" /\ ~Intercepted("off")
    <3>1. notifier' = [notifier EXCEPT !["observer"] = "off"]
      BY <1>6, <2>1, <2>4 DEF OnReport, OnStateChanged, Notify, Stored
    <3>2. QED
      BY <3>1 DEF Inv, TypeInv, ResetIsComing, Notifiers
  <2>5. CASE Head(reports) # "off"
    <3>1. notifier'["samgr"] = notifier["samgr"]
      BY <1>6, <2>5 DEF OnReport, OnStateChanged, Notify, Inv, TypeInv, Notifiers
    <3>2. OnItsWay(reports, "off") => OnItsWay(reports', "off")
      BY <2>1, <2>5, TailKeeps DEF Inv, TypeInv
    <3>3. QED
      BY <1>0, <2>1, <2>2, <3>1, <3>2
      DEF Construct, Sound, ResetIsComing, OnItsWay, Known, Notifiers
  <2>6. QED
    BY <2>3, <2>4, <2>5
<1>7. ASSUME OnAddSystemAbility PROVE Sound' \/ ResetIsComing'
  <2>1. OnItsWay(notices, "remove") => OnItsWay(notices', "remove")
    BY <1>7, TailKeeps DEF OnAddSystemAbility, Inv, TypeInv
  <2>2. UNCHANGED <<obj, scannerId, registered, missed, reports, notifier>>
    BY <1>7 DEF OnAddSystemAbility
  <2>3. QED
    BY <1>0, <2>1, <2>2 DEF Construct, Sound, ResetIsComing, OnItsWay, Known
<1>8. ASSUME OnRemoveSystemAbility PROVE Sound' \/ ResetIsComing'
  BY <1>8 DEF OnRemoveSystemAbility, Inv, TypeInv, ResetIsComing, Notifiers
<1>9. ASSUME OnRemoveBluetoothSystemAbility PROVE Sound' \/ ResetIsComing'
  <2>1. UNCHANGED <<obj, scannerId>>
    BY <1>9 DEF OnRemoveBluetoothSystemAbility
  <2>2. CASE ~up /\ Intercepted("off")
    BY <1>9, <2>1, <2>2 DEF OnRemoveBluetoothSystemAbility, OnStateChanged, Sound
  <2>3. CASE up \/ ~Intercepted("off")
    <3>1. notifier' = [notifier EXCEPT !["samgr"] = "off"]
      BY <1>9, <2>1, <2>3 DEF OnRemoveBluetoothSystemAbility, OnStateChanged, Notify, Stored
    <3>2. QED
      BY <3>1 DEF Inv, TypeInv, ResetIsComing, Notifiers
  <2>4. QED
    BY <2>2, <2>3
<1>10. ASSUME Construct PROVE Sound' \/ ResetIsComing'
  BY <1>10 DEF Construct, Inv, LifeInv, Sound
<1>11. ASSUME ConstructTurnOn PROVE Sound' \/ ResetIsComing'
  <2>1. CASE scannerId = Invalid
    BY <1>11, <2>1 DEF ConstructTurnOn, TurnOn, RegisterCallback, Sound, Known
  <2>2. CASE scannerId # Invalid
    <3>1. UNCHANGED <<scannerId, registered, missed, reports, notices, notifier>>
      BY <1>11, <2>2 DEF ConstructTurnOn, TurnOn
    <3>2. QED
      BY <1>0, <1>11, <3>1
      DEF ConstructTurnOn, Construct, Sound, ResetIsComing, OnItsWay, Known
  <2>3. QED
    BY <2>1, <2>2
<1>12. ASSUME ConstructEnd \/ BleTurnsOn PROVE Sound' \/ ResetIsComing'
  <2>1. UNCHANGED <<scannerId, registered, missed, notices, notifier>>
    BY <1>12 DEF ConstructEnd, BleTurnsOn
  <2>2. OnItsWay(reports, "off") => OnItsWay(reports', "off")
    <3>1. reports' = reports \/ reports' = Append(reports, "on")
      <4>1. CASE ConstructEnd
        BY <4>1 DEF ConstructEnd
      <4>2. CASE BleTurnsOn
        BY <4>2 DEF BleTurnsOn
      <4>3. QED
        BY <1>12, <4>1, <4>2
    <3>2. OnItsWay(reports, "off") => OnItsWay(Append(reports, "on"), "off")
      BY AppendKeeps DEF Inv, TypeInv
    <3>3. QED
      BY <3>1, <3>2
  <2>3. ~Construct
    BY <1>12 DEF ConstructEnd, BleTurnsOn, Construct
  <2>4. QED
    BY <1>0, <2>1, <2>2, <2>3 DEF Sound, ResetIsComing, OnItsWay, Known
<1>13. ASSUME DeregisterFunc \/ Destroy PROVE FALSE
  BY <1>13 DEF DeregisterFunc, Destroy, Stored
<1>14. ASSUME BleTurnsOff PROVE Sound' \/ ResetIsComing'
  <2>1. CASE reports' = Append(reports, "off")
    BY <2>1, AppendKeeps DEF Inv, TypeInv, ResetIsComing
  <2>2. CASE missed' = missed \cup Known /\ UNCHANGED reports
    <3>1. UNCHANGED <<obj, scannerId, notices, notifier>>
      BY <1>14 DEF BleTurnsOff
    <3>2. QED
      BY <1>0, <2>2, <3>1 DEF Construct, Sound, ResetIsComing, OnItsWay
  <2>3. QED
    BY <1>14, <2>1, <2>2 DEF BleTurnsOff
<1>15. ASSUME ServiceDies PROVE Sound' \/ ResetIsComing'
  BY <1>15, AppendKeeps DEF ServiceDies, Inv, TypeInv, ResetIsComing
<1>16. ASSUME ServiceStarts PROVE Sound' \/ ResetIsComing'
  <2>1. UNCHANGED <<obj, scannerId, registered, missed, reports, notifier>>
    BY <1>16 DEF ServiceStarts
  <2>2. OnItsWay(notices, "remove") => OnItsWay(notices', "remove")
    BY <1>16, AppendKeeps DEF ServiceStarts, Inv, TypeInv
  <2>3. QED
    BY <1>0, <2>1, <2>2 DEF Construct, Sound, ResetIsComing, OnItsWay, Known
<1>17. CASE UNCHANGED vars
  BY <1>0, <1>17 DEF vars, Construct, Sound, ResetIsComing, OnItsWay, Known
<1>18. QED
  BY <1>1, <1>2, <1>3, <1>4, <1>5, <1>6, <1>7, <1>8, <1>9, <1>10, <1>11, <1>12, <1>13,
     <1>14, <1>15, <1>16, <1>17
  DEF Next, ThreadStep, NotifierStep, Deliver, ObjectStep, ServiceStep

\* An expired number is about to be reset, unless its end was not heard of.
THEOREM ExpiredNumbersAreReset == Spec => []ExpiredNumberIsReset
<1>1. Init => ExpiredNumberIsReset
  BY DEF Init, ExpiredNumberIsReset, Stored
<1>2. QED
  BY <1>1, Invariance, ExpiredStep, PTL DEF Spec

=============================================================================
