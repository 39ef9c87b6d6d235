----------------------- MODULE MCBluetoothSwitchModule -----------------------
(***************************************************************************)
(* TLC instances of the switch module.  Four calls are the least with      *)
(* which a replay is overtaken, cached again behind a newer request and    *)
(* replayed a second time.                                                 *)
(***************************************************************************)
EXTENDS BluetoothSwitchModule
=============================================================================
