-------------------- MODULE MCBluetoothBleCentralManager --------------------
EXTENDS BluetoothBleCentralManager

CONSTANTS t1, t2
TwoThreads == {t1, t2}
OtherMode == {FALSE}      \* not the default of enableRandomAddrMode_
=============================================================================
