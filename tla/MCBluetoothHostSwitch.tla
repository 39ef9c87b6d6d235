------------------------ MODULE MCBluetoothHostSwitch ------------------------
EXTENDS BluetoothHostSwitch
=============================================================================
