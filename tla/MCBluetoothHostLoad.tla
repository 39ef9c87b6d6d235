------------------------- MODULE MCBluetoothHostLoad -------------------------
EXTENDS BluetoothHostLoad

CONSTANTS host, c1, sa, nobody
MCObjectNames == {host}
OneClient == {c1}
=============================================================================
