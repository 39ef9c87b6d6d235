---------------------- MODULE MCBluetoothProfileManager ----------------------
EXTENDS BluetoothProfileManager, TLC

CONSTANTS host, gatt, c1, c2, sa, nobody
MCObjectNames == {host, gatt}
OneClient == {c1}
TwoClients == {c1, c2}
ClientSymmetry == Permutations(TwoClients)
=============================================================================
