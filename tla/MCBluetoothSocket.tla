------------------------- MODULE MCBluetoothSocket -------------------------
EXTENDS BluetoothSocket

OneServer == {"s1"}

ThreeClients == {"c1", "c2", "c3"}

TwoThreads == {"t1", "t2"}

=============================================================================
