------------------------ MODULE MCBluetoothGattClient ------------------------
EXTENDS BluetoothGattClient

CONSTANTS c1, c2
TwoClients == {c1, c2}
OneGetter == {c1}

\* what follows a call back into the client is not explored: nothing ends the
\* wait for one's own mutex, and CallsReturn says nothing of it
NotSelfBlocked == ~SelfBlocked
=============================================================================
