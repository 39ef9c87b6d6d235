---------------------- MODULE MCBluetoothBleAdvertiser ----------------------
EXTENDS BluetoothBleAdvertiser, TLC

\* Threads and callbacks are interchangeable, and only invariants are checked.
Symmetry == Permutations(Threads) \cup Permutations(Callbacks)

=============================================================================
