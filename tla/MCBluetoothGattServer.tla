------------------------ MODULE MCBluetoothGattServer ------------------------
EXTENDS BluetoothGattServer

\* two devices with different addresses, both over LE, whose number is 1
TwoDevices == {<<1, 1>>, <<2, 1>>}
MCServices == {"s1"}
MCHandles == 1 .. 2
MCServiceOf == [h \in MCHandles |-> "s1"]
MCDescriptors == {2}
=============================================================================
