-------------------------- MODULE MCOhosBtGattAdv --------------------------
EXTENDS OhosBtGattAdv

FirstAndLast == {1, MaxStarts}

=============================================================================
