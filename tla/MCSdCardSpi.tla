---------------------------- MODULE MCSdCardSpi ----------------------------
EXTENDS SdCardSpi

MCContent == [b \in BlockIdx |-> b]
MCOther == [b \in BlockIdx |-> 10 + b]
OneAndTwo == {<<20>>, <<21, 22>>}
=============================================================================
