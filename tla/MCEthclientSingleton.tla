------------------------ MODULE MCEthclientSingleton ------------------------
EXTENDS EthclientSingleton

CONSTANTS p1, p2, p3

MCCallers == {p1, p2, p3}
=============================================================================
