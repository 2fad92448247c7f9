------------------------------- MODULE MCTcp -------------------------------
EXTENDS Tcp

MCIss   == [h \in Hosts |-> IF h = Client THEN 14 ELSE 2]
MCOffer == [h \in Hosts |-> IF h = Client THEN 2 ELSE 0]
============================================================================
