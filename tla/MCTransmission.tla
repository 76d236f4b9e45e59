--------------------------- MODULE MCTransmission ---------------------------
EXTENDS Transmission

CONSTANTS e1, e2, e3, upstream, peer

MCEvent  == {e1, e2, e3}
MCHost   == {upstream, peer}
MCHostOf == [e \in MCEvent |-> upstream]
\* e3 is too large to be sent; e1 and e2 do not fit into one request
MCSize   == [e \in MCEvent |-> IF e = e3 THEN 4 ELSE 2]
=============================================================================
