---------------------------- MODULE MCMembership ----------------------------
\* Instances for TLC: a restarted instance (b2) has the address of b.
EXTENDS Membership

MCAddrOf == [i \in Id |-> IF i = "b2" THEN "b" ELSE i]
=============================================================================
