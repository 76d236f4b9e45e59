------------------------------ MODULE MCProbes ------------------------------
EXTENDS Probes, TLC

CONSTANTS collector, redis

MCSubsystem == {collector, redis}
MCTimeout == (collector :> 3) @@ (redis :> 2)
=============================================================================
