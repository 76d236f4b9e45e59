------------------------------ MODULE MCRouter ------------------------------
(* Two nodes; a span and an event without a trace in one request, another    *)
(* span of the same trace in a second one; one POST may be sent twice.       *)
EXTENDS Router

CONSTANTS n1, n2, t, a1, a2, a3, b, r1, r2, k1, k2, sk

MCBody == [r \in {r1, r2} |-> IF r = r1 THEN <<a2, a1>> ELSE <<a3>>]
MCForms == [r \in {r1, r2} |->
              IF r = r1 THEN {<<"batch", k1>>}
              ELSE {<<"event", k2>>, <<"otlp", k1>>, <<"otlpGrpc", Blank>>, <<"logs", k2>>}]
MCTraceOf == [e \in {a1, a2, a3, b} |-> IF e = a2 THEN NoTrace ELSE t]

\* With two peers, two partitions of each count and n2 owns the trace; with one
\* or three partitions of each it would be n1.
MCHash == [tr \in {t} |-> [n \in {n1, n2} |-> IF n = n1 THEN <<5, 2, 8>> ELSE <<3, 7, 1>>]]

\* The listed key k1 becomes sk; or every key becomes k2, a legacy key.  Only k1
\* and the replacement are accepted: a client without a key gets in through gRPC,
\* where the key is replaced first.
MCAccessKeys == {[receive |-> {k1}, send |-> sk, mode |-> "listedonly", listedOnly |-> TRUE],
                 [receive |-> {k1}, send |-> k2, mode |-> "all", listedOnly |-> TRUE]}
=============================================================================
