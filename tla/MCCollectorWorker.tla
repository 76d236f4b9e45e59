------------------------- MODULE MCCollectorWorker -------------------------
(* Instances of CollectorWorker for TLC: two traces, one of them with a root. *)
EXTENDS CollectorWorker

CONSTANTS t1, t2, a1, a2, b1

MCTraceID == {t1, t2}
MCSpan == {a1, a2, b1}
MCTraceOf == [s \in MCSpan |-> IF s = b1 THEN t2 ELSE t1]
MCRoot == {a2}
MCStressKeep == {t2}
=============================================================================
