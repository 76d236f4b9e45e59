----------------------- MODULE MCCollectorLifecycle -----------------------
(* CollectorLifecycle with two workers. *)
EXTENDS CollectorLifecycle
=============================================================================
