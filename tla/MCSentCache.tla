---------------------------- MODULE MCSentCache ----------------------------
(* Instances of SentCache for TLC: as many traces as a filter holds, against an
   LRU and a queue of one. *)
EXTENDS SentCache

CONSTANTS x, y
=============================================================================
