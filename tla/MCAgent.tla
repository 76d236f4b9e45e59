------------------------------ MODULE MCAgent ------------------------------
(* One signal, and five remote configurations: two valid ones, the second of  *)
(* rules alone, an invalid one, one without a hash, and one without a known   *)
(* part.                                                                      *)
EXTENDS Agent

CONSTANTS traces, h1, h2, h3, h4

MCRemoteConfig ==
  { [hash |-> h1, parts |-> Part, valid |-> TRUE],
    [hash |-> h2, parts |-> {"rules"}, valid |-> TRUE],
    [hash |-> h3, parts |-> {"config"}, valid |-> FALSE],
    [hash |-> NoHash, parts |-> {"rules"}, valid |-> TRUE],
    [hash |-> h4, parts |-> {}, valid |-> TRUE] }
=============================================================================
