------------------------------- MODULE MCWsHub -------------------------------
EXTENDS WsHub, TLC

CONSTANTS c1, c2

\* One peer may stall, the other may break.
OneOfEachSpec ==
  Init /\ [][Next /\ conn'[c1] # "stalled" /\ conn'[c2] # "broken"]_vars /\ Fairness
=============================================================================
