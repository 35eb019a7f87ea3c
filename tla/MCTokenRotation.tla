---------------------------- MODULE MCTokenRotation ----------------------------
(* Small instances of TokenRotation for TLC. *)
EXTENDS TokenRotation

CONSTANTS s1, s2, t1, t2, t3, t4, k1, k2, k3

\* Once the client has signed in again, the clock stands still and there are two rotations.
SecondIsShort ==
  (\A s \in Sessions : session[s] # "none") =>
    /\ Cardinality({k \in Keys : drawn[k] # None}) <= 2
    /\ \A t \in Tokens : token[t] # None => token[t].age = IF token[t].key = None THEN "late" ELSE "new"

\* The generation changes under a token only when the worker starts again.
OnlyAwakening ==
  disk.token # None /\ disk'.token = disk.token /\ disk'.generation # disk.generation => ~ awake
================================================================================
