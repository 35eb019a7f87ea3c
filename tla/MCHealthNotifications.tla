--------------------------- MODULE MCHealthNotifications ---------------------------
(* One scope with two slots of recent states. *)
EXTENDS HealthNotifications, TLC

CONSTANTS w1, w2

\* Every health once, and two unknown results: enough of them to fill the slots.
MCResults ==
  [health : Healths, detail : {"any"}] \cup {[health |-> "UNKNOWN", detail |-> "blocked"]}

\* Two small instances in one run, told apart by what a behaviour has used so far: three
\* results of any health, whose alerts two troubles disturb; four results, of which none is
\* UNKNOWN, so that an incident opens, gets worse, falls silent and fails again.
Three ==
  /\ DOMAIN results \subseteq 1 .. 3
  /\ \A n \in DOMAIN results : results[n].health # "DEGRADED"

FourDecisive ==
  /\ \A n \in DOMAIN results : results[n].health # "UNKNOWN"
  /\ Claims <= 2 /\ troubles = 0

OneInstance == Three \/ FourDecisive

\* Workers are interchangeable.
Symmetry == Permutations(Workers)
================================================================================
