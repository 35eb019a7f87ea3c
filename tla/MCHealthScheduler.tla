--------------------------- MODULE MCHealthScheduler ---------------------------
(* Small instances of HealthScheduler for TLC. *)
EXTENDS HealthScheduler, TLC

CONSTANTS w1, w2, deep, open

\* Processes are interchangeable: safety runs are checked up to their renaming.
Symmetry == Permutations(Workers)

\* A deep slot and one without a session, each in behaviours of its own: as long as both are
\* there no cycle has begun.  The slot without a session is left in its third attempt.
OneSlot ==
  /\ (\E s \in Slots : run[s].state = "SKIPPED") \/ (past = {} /\ \A w \in Workers : worker[w] = Idle)
  /\ run[open].state = "SKIPPED" \/ run[open].attempt < 3
=============================================================================
