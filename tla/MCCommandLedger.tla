--------------------------- MODULE MCCommandLedger ---------------------------
(* Small instances of CommandLedger for TLC. *)
EXTENDS CommandLedger, TLC

CONSTANTS a1, a2, e1, e2, e3, k1, k2, k3, x1, x2, x3, b1, b2, v1, v2, c1, c2

\* Every block is a message of its own, or both are blocks of one message.
SeparateMessages == [b \in Blocks |-> b]
OneMessage       == [b \in Blocks |-> "message"]

\* Ids are interchangeable: safety runs are checked up to their renaming.
Symmetry ==
  Permutations(Executions) \cup Permutations(Confirmations)
    \cup Permutations(Deliveries) \cup Permutations(Callers)
    \cup Permutations(Versions)

\* Three small instances in one run, told apart by what a behaviour has used so far: one
\* report copied up to three times, twice if the account changes; two reports, the first
\* retired by a later Work; groups of two items without reports, retried within their Work.
\* A behaviour goes on as long as one of the three admits it.
Many(ids, n) == Cardinality(used \cap ids) > n
Grouped == \E e \in DOMAIN data.receipts : \E o \in Ordinals \ {0} : data.receipts[e].items[o] # "ABSENT"

OneReport ==
  /\ ~ Grouped /\ ~ Many(Executions, 1)
  /\ live.account = a1 \/ ~ Many(Deliveries, 2)

TwoReports == ~ Grouped /\ ~ Many(Confirmations, 1) /\ ~ Many(Deliveries, 2) /\ expired = {}

Groups ==
  /\ ~ Many(Deliveries, 0) /\ expired = {} /\ live.account = a1
  /\ ~ Many(Confirmations, 0) \/ (~ Many(Confirmations, 1) /\ live.work = 1)

OneInstance == OneReport \/ TwoReports \/ Groups
=============================================================================
