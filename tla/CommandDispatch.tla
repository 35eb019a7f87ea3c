---------------------------- MODULE CommandDispatch ----------------------------
(***************************************************************************)
(* What the command ledger promises about marketplace requests, without    *)
(* receipts, approvals, workers, restarts or compaction: inside a Work a   *)
(* block's command is admitted once per text; after that it is admitted    *)
(* again only as a retry, and the retries of a block follow one another;   *)
(* an item of what was admitted is requested at most once                  *)
(* (docs/development/ACCEPTANCE_MATRIX.md: no hidden replay on a reload, a *)
(* worker restart or a double click).                                      *)
(***************************************************************************)
EXTENDS Naturals

CONSTANTS Executions, Ordinals, None

VARIABLES
  issued,  \* what was admitted: the command and the Work of every execution
  calls    \* the requests made of every item of every execution

dispatched == <<issued, calls>>

Items == Executions \X Ordinals

SameBlock(s, t) == s.work = t.work /\ s.key.origin = t.key.origin

\* Execution e is admitted, as what it is recorded to be.
Admit(e) ==
  /\ e \in Executions \ DOMAIN issued
  /\ DOMAIN issued' = DOMAIN issued \cup {e}
  /\ \A f \in DOMAIN issued : issued'[f] = issued[f]
  /\ UNCHANGED calls

\* A click on a text of the block that this Work has not admitted.
Click(e) ==
  /\ Admit(e)
  /\ issued'[e].key.revision = 0
  /\ \A f \in DOMAIN issued : issued[f] # issued'[e]

\* A retry of something this Work has admitted, later than all of its retries.
Retry(e) ==
  LET block == {f \in DOMAIN issued : SameBlock(issued[f], issued'[e])}
  IN  /\ Admit(e)
      /\ block # {}
      /\ \A f \in block : issued[f].key.revision < issued'[e].key.revision

\* One request for some items of an admitted execution, none of them requested before.
Request(e) ==
  /\ e \in DOMAIN issued
  /\ \E group \in SUBSET Items :
       /\ \A s \in group : s[1] = e /\ calls[s] = 0
       /\ calls' = [s \in Items |-> IF s \in group THEN 1 ELSE calls[s]]
  /\ UNCHANGED issued

Init ==
  /\ issued = [e \in {} |-> None]
  /\ calls = [s \in Items |-> 0]

Next == \E e \in Executions : Click(e) \/ Retry(e) \/ Request(e)

Spec == Init /\ [][Next]_dispatched
================================================================================
