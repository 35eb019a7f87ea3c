---------------------------- MODULE SyncReconciliation ----------------------------
(***************************************************************************)
(* How the control server answers one entry of a sync request, and how an  *)
(* installation compares the answer with its own binding: the kernels of    *)
(* packages/server/sync/src/reconciliation.ts and                           *)
(* packages/bridge-core/src/sync/reconciliation.js for bindings.            *)
(*                                                                          *)
(* A binding is [rev, id, store, fin]: its revision, the identity it keeps  *)
(* from Start to Start, the chosen store, and whether Work on it finished.  *)
(* Delivery markers and the preferred installation they elect are metadata  *)
(* of the state and are left out: no answer depends on them.                *)
(***************************************************************************)
EXTENDS Naturals

CONSTANT None

Explicit == {"BINDING_UPSERT", "FINISH"}
Kinds == Explicit \cup {"DELIVERY_MARKER"}

\* applyReconciliationEntry: a marker is acknowledged and changes no revision;
\* the state as it is, is acknowledged again; anything else must be newer than
\* the state and made on its current revision.
Refused(state, revision, entry) ==
  /\ entry.kind \in Explicit
  /\ state # None
  /\ entry.content # state
  /\ \/ entry.base # revision
     \/ entry.content.rev <= state.rev

Accepted(state, revision, entry) ==
  /\ entry.kind \in Explicit
  /\ entry.content # state
  /\ ~Refused(state, revision, entry)

Answer(state, revision, entry) ==
  IF Accepted(state, revision, entry)
  THEN [outcome |-> "ACK", rev |-> revision + 1, state |-> entry.content]
  ELSE [outcome |-> IF Refused(state, revision, entry) THEN "CONFLICT" ELSE "ACK",
        rev |-> revision, state |-> state]

\* explicitConflict, with the store and the identity of the binding
OtherBinding(local, state) == local.id # state.id \/ local.store # state.store

\* classifyComparison of a snapshot with the binding of the page that reads it.
\* The binding is compared as BOUND, with the generation of its Work; explicit
\* entries are recorded without one, so a binding with Work never equals the state.
SnapshotFences(local, hasWork, state) ==
  /\ state # None
  /\ local # None
  /\ hasWork \/ local # state
  /\ OtherBinding(local, state) \/ state.rev <= local.rev
==================================================================================
