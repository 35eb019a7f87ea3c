------------------------------- MODULE SyncJournal -------------------------------
(***************************************************************************)
(* Sync of the binding of conversations between the installations of one    *)
(* account: the journal every extension keeps                               *)
(* (apps/extension/src/application/sync-journal.js), the network, and the   *)
(* receipts and entities of the control server                              *)
(* (packages/server/sync/src/index.ts, packages/server/db/src/              *)
(* sync-repository.ts).                                                     *)
(*                                                                          *)
(* An installation records explicit changes and delivery markers, sends     *)
(* what is due in one request, and applies the whole answer in one write.   *)
(* The server applies the entries of a request one by one, each in its own  *)
(* transaction, so a request may stop half way, outlive its sender, and     *)
(* overlap the one that repeats it.                                         *)
(***************************************************************************)
EXTENDS SyncReconciliation, Integers, FiniteSets, Sequences, FiniteSetsExt

CONSTANTS
  Device,        \* installations of the account
  Conversation,
  Shop,          \* stores a conversation can be bound to
  MaxEntries,    \* MAX_ENTRIES of a journal
  MaxBatch,      \* MAX_BATCH of a request
  MaxChanges,    \* bound: entries the installations ever record
  MaxFaults,     \* bound: answers lost and workers stopped
  MaxReads,      \* bound: snapshots read
  MaxRevoked     \* bound: installations revoked

VARIABLES
  binding,   \* the binding every installation keeps of a conversation
  work,      \* whether Work was never started there, is on, or is over
  journal,   \* entries of every installation
  known,     \* serverRevisions
  truth,     \* serverStates
  verdict,   \* reconciliation: whether it fences actions, and its serverState
  flight,    \* syncFlight: the batch chosen or sent, in worker memory
  snapshot,  \* the snapshot read that waits to be applied, in worker memory
  server,    \* sync_entities
  receipts,  \* sync_request_receipts
  active,    \* installations whose session and device are ACTIVE
  requests,  \* requests the server works on or has answered
  accepted,  \* history: the changes a conversation took, in order
  recorded,  \* history: the entries every installation recorded
  faults, reads

local == <<binding, work>>
belief == <<known, truth, verdict>>
client == <<journal, recorded, belief>>
memory == <<flight, snapshot>>
backend == <<server, receipts, active, accepted>>
vars == <<local, client, memory, backend, requests, faults, reads>>

Waiting == {"PENDING", "RETRY_WAIT"}
Idle == [phase |-> "idle", batch |-> {}]

Contents == [rev: Nat, id: Device, store: Shop, fin: BOOLEAN]
Wires == [seq: Nat, ent: Conversation, kind: Kinds, base: Nat, content: Contents]

ASSUME NoBindingIsNone == None \notin Contents
ASSUME JournalBounds == MaxEntries \in Nat /\ MaxBatch \in Nat \ {0}

\* wireEntry: what of an entry is sent, and what its fingerprint covers
Wire(x) == [seq |-> x.seq, ent |-> x.ent, kind |-> x.kind,
            base |-> x.base, content |-> x.content]

Before(S, x) == {y \in S : y.seq < x.seq}
Older(S, n) == {x \in S : Cardinality(Before(S, x)) < n}
InOrder(S) == [i \in 1 .. Cardinality(S) |-> CHOOSE x \in S : Cardinality(Before(S, x)) = i - 1]

--------------------------------------------------------------------------------
\* Recording

\* compact: of the waiting entries of a conversation the latest of each kind
\* stays, and no marker older than a waiting explicit change.
Superseded(entries, e) ==
  LET waiting == {x \in entries : x.ent = e /\ x.status \in Waiting}
  IN {x \in waiting : \E y \in waiting :
        y.seq > x.seq /\ (y.kind = x.kind \/ (x.kind = "DELIVERY_MARKER" /\ y.kind \in Explicit))}

\* Above its limit the journal gives up the oldest entries that are not in flight
\* and not in conflict, of any conversation, even the one just added.
Compacted(entries, e) ==
  LET kept == entries \ Superseded(entries, e)
      removable == {x \in kept : x.status \in Waiting \cup {"FAILED"}}
      excess == IF Cardinality(kept) > MaxEntries THEN Cardinality(kept) - MaxEntries ELSE 0
  IN kept \ Older(removable, excess)

NewEntry(d, e, kind, content) ==
  [seq |-> Len(recorded[d]) + 1, ent |-> e, kind |-> kind, base |-> known[d][e],
   content |-> content, status |-> "PENDING"]

\* record: entryFor, compact and the write, or SYNC_JOURNAL_FULL and no write
Record(d, e, kind, content) ==
  LET entry == NewEntry(d, e, kind, content)
      next == Compacted(journal[d] \cup {entry}, e)
  IN /\ MapThenSumSet(LAMBDA c : Len(recorded[c]), Device) < MaxChanges
     /\ IF Cardinality(next) <= MaxEntries
        THEN /\ journal' = [journal EXCEPT ![d] = next]
             /\ recorded' = [recorded EXCEPT ![d] = Append(@, entry)]
        ELSE UNCHANGED <<journal, recorded>>
     /\ UNCHANGED belief

\* Start binds the conversation anew: the identity of an earlier binding stays.
Bind(d, e, s) ==
  LET old == binding[d][e]
      new == [rev |-> IF old = None THEN 1 ELSE old.rev + 1,
              id |-> IF old = None THEN d ELSE old.id, store |-> s, fin |-> FALSE]
  IN /\ new.rev <= MaxChanges
     /\ binding' = [binding EXCEPT ![d][e] = new]
     /\ work' = [work EXCEPT ![d][e] = "on"]
     /\ Record(d, e, "BINDING_UPSERT", new)
     /\ UNCHANGED <<memory, backend, requests, faults, reads>>

\* Finish is recorded one revision ahead of the binding, which it leaves as it is.
Finish(d, e) ==
  /\ work[d][e] = "on"
  /\ work' = [work EXCEPT ![d][e] = "over"]
  /\ Record(d, e, "FINISH", [binding[d][e] EXCEPT !.rev = @ + 1, !.fin = TRUE])
  /\ UNCHANGED <<binding, memory, backend, requests, faults, reads>>

\* The last delivered report leaves a marker.
Deliver(d, e) ==
  /\ work[d][e] = "on"
  /\ Record(d, e, "DELIVERY_MARKER", binding[d][e])
  /\ UNCHANGED <<local, memory, backend, requests, faults, reads>>

--------------------------------------------------------------------------------
\* Sending: syncNow. The batch is chosen from the journal as read, then marked in
\* a write of its own: what is recorded in between may compact a chosen entry away.

\* Mutant: what waits for its retry is never due again.
SelectOnce(d) ==
  /\ flight[d].phase = "idle"
  /\ LET due == {x \in journal[d] : x.status = "PENDING"}
     IN /\ due # {}
        /\ flight' = [flight EXCEPT ![d] = [phase |-> "chosen", batch |-> Older(due, MaxBatch)]]
  /\ UNCHANGED <<local, client, snapshot, backend, requests, faults, reads>>

Select(d) ==
  /\ flight[d].phase = "idle"
  /\ \E late \in SUBSET {x \in journal[d] : x.status = "RETRY_WAIT"} :
       LET due == {x \in journal[d] : x.status \in Waiting} \ late
       IN /\ due # {}
          /\ flight' = [flight EXCEPT ![d] = [phase |-> "chosen", batch |-> Older(due, MaxBatch)]]
  /\ UNCHANGED <<local, client, snapshot, backend, requests, faults, reads>>

Marked(entries, batch, status) ==
  {IF \E y \in batch : y.seq = x.seq THEN [x EXCEPT !.status = status] ELSE x : x \in entries}

\* What is sent is the batch as it was read.
Send(d) ==
  /\ flight[d].phase = "chosen"
  /\ journal' = [journal EXCEPT ![d] = Marked(@, flight[d].batch, "IN_FLIGHT")]
  /\ flight' = [flight EXCEPT ![d].phase = "sent"]
  /\ requests' = requests \cup
       {[dev |-> d, waited |-> TRUE, failed |-> FALSE, results |-> {},
         todo |-> [i \in 1 .. Cardinality(flight[d].batch) |-> Wire(InOrder(flight[d].batch)[i])]]}
  /\ UNCHANGED <<local, recorded, belief, snapshot, backend, faults, reads>>

--------------------------------------------------------------------------------
\* The server: SyncService.apply, one transaction of the repository per entry

\* A request nobody waits for any more is over with its last entry.
Replace(r, next) ==
  requests' = (requests \ {r}) \cup
    (IF next.waited THEN {next}
     ELSE IF next.todo = <<>> THEN {} ELSE {[next EXCEPT !.results = {}]})

\* Mutant: the authority is checked when the request comes in, not for every entry.
AuthorizedOnce(r) == r.dev \in active \/ r.results # {}

\* Every transaction reads the session and the device again.
Authorized(r) == r.dev \in active

\* What the response says of an entry.
Row(n, answer) == [seq |-> n, outcome |-> answer.outcome, rev |-> answer.rev, state |-> answer.state]

Receipts(r, x) == {y \in receipts : y.dev = r.dev /\ y.wire.seq = x.seq}

\* 401 of a revoked installation, or a request id already used for another entry:
\* an exception ends the request, what was applied before it stays.
ServeRefused(r) ==
  /\ r.todo # <<>>
  /\ \/ ~Authorized(r)
     \/ \E y \in Receipts(r, Head(r.todo)) : y.wire # Head(r.todo)
  /\ Replace(r, [r EXCEPT !.todo = <<>>, !.failed = TRUE])
  /\ UNCHANGED <<local, client, memory, backend, faults, reads>>

\* A repeated entry gets the answer that was stored for it.
ServeRepeated(r) ==
  /\ r.todo # <<>>
  /\ Authorized(r)
  /\ \E y \in Receipts(r, Head(r.todo)) :
       /\ y.wire = Head(r.todo)
       /\ Replace(r, [r EXCEPT !.todo = Tail(@),
                               !.results = @ \cup {Row(y.wire.seq, y.answer)}])
  /\ UNCHANGED <<local, client, memory, backend, faults, reads>>

\* The route has parsed every entry before the first is applied.
ServeNew(r) ==
  /\ r.todo # <<>>
  /\ Authorized(r)
  /\ LET x == Head(r.todo)
         row == server[x.ent]
         answer == Answer(row.state, row.rev, x)
     IN /\ x \in Wires
        /\ Receipts(r, x) = {}
        /\ server' = [server EXCEPT ![x.ent] = [rev |-> answer.rev, state |-> answer.state]]
        /\ receipts' = receipts \cup {[dev |-> r.dev, wire |-> x, answer |-> answer]}
        /\ accepted' = IF Accepted(row.state, row.rev, x)
                       THEN [accepted EXCEPT ![x.ent] = Append(@, [dev |-> r.dev, seq |-> x.seq, content |-> x.content])]
                       ELSE accepted
        /\ Replace(r, [r EXCEPT !.todo = Tail(@), !.results = @ \cup {Row(x.seq, answer)}])
  /\ UNCHANGED <<local, client, memory, active, faults, reads>>

Serve(d) == \E r \in requests : r.dev = d /\ (ServeRefused(r) \/ ServeRepeated(r) \/ ServeNew(r))

--------------------------------------------------------------------------------
\* The answer: applied to the journal in one write

Projection(d) == [entries |-> journal[d], known |-> known[d], truth |-> truth[d],
                  verdict |-> verdict[d]]

Live(entries, n) == CHOOSE x \in entries : x.seq = n

\* Mutant: an acknowledgement settles every entry of its conversation.
RebasedAway(entries, live, revision) == {x \in entries : x.ent # live.ent}

\* The change of a later entry was made while this one was under way: it is now
\* one that was made on the revision this one got.
Rebased(entries, live, revision) ==
  {IF /\ x.ent = live.ent /\ x.seq > live.seq
      /\ x.status \in Waiting /\ x.base <= revision
   THEN [x EXCEPT !.base = revision] ELSE x : x \in entries \ {live}}

\* Delivery markers never replace a state that is newer, or finished.
StaleDelivery(p, live, row) ==
  /\ live.kind = "DELIVERY_MARKER"
  /\ \/ \E x \in p.entries : x.ent = live.ent /\ x.seq > live.seq /\ x.kind \in Explicit
     \/ /\ row.state # None
        /\ p.truth[live.ent] # None
        /\ \/ row.state # p.truth[live.ent]
           \/ p.truth[live.ent].fin

\* Mutant: what was sent is taken for the state of the server.
AcknowledgeAsSent(p, live, row) ==
  [p EXCEPT !.entries = Rebased(@, live, row.rev),
            !.known[live.ent] = row.rev,
            !.truth[live.ent] = live.content,
            !.verdict[live.ent] = [fences |-> FALSE, state |-> row.state]]

Acknowledge(p, live, row) ==
  LET e == live.ent
      stale == StaleDelivery(p, live, row)
      plain(state) == [fences |-> FALSE, state |-> state]
  IN [entries |-> Rebased(p.entries, live, row.rev),
      known |-> [p.known EXCEPT ![e] = row.rev],
      truth |-> IF row.state # None /\ ~stale THEN [p.truth EXCEPT ![e] = row.state] ELSE p.truth,
      verdict |-> IF ~stale THEN [p.verdict EXCEPT ![e] = plain(row.state)] ELSE p.verdict]

Conflict(p, live, row) ==
  [p EXCEPT !.entries = (@ \ {live}) \cup {[live EXCEPT !.status = "CONFLICT"]},
            !.verdict[live.ent] = [fences |-> TRUE, state |-> row.state]]

\* SYNC_STALE_REPLY_SUPERSEDED
Outdated(p, live) ==
  [p EXCEPT !.entries = (@ \ {live}) \cup {[live EXCEPT !.status = "CONFLICT"]}]

\* Mutant: the revision of an answer is not compared with the one known.
ApplyRowInOrder(row, p) ==
  LET live == Live(p.entries, row.seq)
  IN IF row.outcome = "ACK" THEN Acknowledge(p, live, row) ELSE Conflict(p, live, row)

ApplyRow(row, p) ==
  LET live == Live(p.entries, row.seq)
  IN IF row.rev < p.known[live.ent] THEN Outdated(p, live)
     ELSE IF row.outcome = "ACK" THEN Acknowledge(p, live, row)
     ELSE Conflict(p, live, row)

\* The rows of an answer, one after the other.
Applied(rows, p) ==
  LET after[n \in 0 .. Len(rows)] == IF n = 0 THEN p ELSE ApplyRow(rows[n], after[n - 1])
  IN after[Len(rows)]

\* The whole response is validated before any of it is applied.
Valid(d, r) ==
  /\ ~r.failed
  /\ \A row \in r.results : \E x \in journal[d] :
       x.seq = row.seq /\ (row.outcome = "ACK" => row.rev >= x.base)

Answered(d, r) ==
  /\ flight[d].phase = "sent"
  /\ r.dev = d /\ r.waited
  /\ r.todo = <<>>
  /\ flight' = [flight EXCEPT ![d] = Idle]
  /\ requests' = requests \ {r}

ApplyAnswer(d) ==
  \E r \in requests :
    /\ Answered(d, r)
    /\ Valid(d, r)
    /\ LET p == Applied(InOrder(r.results), Projection(d))
       IN /\ journal' = [journal EXCEPT ![d] = p.entries]
          /\ known' = [known EXCEPT ![d] = p.known]
          /\ truth' = [truth EXCEPT ![d] = p.truth]
          /\ verdict' = [verdict EXCEPT ![d] = p.verdict]
    /\ UNCHANGED <<local, recorded, snapshot, backend, faults, reads>>

\* An error that is not worth repeating fails the whole batch for good.
FailBatch(d) ==
  \E r \in requests :
    /\ Answered(d, r)
    /\ ~Valid(d, r)
    /\ journal' = [journal EXCEPT ![d] = Marked(@, flight[d].batch, "FAILED")]
    /\ UNCHANGED <<local, recorded, belief, snapshot, backend, faults, reads>>

\* A timeout, a lost answer, 5xx, or an identity that changed meanwhile. The server
\* may still work on the request.
Forgotten(d) ==
  {[r EXCEPT !.waited = FALSE, !.results = {}] : r \in {x \in requests : x.dev = d /\ x.todo # <<>>}}
    \cup {r \in requests : r.dev # d}

LoseAnswer(d) ==
  /\ flight[d].phase = "sent"
  /\ faults < MaxFaults
  /\ faults' = faults + 1
  /\ journal' = [journal EXCEPT ![d] = Marked(@, flight[d].batch, "RETRY_WAIT")]
  /\ flight' = [flight EXCEPT ![d] = Idle]
  /\ requests' \in {Forgotten(d), {r \in requests : r.dev # d}}
  /\ UNCHANGED <<local, recorded, belief, snapshot, backend, reads>>

\* Mutant: entries in flight stay so when their worker is gone.
RecoveredNever(entries) == entries

\* The first read of a worker returns entries in flight to RETRY_WAIT.
Recovered(entries) ==
  {IF x.status = "IN_FLIGHT" THEN [x EXCEPT !.status = "RETRY_WAIT"] ELSE x : x \in entries}

\* The worker stops, and another one starts.
Restart(d) ==
  /\ faults < MaxFaults
  /\ faults' = faults + 1
  /\ flight[d] # Idle \/ snapshot[d] # None
  /\ flight' = [flight EXCEPT ![d] = Idle]
  /\ snapshot' = [snapshot EXCEPT ![d] = None]
  /\ journal' = [journal EXCEPT ![d] = Recovered(@)]
  /\ requests' \in {Forgotten(d), {r \in requests : r.dev # d}}
  /\ UNCHANGED <<local, recorded, belief, backend, reads>>

Revoke(d) ==
  /\ d \in active
  /\ Cardinality(Device \ active) < MaxRevoked
  /\ active' = active \ {d}
  /\ UNCHANGED <<local, client, memory, server, receipts, accepted, requests, faults, reads>>

--------------------------------------------------------------------------------
\* Snapshots: syncConversationSnapshot of the popup

\* The intent is taken and the server read: a change between the two is refused like
\* one between the read and its application.
ReadSnapshot(d, e) ==
  /\ snapshot[d] = None
  /\ d \in active
  /\ reads < MaxReads
  /\ reads' = reads + 1
  /\ snapshot' = [snapshot EXCEPT ![d] =
       [ent |-> e, sequence |-> Len(recorded[d]), local |-> binding[d][e],
        work |-> work[d][e] # "none", rev |-> server[e].rev, state |-> server[e].state]]
  /\ UNCHANGED <<local, client, flight, backend, requests, faults>>

\* latestExplicitEntry: unresolved explicit entries, in whatever status
Unresolved(d, e) == {x \in journal[d] : x.ent = e /\ x.kind \in Explicit}

SnapshotStale(d, s) ==
  \/ \E x \in Unresolved(d, s.ent) : x.seq > s.sequence
  \/ \E x \in Unresolved(d, s.ent) :
       (\A y \in Unresolved(d, s.ent) : y.seq <= x.seq) /\ s.rev <= x.base
  \/ s.rev < known[d][s.ent]

DropSnapshot(d) ==
  /\ snapshot[d] # None
  /\ SnapshotStale(d, snapshot[d])
  /\ snapshot' = [snapshot EXCEPT ![d] = None]
  /\ UNCHANGED <<local, client, flight, backend, requests, faults, reads>>

\* A page without a binding adopts the one of the server if its store is there,
\* unless it got one since: then nothing is applied.
ApplySnapshot(d) ==
  LET s == snapshot[d]
      adopts == s.local = None /\ s.state # None
  IN /\ s # None
     /\ ~SnapshotStale(d, s)
     /\ snapshot' = [snapshot EXCEPT ![d] = None]
     /\ IF adopts /\ binding[d][s.ent] # None
        THEN UNCHANGED <<binding, belief>>
        ELSE /\ known' = [known EXCEPT ![d][s.ent] = s.rev]
             /\ truth' = [truth EXCEPT ![d][s.ent] = s.state]
             /\ verdict' = [verdict EXCEPT ![d][s.ent] =
                  [fences |-> SnapshotFences(s.local, s.work, s.state), state |-> s.state]]
             /\ binding' \in {binding} \cup
                  {[binding EXCEPT ![d][s.ent] = [s.state EXCEPT !.fin = FALSE]] : x \in {adopts} \cap {TRUE}}
     /\ UNCHANGED <<work, journal, recorded, flight, backend, requests, faults, reads>>

--------------------------------------------------------------------------------
Init ==
  /\ binding = [d \in Device |-> [e \in Conversation |-> None]]
  /\ work = [d \in Device |-> [e \in Conversation |-> "none"]]
  /\ journal = [d \in Device |-> {}]
  /\ recorded = [d \in Device |-> <<>>]
  /\ known = [d \in Device |-> [e \in Conversation |-> 0]]
  /\ truth = [d \in Device |-> [e \in Conversation |-> None]]
  /\ verdict = [d \in Device |-> [e \in Conversation |-> [fences |-> FALSE, state |-> None]]]
  /\ flight = [d \in Device |-> Idle]
  /\ snapshot = [d \in Device |-> None]
  /\ server = [e \in Conversation |-> [rev |-> 0, state |-> None]]
  /\ receipts = {}
  /\ active = Device
  /\ requests = {}
  /\ accepted = [e \in Conversation |-> <<>>]
  /\ faults = 0
  /\ reads = 0

Next ==
  \/ \E d \in Device, e \in Conversation :
       \/ \E s \in Shop : Bind(d, e, s)
       \/ Finish(d, e)
       \/ Deliver(d, e)
       \/ ReadSnapshot(d, e)
  \/ \E d \in Device :
       \/ Select(d)
       \/ Send(d)
       \/ Serve(d)
       \/ ApplyAnswer(d)
       \/ FailBatch(d)
       \/ LoseAnswer(d)
       \/ Restart(d)
       \/ Revoke(d)
       \/ DropSnapshot(d)
       \/ ApplySnapshot(d)

Spec == Init /\ [][Next]_vars

\* The technical scheduler wakes the journal while an explicit change waits, a
\* worker that chose a batch goes on until its answer, the server serves. Nothing is
\* assumed of the user, of the popup that reads snapshots, or of delivery markers,
\* which no alarm is set for.
Due(d) == \E x \in journal[d] : x.kind \in Explicit /\ x.status \in Waiting

SyncNow(d) == (Due(d) /\ Select(d)) \/ Send(d) \/ ApplyAnswer(d) \/ FailBatch(d)

Fairness == \A d \in Device : WF_vars(SyncNow(d)) /\ WF_vars(Serve(d))

FairSpec == Spec /\ Fairness

--------------------------------------------------------------------------------
Answers == [outcome: {"ACK", "CONFLICT"}, rev: Nat, state: Contents \cup {None}]

\* Every variable has the form of the code's records; an entry is in flight only
\* while its worker waits for the answer.
TypeOK ==
  /\ binding \in [Device -> [Conversation -> Contents \cup {None}]]
  /\ work \in [Device -> [Conversation -> {"none", "on", "over"}]]
  /\ \A d \in Device :
       /\ \A x \in journal[d] :
            /\ Wire(x) \in Wires
            /\ x.status \in Waiting \cup {"IN_FLIGHT", "CONFLICT", "FAILED"}
            /\ x.status = "IN_FLIGHT" => flight[d].phase = "sent"
       /\ Cardinality(journal[d]) <= MaxEntries
       /\ flight[d].phase \in {"idle", "chosen", "sent"}
       /\ flight[d].phase = "idle" <=> flight[d].batch = {}
       /\ \A n \in 1 .. Len(recorded[d]) : Wire(recorded[d][n]) \in Wires
  /\ known \in [Device -> [Conversation -> Nat]]
  /\ truth \in [Device -> [Conversation -> Contents \cup {None}]]
  /\ verdict \in [Device -> [Conversation -> [fences: BOOLEAN, state: Contents \cup {None}]]]
  /\ server \in [Conversation -> [rev: Nat, state: Contents \cup {None}]]
  /\ receipts \subseteq [dev: Device, wire: Wires, answer: Answers]
  /\ active \subseteq Device

\* What an installation believes of a conversation, and the state that fences its
\* actions, are states the server had, at the latest at the revision believed.
BeliefWasServed ==
  \A d \in Device, e \in Conversation :
    /\ known[d][e] <= server[e].rev
    /\ truth[d][e] # None =>
         \E n \in 1 .. known[d][e] : accepted[e][n].content = truth[d][e]
    /\ verdict[d][e].state # None =>
         \E n \in 1 .. Len(accepted[e]) : accepted[e][n].content = verdict[d][e].state

\* The latest explicit change of an installation in a conversation is never lost
\* between its journal and the server, whatever was compacted, repeated, answered
\* late or lost on the way. (Below the limit of the journal.)
LatestChangeKept ==
  \A d \in Device, e \in Conversation :
    LET changes == {n \in 1 .. Len(recorded[d]) :
                     recorded[d][n].ent = e /\ recorded[d][n].kind \in Explicit}
    IN \A n \in changes :
         \/ \E m \in changes : m > n
         \/ \E x \in journal[d] : x.seq = n
         \/ \E y \in receipts : y.dev = d /\ y.wire.seq = n /\ y.answer.outcome = "ACK"

\* The belief of an installation only moves forward, though answers, repeated
\* answers and snapshots reach it in any order.
BeliefForward ==
  [][\A d \in Device, e \in Conversation :
       /\ known'[d][e] >= known[d][e]
       /\ truth'[d][e] # truth[d][e] /\ truth[d][e] # None =>
            truth'[d][e] # None /\ truth'[d][e].rev > truth[d][e].rev]_vars

\* The server is the register it promises to be.
Register == INSTANCE SyncRegister WITH log <- accepted, entity <- server, members <- active
ImplementsRegister == Register!Spec

\* Every explicit change that waits, or is under way, is answered, refused or
\* superseded in the end: an installation that has some, comes to have none.
Unsettled(d) ==
  \E x \in journal[d] : x.kind \in Explicit /\ x.status \in Waiting \cup {"IN_FLIGHT"}

ChangesSettle == \A d \in Device : Unsettled(d) ~> ~Unsettled(d)

================================================================================
