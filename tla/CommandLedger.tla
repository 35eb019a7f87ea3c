---------------------------- MODULE CommandLedger ----------------------------
(***************************************************************************)
(* The extension's manual command path: from a click on a command block of *)
(* an AI chat to the marketplace request, its recorded outcome, an         *)
(* explicitly confirmed retry, and a second copy of the report.            *)
(*                                                                         *)
(*   packages/bridge-core/src/execution/command-ledger.js   the ledger     *)
(*   apps/extension/src/application/runtime.js              its callers    *)
(*   apps/extension/src/background/context/executeManualCommand.js         *)
(*                                                                         *)
(* Every ledger operation is one write of the conversation's record: the   *)
(* single writer queue makes mutate() atomic.  It checks the context       *)
(* before, inside and after the write, so a caller can get an error for a  *)
(* write that did happen: the parameter kept is FALSE when the answer (and *)
(* the permission it carries) is lost.  A change of context between the    *)
(* inner check and the commit commutes with the commit, so it needs no     *)
(* action of its own.                                                      *)
(***************************************************************************)
EXTENDS LedgerStore

CONSTANTS
  Callers,    \* concurrent invocations of executeManualCommand
  MaxWork,    \* bound: Work sessions started
  MaxEpoch,   \* bound: changes of authority
  MaxDoc,     \* bound: page loads
  MaxExpired  \* bound: lifetimes that end

ASSUME LedgerBounds == {MaxWork, MaxEpoch, MaxDoc, MaxExpired} \subseteq Nat

VARIABLES
  live,     \* the context as the runtime reads it now, and whether Work is on
  chat,     \* the page: document, known blocks, baseline taken by Start
  data,     \* durable: r3_commands
  owner,    \* durable: the manual operation of the conversation
  expired,  \* ids whose expiresAt has passed
  used,     \* ids makeId has given out
  caller,   \* worker memory: the invocations in flight
  permits,  \* worker memory: items this run may send to the provider
  inflight, \* worker memory: items whose provider call is being awaited
  sending,  \* worker memory: saR3CopyPermits, each with the delivery it repeats
  issued,   \* history: command key and Work of every receipt ever created
  calls,    \* history: provider requests made, per execution and ordinal
  copied    \* history: copies handed over for delivery, per delivery

ledgerVars == <<data, used, issued>>
memory     == <<caller, permits, inflight, sending>>
history    == <<calls, copied>>
vars == <<live, chat, data, owner, expired, used, caller, permits, inflight,
          sending, issued, calls, copied>>

Context == [account |-> live.account, work |-> live.work, epoch |-> live.epoch]

Slots == Executions \X Ordinals

Idle == [pc |-> "idle"]
CallerStates ==
  {Idle}
    \cup [pc : {"prepared"}, source : Sources, version : Versions]
    \cup [pc : {"admitted"}, exec : Executions, ctx : Contexts]

NoOwner == [exec |-> None, ctx |-> None, active |-> FALSE, report |-> FALSE,
            delivery |-> None]
OwnerStates ==
  {NoOwner}
    \cup [exec : Executions, ctx : Contexts, active : BOOLEAN,
          report : {FALSE}, delivery : {None}]
    \cup [exec : Executions, ctx : Contexts, active : BOOLEAN,
          report : {TRUE}, delivery : Deliveries]

\* What a receipt is remembered by: its command and the Work that wrote it.
Stamp(r) == [key |-> CommandKey(r), work |-> r.ctx.work]
Stamps == [key : CommandKeys, work : Nat]

TypeOK ==
  /\ live \in [account : Accounts, work : Nat, epoch : Nat, active : BOOLEAN]
  /\ chat \in [doc : Nat, known : SUBSET Blocks, baseline : SUBSET Blocks,
               baselineDoc : Nat]
  /\ LedgerOK(data)
  /\ owner \in OwnerStates
  /\ expired \subseteq Executions \cup Confirmations
  /\ used \subseteq Executions \cup Confirmations \cup Deliveries
  /\ caller \in [Callers -> CallerStates]
  /\ permits \subseteq Slots
  /\ inflight \subseteq Slots
  /\ sending \subseteq [copy : Deliveries, over : Deliveries, claimed : BOOLEAN]
  /\ IsMap(issued, Executions, Stamps)
  /\ calls \in [Slots -> Nat]
  /\ copied \in [Deliveries -> Nat]

Init ==
  /\ \E a \in Accounts :
       live = [account |-> a, work |-> 1, epoch |-> 0, active |-> TRUE]
  /\ chat = [doc |-> 0, known |-> {}, baseline |-> {}, baselineDoc |-> 0]
  /\ data = EmptyLedger
  /\ owner = NoOwner
  /\ expired = {} /\ used = {}
  /\ caller = [c \in Callers |-> Idle]
  /\ permits = {} /\ inflight = {} /\ sending = {}
  /\ issued = EmptyMap
  /\ calls = [s \in Slots |-> 0]
  /\ copied = [x \in Deliveries |-> 0]

-----------------------------------------------------------------------------
(* The writer: what fn(data) sees, and the ids and receipts it makes. *)

\* mutate(): refused unless Work is on; fn works on the compacted ledger.
Ledger == Compact(data, Context)

Fresh(ids) == ids \ used

\* receiptFor(): the receipt must carry exactly the caller's context.
ReceiptFor(d, e, ctx) == e \in DOMAIN d.receipts /\ d.receipts[e].ctx = ctx

\* predecessorFor(): a new authority may act, but only inside the same Work.
PredecessorFor(d, e, ctx) ==
  e \in DOMAIN d.receipts /\ SameWork(d.receipts[e].ctx, ctx)

NewReceipt(source, version, revision, S, pred) ==
  [source |-> source, version |-> version, revision |-> revision,
   ctx |-> Context, pred |-> pred,
   items |-> [o \in Ordinals |-> IF o \in S THEN "RESERVED" ELSE "ABSENT"],
   buffered |-> FALSE, deliveryRevision |-> 0]

AddReceipt(d, e, r) == [d EXCEPT !.receipts = Put(@, e, r)]

Issue(e, r) == issued' = Put(issued, e, Stamp(r))

\* Mutant: a command with its RESULT is no longer found.
SameCommandUnfinished(d, source, version) ==
  {e \in DOMAIN d.receipts :
     /\ ~ Finished(d.receipts[e])
     /\ CommandKey(d.receipts[e]) = [origin   |-> OriginOf(source),
                                     version  |-> version, revision |-> 0]}

\* The receipts a click on this source would repeat.
SameCommand(d, source, version) ==
  {e \in DOMAIN d.receipts :
     CommandKey(d.receipts[e]) = [origin   |-> OriginOf(source),
                                  version  |-> version, revision |-> 0]}

\* Mutant: only uncertain commands fence, whatever page load they come from.
FencedWhenUncertain(d, source) ==
  \E e \in DOMAIN d.receipts :
    /\ Uncertain(d.receipts[e])
    /\ \/ OriginOf(d.receipts[e].source) = OriginOf(source)
       \/ d.receipts[e].ctx.work = live.work

\* The fences of reserveCommand: the same block, the same message, and a
\* document-local message of an earlier page load.
Fenced(d, source) ==
  \E e \in DOMAIN d.receipts :
    LET r == d.receipts[e]
    IN  \/ OriginOf(r.source) = OriginOf(source) /\ Uncertain(r)
        \/ /\ r.ctx.work = live.work
           /\ \/ /\ r.source.block \in LocalBlocks
                 /\ r.source.doc # source.doc \/ Uncertain(r)
              \/ /\ r.source.work = source.work
                 /\ Anchor[r.source.block] = Anchor[source.block]
                 /\ r.source.block \in LocalBlocks => r.source.doc = source.doc
                 /\ Uncertain(r)

-----------------------------------------------------------------------------
(* The click: executeManualCommand. *)

\* Reads the Work session and the block's place in it.  A block the page
\* showed before Start, or a document-local one of another page load, is
\* refused.
Prepare(c, b, v) ==
  /\ caller[c] = Idle
  /\ live.active
  /\ b \notin chat.baseline
  /\ b \in LocalBlocks => chat.doc = chat.baselineDoc
  /\ caller' = [caller EXCEPT ![c] =
       [pc |-> "prepared", version |-> v,
        source |-> [work |-> live.work, block |-> b, doc |-> chat.doc]]]
  /\ chat' = [chat EXCEPT !.known = @ \cup {b}]
  /\ UNCHANGED <<live, data, owner, expired, used, permits, inflight, sending,
                 issued, history>>

\* captureBatchContext and reserveCommand: a new receipt.  The context is read
\* here, so it may be that of a later Work than the source's.
Reserve(c, S, e, kept) ==
  LET d == Ledger
      p == caller[c]
      r == NewReceipt(p.source, p.version, 0, S, None)
      o == OriginOf(p.source)
  IN  /\ p.pc = "prepared"
      /\ live.active
      /\ SameCommand(d, p.source, p.version) = {}
      /\ ~ Fenced(d, p.source)
      /\ HasCapacity(d)
      /\ e \in Fresh(Executions)
      /\ data' = [AddReceipt(d, e, r) EXCEPT
                    !.origins = PutNew(@, o, 0)]
      /\ used' = used \cup {e}
      /\ Issue(e, r)
      /\ caller' = [caller EXCEPT ![c] =
           IF kept THEN [pc |-> "admitted", exec |-> e, ctx |-> Context] ELSE Idle]
      /\ UNCHANGED <<live, chat, owner, expired, permits, inflight, sending, history>>

\* reserveCommand on a command that has a receipt.  saR3ReserveCommand lets
\* the click go on only if nothing was ever sent and nobody owns it.
ReserveDuplicate(c, e) ==
  LET d == Ledger
      p == caller[c]
      recoverable == /\ Items(d.receipts[e]) = ItemsIn(d.receipts[e], {"RESERVED"})
                     /\ owner.exec # e /\ ~ owner.active
                     /\ e \notin expired
  IN  /\ p.pc = "prepared"
      /\ live.active
      /\ e \in SameCommand(d, p.source, p.version)
      /\ data' = d
      /\ caller' = [caller EXCEPT ![c] =
           IF recoverable THEN [pc |-> "admitted", exec |-> e, ctx |-> Context]
                          ELSE Idle]
      /\ UNCHANGED <<live, chat, owner, expired, used, permits, inflight,
                     sending, issued, history>>

\* The admitted invocation becomes the conversation's manual operation.
Install(c) ==
  /\ caller[c].pc = "admitted"
  /\ live.active /\ caller[c].ctx = Context
  /\ ~ owner.active
  /\ owner' = [exec |-> caller[c].exec, ctx |-> caller[c].ctx, active |-> TRUE,
               report |-> FALSE, delivery |-> None]
  /\ caller' = [caller EXCEPT ![c] = Idle]
  /\ UNCHANGED <<live, chat, data, expired, used, permits, inflight, sending,
                 issued, history>>

\* Any of the refusals above: the invocation throws.
Refuse(c) ==
  /\ caller[c] # Idle
  /\ caller' = [caller EXCEPT ![c] = Idle]
  /\ UNCHANGED <<live, chat, data, owner, expired, used, permits, inflight,
                 sending, issued, history>>

-----------------------------------------------------------------------------
(* The provider call: the wrapped GuardedBatchQueue.run. *)

SetItem(d, e, o, state) == [d EXCEPT !.receipts[e].items[o] = state]

\* Mutant: what was begun before a restart may be begun again.
NotAnswered(r, o) == r.items[o] \in {"RESERVED", "PROVIDER_INTENT"}

\* The item may be begun: no attempt of it is on record.
NotBegun(r, o) == r.items[o] = "RESERVED"

OwnerRuns(d) ==
  /\ owner.active /\ ~ owner.report
  /\ live.active /\ owner.ctx = Context
  /\ ReceiptFor(d, owner.exec, owner.ctx)

\* beforeProviderDispatch: one beginProviderAttempt per item of the group.
BeginProviderAttempt(o, kept) ==
  LET d == Ledger
      e == owner.exec
  IN  /\ OwnerRuns(d)
      /\ NotBegun(d.receipts[e], o)
      /\ e \notin expired
      /\ data' = SetItem(d, e, o, "PROVIDER_INTENT")
      /\ permits' = IF kept THEN permits \cup {<<e, o>>} ELSE permits
      /\ UNCHANGED <<live, chat, owner, expired, used, caller, inflight,
                     sending, issued, history>>

\* The group's request.  Without sent, a later gate stopped it locally; its
\* outcome is recorded all the same.
Dispatch(e, sent) ==
  LET group == {s \in permits : s[1] = e}
  IN  /\ group # {}
      /\ calls' = IF sent THEN [s \in Slots |-> IF s \in group THEN calls[s] + 1
                                                               ELSE calls[s]]
                  ELSE calls
      /\ permits' = permits \ group
      /\ inflight' = inflight \cup group
      /\ UNCHANGED <<live, chat, data, owner, expired, used, caller, sending,
                     issued, copied>>

\* recordProviderOutcome, under the context the item was begun with.
RecordProviderOutcome(e, o, outcome) ==
  LET d == Ledger
  IN  /\ <<e, o>> \in inflight
      /\ live.active /\ ReceiptFor(d, e, Context)
      /\ d.receipts[e].items[o] = "PROVIDER_INTENT"
      /\ data' = SetItem(d, e, o, outcome)
      /\ inflight' = inflight \ {<<e, o>>}
      /\ UNCHANGED <<live, chat, owner, expired, used, caller, permits,
                     sending, issued, history>>

\* The run throws: a begun group is not sent, a late outcome is not recorded.
Abandon(e) ==
  /\ \E s \in permits \cup inflight : s[1] = e
  /\ permits'  = {s \in permits  : s[1] # e}
  /\ inflight' = {s \in inflight : s[1] # e}
  /\ UNCHANGED <<live, chat, data, owner, expired, used, caller, sending,
                 issued, history>>

\* The batch is done: its report waits to be sent as a new delivery x.
FinishBatch(x) ==
  /\ owner.active /\ ~ owner.report
  /\ x \in Fresh(Deliveries)
  /\ owner' = [owner EXCEPT !.report = TRUE, !.delivery = x]
  /\ used' = used \cup {x}
  /\ UNCHANGED <<live, chat, data, expired, memory, issued, history>>

\* The operation completes, fails, or is given up by recovery.
EndOperation ==
  /\ owner.active
  /\ owner' = [owner EXCEPT !.active = FALSE]
  /\ UNCHANGED <<live, chat, data, expired, used, memory, issued, history>>

-----------------------------------------------------------------------------
(* The explicit retry of an uncertain effect. *)

\* saR3RecoveryInput re-reads the block on the page: it must still be there,
\* under the origin it had.
StillOnPage(source) ==
  /\ source.work = live.work
  /\ source.block \notin chat.baseline
  /\ source.block \in LocalBlocks =>
       source.doc = chat.doc /\ chat.doc = chat.baselineDoc

\* Mutant: an approval stays good after another one of its origin was used.
RetryCurrentAnyRevision(d, a) == a.ctx = Context /\ a.consumedBy = None

\* What confirmRetry asks of the approval it consumes.
RetryCurrent(d, a) ==
  a.ctx = Context /\ a.consumedBy = None /\ d.origins[a.origin] = a.revision

PreviewRetry(e, v, S, k) ==
  LET d == Ledger
      r == d.receipts[e]
  IN  /\ live.active /\ ~ owner.active
      /\ PredecessorFor(d, e, Context)
      /\ StillOnPage(r.source)
      /\ Uncertain(r)
      /\ S # {} /\ S \subseteq Items(r)
      /\ HasCapacity(d)
      /\ k \in Fresh(Confirmations)
      /\ data' = [d EXCEPT !.retries = Put(@, k,
           [pred |-> e, version |-> v, selection |-> S, ctx |-> Context,
            origin |-> OriginOf(r.source), consumedBy |-> None,
            revision |-> d.origins[OriginOf(r.source)]])]
      /\ used' = used \cup {k}
      /\ UNCHANGED <<live, chat, owner, expired, memory, issued, history>>

\* saR3RetryConfirm reads the owner and the approval before it enters the
\* writer; only what the writer checks again is assumed here.
ConfirmRetry(c, k, e, kept) ==
  LET d == Ledger
      a == d.retries[k]
      r == NewReceipt(d.receipts[a.pred].source, a.version, a.revision + 1,
                      a.selection, a.pred)
  IN  /\ caller[c] = Idle
      /\ live.active
      /\ k \in DOMAIN d.retries /\ k \notin expired
      /\ RetryCurrent(d, a)
      /\ PredecessorFor(d, a.pred, Context)
      /\ StillOnPage(d.receipts[a.pred].source)
      /\ HasCapacity(d)
      /\ e \in Fresh(Executions)
      /\ data' = [AddReceipt(d, e, r) EXCEPT
                    !.origins[a.origin] = a.revision + 1,
                    !.retries[k].consumedBy = e]
      /\ used' = used \cup {e}
      /\ Issue(e, r)
      /\ caller' = [caller EXCEPT ![c] =
           IF kept THEN [pc |-> "admitted", exec |-> e, ctx |-> Context] ELSE Idle]
      /\ UNCHANGED <<live, chat, owner, expired, permits, inflight, sending, history>>

-----------------------------------------------------------------------------
(* The explicit copy of a report that may already have been delivered. *)

\* verifiedBuffer and receiptFor: the conversation's last report, still this
\* execution's, read and acted on in one unchanged context.
HoldsReport(d, e) ==
  /\ live.active /\ owner.exec = e /\ owner.report
  /\ owner.ctx = Context
  /\ ReceiptFor(d, e, Context)
  /\ e \notin expired

\* Mutant: a copy stays approved after another copy of the report.
CopyCurrentAnyRevision(d, a) == a.ctx = Context /\ a.consumedBy = None

\* What confirmCopy asks of the approval it consumes.
CopyCurrent(d, a) ==
  /\ a.ctx = Context /\ a.consumedBy = None
  /\ d.receipts[a.exec].deliveryRevision = a.revision

\* recordDeliveryBuffer: the report's own delivery becomes an original record.
RecordDeliveryBuffer(e, outcome) ==
  LET d == Ledger
      x == owner.delivery
      known == x \in DOMAIN d.deliveries
  IN  /\ HoldsReport(d, e)
      /\ outcome = "UNKNOWN" \/ ~ owner.active
      /\ known \/ HasCapacity(d)
      /\ data' = [d EXCEPT
           !.receipts[e].buffered = TRUE,
           !.deliveries = PutNew(@, x,
              [exec |-> e, conf |-> None, ctx |-> Context, revision |-> 0,
               original |-> TRUE, state |-> outcome])]
      /\ UNCHANGED <<live, chat, owner, expired, used, memory, issued, history>>

PreviewCopy(e, k) ==
  LET d == Ledger
  IN  /\ HoldsReport(d, e)
      /\ d.receipts[e].buffered
      /\ HasCapacity(d)
      /\ k \in Fresh(Confirmations)
      /\ data' = [d EXCEPT !.copies = Put(@, k,
           [exec |-> e, ctx |-> Context, consumedBy |-> None,
            revision |-> d.receipts[e].deliveryRevision])]
      /\ used' = used \cup {k}
      /\ UNCHANGED <<live, chat, owner, expired, memory, issued, history>>

ConfirmCopy(k, x) ==
  LET d == Ledger
      a == d.copies[k]
  IN  /\ k \in DOMAIN d.copies
      /\ HoldsReport(d, a.exec)
      /\ CopyCurrent(d, a)
      /\ HasCapacity(d)
      /\ x \in Fresh(Deliveries)
      /\ data' = [d EXCEPT
           !.receipts[a.exec].deliveryRevision = a.revision + 1,
           !.copies[k].consumedBy = x,
           !.deliveries = Put(@, x,
              [exec |-> a.exec, conf |-> k, ctx |-> Context,
               revision |-> a.revision + 1, original |-> FALSE,
               state |-> "COPY_RESERVED"])]
      /\ used' = used \cup {x}
      /\ UNCHANGED <<live, chat, owner, expired, memory, issued, history>>

BeginCopyDelivery(x, kept) ==
  LET d == Ledger
  IN  /\ x \in DOMAIN d.deliveries
      /\ d.deliveries[x].ctx = Context
      /\ HoldsReport(d, d.deliveries[x].exec)
      /\ d.deliveries[x].state = "COPY_RESERVED"
      /\ data' = [d EXCEPT !.deliveries[x].state = "DELIVERY_INTENT"]
      /\ sending' = IF kept
           THEN sending \cup {[copy |-> x, over |-> owner.delivery, claimed |-> FALSE]}
           ELSE sending
      /\ UNCHANGED <<live, chat, owner, expired, used, caller, permits,
                     inflight, issued, history>>

\* saR3CopyConfirm, holding the permit, claims the operation for the copy,
\* over the delivery it set out from, and hands it over for delivery.
ClaimCopy(p) ==
  /\ p \in sending /\ ~ p.claimed
  /\ live.active /\ owner.ctx = Context /\ owner.report
  /\ owner.delivery = p.over
  /\ p.copy \in DOMAIN data.deliveries
  /\ owner.exec = data.deliveries[p.copy].exec
  /\ owner' = [owner EXCEPT !.active = TRUE, !.delivery = p.copy]
  /\ copied' = [copied EXCEPT ![p.copy] = @ + 1]
  /\ sending' = (sending \ {p}) \cup {[p EXCEPT !.claimed = TRUE]}
  /\ UNCHANGED <<live, chat, data, expired, used, caller, permits, inflight,
                 issued, calls>>

\* The claim throws: the permit is given up.
AbandonCopy(p) ==
  /\ p \in sending /\ ~ p.claimed
  /\ sending' = sending \ {p}
  /\ UNCHANGED <<live, chat, data, owner, expired, used, caller, permits,
                 inflight, issued, history>>

\* saR3RecordCopyConfirmation, in the worker that sent the copy, once the
\* delivery has completed.
RecordCopyOutcome(p) ==
  LET d == Ledger
      x == p.copy
  IN  /\ p \in sending /\ p.claimed
      /\ live.active
      /\ owner.delivery = x /\ ~ owner.active /\ owner.ctx = Context
      /\ x \in DOMAIN d.deliveries
      /\ d.deliveries[x].ctx = Context
      /\ d.deliveries[x].state = "DELIVERY_INTENT"
      /\ data' = [d EXCEPT !.deliveries[x].state = "CONFIRMED"]
      /\ sending' = sending \ {p}
      /\ UNCHANGED <<live, chat, owner, expired, used, caller, permits,
                     inflight, issued, history>>

-----------------------------------------------------------------------------
(* The environment. *)

FinishWork ==
  /\ live.active
  /\ live' = [live EXCEPT !.active = FALSE]
  /\ UNCHANGED <<chat, data, owner, expired, used, memory, issued, history>>

\* Start: a new Work session, possibly after signing in to another account,
\* with a new baseline of what the page shows.
StartWork(a) ==
  /\ ~ live.active /\ live.work < MaxWork
  /\ live' = [account |-> a, work |-> live.work + 1, epoch |-> live.epoch,
              active |-> TRUE]
  /\ chat' = [chat EXCEPT !.baseline = chat.known, !.baselineDoc = chat.doc]
  /\ UNCHANGED <<data, owner, expired, used, memory, issued, history>>

\* Credentials, policy or grants change.  Where that ends Work, FinishWork follows.
ChangeAuthority ==
  /\ live.epoch < MaxEpoch
  /\ live' = [live EXCEPT !.epoch = @ + 1]
  /\ UNCHANGED <<chat, data, owner, expired, used, memory, issued, history>>

ReloadPage ==
  /\ chat.doc < MaxDoc
  /\ chat' = [chat EXCEPT !.doc = @ + 1]
  /\ UNCHANGED <<live, data, owner, expired, used, memory, issued, history>>

\* A lifetime of BUFFER_TTL_MS ends.
Expire(i) ==
  /\ i \in (DOMAIN data.receipts \cup DOMAIN data.retries) \ expired
  /\ Cardinality(expired) < MaxExpired
  /\ expired' = expired \cup {i}
  /\ UNCHANGED <<live, chat, data, owner, used, memory, issued, history>>

\* The service worker stops; only the stored record is left.
Restart ==
  /\ caller' = [c \in Callers |-> Idle]
  /\ permits' = {} /\ inflight' = {} /\ sending' = {}
  /\ UNCHANGED <<live, chat, data, owner, expired, used, issued, history>>

-----------------------------------------------------------------------------
Click ==
  \E c \in Callers :
    \/ \E b \in Blocks, v \in Versions : Prepare(c, b, v)
    \/ \E S \in SUBSET Ordinals \ {{}}, e \in Executions, kept \in BOOLEAN :
         Reserve(c, S, e, kept)
    \/ \E e \in Executions : ReserveDuplicate(c, e)
    \/ Install(c)
    \/ Refuse(c)

Provider ==
  \/ \E o \in Ordinals, kept \in BOOLEAN : BeginProviderAttempt(o, kept)
  \/ \E e \in Executions, sent \in BOOLEAN : Dispatch(e, sent)
  \/ \E e \in Executions, o \in Ordinals, outcome \in {"RESULT", "UNKNOWN"} :
       RecordProviderOutcome(e, o, outcome)
  \/ \E e \in Executions : Abandon(e)
  \/ \E x \in Deliveries : FinishBatch(x)
  \/ EndOperation

Retry ==
  \/ \E e \in Executions, v \in Versions, S \in SUBSET Ordinals,
       k \in Confirmations : PreviewRetry(e, v, S, k)
  \/ \E c \in Callers, k \in Confirmations, e \in Executions,
       kept \in BOOLEAN : ConfirmRetry(c, k, e, kept)

Copy ==
  \/ \E e \in Executions, outcome \in {"CONFIRMED", "UNKNOWN"} :
       RecordDeliveryBuffer(e, outcome)
  \/ \E e \in Executions, k \in Confirmations : PreviewCopy(e, k)
  \/ \E k \in Confirmations, x \in Deliveries : ConfirmCopy(k, x)
  \/ \E x \in Deliveries, kept \in BOOLEAN : BeginCopyDelivery(x, kept)
  \/ \E p \in sending : ClaimCopy(p) \/ AbandonCopy(p) \/ RecordCopyOutcome(p)

Environment ==
  \/ FinishWork
  \/ \E a \in Accounts : StartWork(a)
  \/ ChangeAuthority
  \/ ReloadPage
  \/ \E i \in Executions \cup Confirmations : Expire(i)
  \/ Restart

Next == Click \/ Provider \/ Retry \/ Copy \/ Environment

Spec == Init /\ [][Next]_vars

-----------------------------------------------------------------------------
(* What the ledger is for. *)

\* Inside one Work, a command of a block (origin, text, approval revision and
\* ordinal) reaches the provider at most once: across concurrent clicks, lost
\* answers, worker restarts and retries.
OneCallPerCommand ==
  \A s, t \in Slots :
    /\ calls[s] > 0 /\ calls[t] > 0
    /\ s[2] = t[2] /\ issued[s[1]] = issued[t[1]]
    => s = t /\ calls[s] = 1

\* A request leaves only under a durable intent: what the worker may send or
\* awaits is PROVIDER_INTENT in the record, and a command that was ever sent
\* is never RESERVED again, so no restart makes it look unsent.
IntentBeforeCall ==
  /\ \A s \in permits \cup inflight :
       /\ s[1] \in DOMAIN data.receipts
       /\ data.receipts[s[1]].items[s[2]] = "PROVIDER_INTENT"
  /\ \A s \in Slots :
       calls[s] > 0 /\ s[1] \in DOMAIN data.receipts =>
         data.receipts[s[1]].items[s[2]] \notin {"ABSENT", "RESERVED"}

\* Two retries of one origin never share an approval revision, whatever the
\* text they retry: of competing previews one wins and the rest are stale.
OneRetryPerRevision ==
  \A e, f \in DOMAIN data.receipts :
    /\ data.receipts[e].revision > 0
    /\ data.receipts[e].revision = data.receipts[f].revision
    /\ OriginOf(data.receipts[e].source) = OriginOf(data.receipts[f].source)
    => e = f

\* Compaction never leaves a link to something it removed: predecessors,
\* approvals and deliveries all still have what they name.
LinksIntact ==
  /\ \A e \in DOMAIN data.receipts :
       /\ data.receipts[e].pred \in DOMAIN data.receipts \cup {None}
       /\ OriginOf(data.receipts[e].source) \in DOMAIN data.origins
  /\ \A k \in DOMAIN data.retries :
       /\ data.retries[k].pred \in DOMAIN data.receipts
       /\ data.retries[k].consumedBy \in DOMAIN data.receipts \cup {None}
       /\ data.retries[k].origin \in DOMAIN data.origins
  /\ \A k \in DOMAIN data.copies :
       /\ data.copies[k].exec \in DOMAIN data.receipts
       /\ data.copies[k].consumedBy \in DOMAIN data.deliveries \cup {None}
  /\ \A x \in DOMAIN data.deliveries :
       /\ data.deliveries[x].exec \in DOMAIN data.receipts
       /\ data.deliveries[x].conf \in DOMAIN data.copies \cup {None}

\* Every writer checks the capacity before it adds a record: MAX_MARKERS is
\* never exceeded.
CapacityKept == Markers(data) <= MaxMarkers

\* One confirmation, one copy: a copy is handed over at most once, and two
\* copies of one report come from different delivery revisions.
OneCopyPerConfirmation ==
  /\ \A x \in Deliveries : copied[x] <= 1
  /\ \A x, y \in DOMAIN data.deliveries :
       LET dx == data.deliveries[x]
           dy == data.deliveries[y]
       IN  /\ ~ dx.original /\ ~ dy.original
           /\ dx.exec = dy.exec /\ dx.revision = dy.revision
           => x = y

\* A document-local message id means something only inside one page load: a
\* Work never holds commands of two page loads that might be the same message.
OnePageLoadPerWork ==
  \A e, f \in DOMAIN data.receipts :
    LET r == data.receipts[e]
        q == data.receipts[f]
    IN  /\ {r.source.block, q.source.block} \subseteq LocalBlocks
        /\ SameWork(r.ctx, q.ctx)
        => r.source.doc = q.source.doc

\* No step forgets an effect that may have happened: a receipt with an
\* uncertain item, a receipt one of whose deliveries is not confirmed, and
\* such a delivery itself stay in the record, and an item that is sure
\* (RESULT) or given up (UNKNOWN) never changes.
UncertainEffectsKept ==
  [][/\ \A e \in DOMAIN data.receipts :
          Uncertain(data.receipts[e]) => e \in DOMAIN data'.receipts
     /\ \A x \in DOMAIN data.deliveries :
          data.deliveries[x].state # "CONFIRMED" =>
            /\ x \in DOMAIN data'.deliveries
            /\ data.deliveries[x].exec \in DOMAIN data'.receipts
     /\ \A e \in DOMAIN data.receipts \cap DOMAIN data'.receipts :
          \A o \in ItemsIn(data.receipts[e], {"RESULT", "UNKNOWN"}) :
            data'.receipts[e].items[o] = data.receipts[e].items[o]]_vars

\* Signing in to another account, or writing in the current Work, retires
\* nothing of the others' or its own.
OnlyEarlierWorkRetired ==
  [][\A e \in DOMAIN data.receipts \ DOMAIN data'.receipts :
       /\ data.receipts[e].ctx.account = live.account
       /\ data.receipts[e].ctx.work < live.work]_vars

\* The ledger, with its restarts, lost answers, approvals and compaction, does
\* to commands and requests only what CommandDispatch allows: retries of a
\* block follow one another inside a Work, and nothing is requested twice.
Promise == INSTANCE CommandDispatch
ImplementsDispatch == Promise!Spec

-----------------------------------------------------------------------------
(* Two statements of the repository that the code does not keep. *)

\* "No hidden API replay" on a double click: at most one request per command
\* of a block, in whatever Work its receipt was written.
NoReplayInLaterWork ==
  \A s, t \in Slots :
    /\ calls[s] > 0 /\ calls[t] > 0
    /\ s[2] = t[2] /\ issued[s[1]].key = issued[t[1]].key
    => s = t

\* After UNKNOWN a changed text cannot bypass the explicit retry: a request of
\* revision 0 leaves only when no other receipt of the block is UNKNOWN.
ChangedTextNeedsRetry ==
  [][\A s \in Slots :
       calls'[s] > calls[s] /\ issued[s[1]].key.revision = 0 =>
         \A e \in DOMAIN data.receipts \ {s[1]} :
           OriginOf(data.receipts[e].source) = issued[s[1]].key.origin =>
             ItemsIn(data.receipts[e], {"UNKNOWN"}) = {}]_vars
=============================================================================
