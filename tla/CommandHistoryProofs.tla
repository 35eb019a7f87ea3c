------------------------ MODULE CommandHistoryProofs ------------------------
(***************************************************************************)
(* What one step may do to the receipts of the ledger, and what follows    *)
(* for any number of callers, blocks, executions and Works: competing      *)
(* retries of an origin get different revisions, only the current          *)
(* account's earlier Works are ever retired, and the ledger implements     *)
(* CommandDispatch.                                                        *)
(***************************************************************************)
EXTENDS CommandLedgerProofs

\* The receipts of d with nothing but their items and report moved on.
SameReceipts(d) ==
  /\ DOMAIN data'.receipts = DOMAIN d.receipts
  /\ \A e \in DOMAIN d.receipts :
       /\ data'.receipts[e].source = d.receipts[e].source
       /\ data'.receipts[e].revision = d.receipts[e].revision

\* Revision n is new to the block of source.
FreshRevision(d, source, n) ==
  \A e \in DOMAIN d.receipts :
    OriginOf(d.receipts[e].source) = OriginOf(source) =>
      d.receipts[e].revision # n

\* One more receipt: a first click, or a retry of a new revision.
OneMoreReceipt(d) ==
  \E e \in Executions, r \in Receipts :
    /\ Adds(data', d, e, r)
    /\ r.revision = 0 \/ FreshRevision(d, r.source, r.revision)

Effect ==
  data'.receipts = data.receipts \/ SameReceipts(Ledger) \/ OneMoreReceipt(Ledger)

-----------------------------------------------------------------------------
LEMMA ItemEffect ==
  ASSUME IInv, NEW e \in DOMAIN Ledger.receipts, NEW o \in Ordinals,
         NEW state \in ItemStates, data' = SetItem(Ledger, e, o, state)
  PROVE  SameReceipts(Ledger)
<1>1. LedgerOK(Ledger)
  BY LedgerType DEF IInv
<1>2. /\ DOMAIN data'.receipts = DOMAIN Ledger.receipts
      /\ \A f \in DOMAIN Ledger.receipts \ {e} :
           data'.receipts[f] = Ledger.receipts[f]
      /\ data'.receipts[e] = [Ledger.receipts[e] EXCEPT !.items[o] = state]
  BY <1>1, ItemWrite
<1>3. Ledger.receipts[e] \in Receipts
  BY <1>1 DEF LedgerOK, IsMap
<1>4. /\ data'.receipts[e].source = Ledger.receipts[e].source
      /\ data'.receipts[e].revision = Ledger.receipts[e].revision
  BY <1>2, <1>3 DEF Receipts
<1> QED BY <1>2, <1>4 DEF SameReceipts

LEMMA SameCommandsEffect ==
  ASSUME SameCommands(data', Ledger)
  PROVE  SameReceipts(Ledger)
BY DEF SameCommands, SameReceipts

LEMMA ReserveEffect ==
  ASSUME IInv, NEW c \in Callers, NEW S, NEW e \in Executions,
         NEW kept \in BOOLEAN, Reserve(c, S, e, kept)
  PROVE  OneMoreReceipt(Ledger)
<1> DEFINE r == NewReceipt(caller[c].source, caller[c].version, 0, S, None)
<1>1. Adds(data', Ledger, e, r)
  BY ReserveWrite DEF IInv
<1>2. r \in Receipts
  BY <1>1 DEF Adds
<1>3. r.revision = 0
  BY NewReceiptFields
<1> QED BY <1>1, <1>2, <1>3 DEF OneMoreReceipt

LEMMA ConfirmRetryEffect ==
  ASSUME IInv, NEW c \in Callers, NEW k \in Confirmations, NEW e \in Executions,
         NEW kept \in BOOLEAN, ConfirmRetry(c, k, e, kept)
  PROVE  OneMoreReceipt(Ledger)
<1> DEFINE d == Ledger
           a == d.retries[k]
           r == NewReceipt(d.receipts[a.pred].source, a.version, a.revision + 1,
                           a.selection, a.pred)
<1>1. TypeOK /\ Parts(d) /\ LedgerOK(d)
  BY LedgerParts, LedgerType DEF IInv
<1>2. k \in DOMAIN d.retries /\ a.pred \in DOMAIN d.receipts
  BY DEF ConfirmRetry, PredecessorFor
<1>3. /\ a.origin = OriginOf(d.receipts[a.pred].source)
      /\ a.origin \in DOMAIN d.origins
  BY <1>1, <1>2 DEF Parts, Approvals, Revisions
<1>4. /\ Adds(data', d, e, r)
      /\ d.origins[a.origin] = a.revision /\ a.revision \in Nat
  <2>1. TypeOK /\ Ledger.retries[k].origin \in DOMAIN Ledger.origins
    BY <1>1, <1>3
  <2> HIDE DEF r
  <2>2. Adds(data', Ledger, e, r)
    BY <2>1, ConfirmRetryWrite DEF r
  <2>3. d.origins[a.origin] = a.revision
    BY DEF ConfirmRetry, RetryCurrent
  <2>4. a.revision \in Nat
    BY <1>1, <1>2 DEF LedgerOK, IsMap, RetryApprovals
  <2> QED BY <2>2, <2>3, <2>4
<1>5. /\ r.source = d.receipts[a.pred].source
      /\ r.revision = a.revision + 1
  BY NewReceiptFields
<1>6. r \in Receipts
  BY <1>4 DEF Adds
<1>7. FreshRevision(d, r.source, r.revision)
  <2> SUFFICES ASSUME NEW f \in DOMAIN d.receipts,
                      OriginOf(d.receipts[f].source) = OriginOf(r.source)
               PROVE  d.receipts[f].revision # r.revision
    BY DEF FreshRevision
  <2>1. OriginOf(d.receipts[f].source) = a.origin
    BY <1>3, <1>5
  <2>2. d.receipts[f].revision <= d.origins[a.origin]
    BY <1>1, <2>1 DEF Parts, Revisions
  <2>3. d.receipts[f].revision \in Nat
    BY <1>1 DEF LedgerOK, IsMap, Receipts
  <2> HIDE DEF d, a, r
  <2> QED BY <1>4, <1>5, <2>2, <2>3
<1> HIDE DEF r
<1> QED BY <1>4, <1>6, <1>7 DEF OneMoreReceipt

\* Every step leaves the receipts alone, or works on the compacted ledger.
LEMMA Effects ==
  ASSUME IInv, [Next]_vars
  PROVE  Effect
<1>1. TypeOK
  BY DEF IInv
<1>2. CASE UNCHANGED vars
  BY <1>2 DEF vars, Effect
<1>3. CASE Click
  <2> PICK c \in Callers :
        \/ \E b \in Blocks, v \in Versions : Prepare(c, b, v)
        \/ \E S \in SUBSET Ordinals \ {{}}, e \in Executions, kept \in BOOLEAN :
             Reserve(c, S, e, kept)
        \/ \E e \in Executions : ReserveDuplicate(c, e)
        \/ Install(c)
        \/ Refuse(c)
    BY <1>3 DEF Click
  <2>1. ASSUME NEW S, NEW e \in Executions, NEW kept \in BOOLEAN,
               Reserve(c, S, e, kept)
        PROVE  Effect
    BY <2>1, ReserveEffect DEF Effect
  <2>2. ASSUME NEW e \in Executions, ReserveDuplicate(c, e)
        PROVE  Effect
    BY <2>2 DEF ReserveDuplicate, Effect, SameReceipts
  <2>3. ASSUME UNCHANGED data PROVE Effect
    BY <2>3 DEF Effect
  <2> QED BY <2>1, <2>2, <2>3 DEF Prepare, Install, Refuse
<1>4. CASE Provider
  <2>1. ASSUME NEW o \in Ordinals, NEW kept \in BOOLEAN,
               BeginProviderAttempt(o, kept)
        PROVE  Effect
    <3>1. /\ owner.exec \in DOMAIN Ledger.receipts
          /\ data' = SetItem(Ledger, owner.exec, o, "PROVIDER_INTENT")
      BY <2>1 DEF BeginProviderAttempt, OwnerRuns, ReceiptFor
    <3>2. "PROVIDER_INTENT" \in ItemStates
      BY DEF ItemStates
    <3> QED BY <3>1, <3>2, ItemEffect DEF Effect
  <2>2. ASSUME NEW e \in Executions, NEW o \in Ordinals,
               NEW outcome \in {"RESULT", "UNKNOWN"},
               RecordProviderOutcome(e, o, outcome)
        PROVE  Effect
    <3>1. /\ e \in DOMAIN Ledger.receipts
          /\ data' = SetItem(Ledger, e, o, outcome)
      BY <2>2 DEF RecordProviderOutcome, ReceiptFor
    <3>2. outcome \in ItemStates
      BY DEF ItemStates
    <3> QED BY <3>1, <3>2, ItemEffect DEF Effect
  <2>3. ASSUME UNCHANGED data PROVE Effect
    BY <2>3 DEF Effect
  <2> QED
    BY <1>4, <2>1, <2>2, <2>3
    DEF Provider, Dispatch, Abandon, FinishBatch, EndOperation
<1>5. CASE Retry
  <2>1. ASSUME NEW e \in Executions, NEW v \in Versions,
               NEW S \in SUBSET Ordinals, NEW k \in Confirmations,
               PreviewRetry(e, v, S, k)
        PROVE  Effect
    <3>1. data'.receipts = Ledger.receipts
      BY <1>1, <2>1, LedgerType DEF PreviewRetry, LedgerOK
    <3> QED BY <3>1 DEF Effect, SameReceipts
  <2>2. ASSUME NEW c \in Callers, NEW k \in Confirmations, NEW e \in Executions,
               NEW kept \in BOOLEAN, ConfirmRetry(c, k, e, kept)
        PROVE  Effect
    BY <2>2, ConfirmRetryEffect DEF Effect
  <2> QED BY <1>5, <2>1, <2>2 DEF Retry
<1>6. CASE Copy
  <2>1. ASSUME SameCommands(data', Ledger) PROVE Effect
    BY <2>1, SameCommandsEffect DEF Effect
  <2>2. ASSUME UNCHANGED data PROVE Effect
    BY <2>2 DEF Effect
  <2>3. CASE \E e \in Executions, outcome \in {"CONFIRMED", "UNKNOWN"} :
               RecordDeliveryBuffer(e, outcome)
    BY <1>1, <2>1, <2>3, RecordDeliveryBufferWrite
  <2>4. CASE \E e \in Executions, k \in Confirmations : PreviewCopy(e, k)
    BY <1>1, <2>1, <2>4, PreviewCopyWrite
  <2>5. CASE \E k \in Confirmations, x \in Deliveries : ConfirmCopy(k, x)
    BY <1>1, <2>1, <2>5, ConfirmCopyWrite
  <2>6. CASE \E x \in Deliveries, kept \in BOOLEAN : BeginCopyDelivery(x, kept)
    BY <1>1, <2>1, <2>6, BeginCopyDeliveryWrite
  <2>7. ASSUME NEW p \in sending,
               ClaimCopy(p) \/ AbandonCopy(p) \/ RecordCopyOutcome(p)
        PROVE  Effect
    BY <1>1, <2>1, <2>2, <2>7, RecordCopyOutcomeWrite DEF ClaimCopy, AbandonCopy
  <2> QED BY <1>6, <2>3, <2>4, <2>5, <2>6, <2>7 DEF Copy
<1>7. CASE Environment
  BY <1>7 DEF Environment, FinishWork, StartWork, ChangeAuthority, ReloadPage,
              Expire, Restart, Effect
<1> QED BY <1>2, <1>3, <1>4, <1>5, <1>6, <1>7 DEF Next

-----------------------------------------------------------------------------
LEMMA OneRetryStep ==
  ASSUME IInv, OneRetryPerRevision, [Next]_vars
  PROVE  OneRetryPerRevision'
<1> DEFINE d == Ledger
<1>1. /\ DOMAIN d.receipts \subseteq DOMAIN data.receipts
      /\ \A e \in DOMAIN d.receipts : d.receipts[e] = data.receipts[e]
  BY LedgerType DEF IInv, Keeps
<1>2. ASSUME NEW e \in DOMAIN d.receipts, NEW f \in DOMAIN d.receipts,
             d.receipts[e].revision > 0,
             d.receipts[e].revision = d.receipts[f].revision,
             OriginOf(d.receipts[e].source) = OriginOf(d.receipts[f].source)
      PROVE  e = f
  BY <1>1, <1>2 DEF OneRetryPerRevision
<1>3. CASE data'.receipts = data.receipts
  BY <1>3 DEF OneRetryPerRevision
<1> HIDE DEF d
<1>4. CASE SameReceipts(d)
  BY <1>2, <1>4 DEF SameReceipts, OneRetryPerRevision
<1>5. CASE OneMoreReceipt(d)
  <2>1. PICK e \in Executions, r \in Receipts :
          /\ DOMAIN data'.receipts = DOMAIN d.receipts \cup {e}
          /\ data'.receipts[e] = r
          /\ \A f \in DOMAIN d.receipts \ {e} : data'.receipts[f] = d.receipts[f]
          /\ r.revision = 0 \/ FreshRevision(d, r.source, r.revision)
    BY <1>5 DEF OneMoreReceipt, Adds
  <2>2. ASSUME NEW f \in DOMAIN d.receipts \ {e}, r.revision > 0,
               d.receipts[f].revision = r.revision
        PROVE  OriginOf(d.receipts[f].source) # OriginOf(r.source)
    BY <2>1, <2>2 DEF FreshRevision
  <2> QED BY <1>2, <2>1, <2>2 DEF OneRetryPerRevision
<1>6. Effect
  BY Effects
<1> QED BY <1>3, <1>4, <1>5, <1>6 DEF Effect, d

\* confirmRetry takes the next revision of its origin inside the write that
\* compares the counter, so of competing previews only one becomes a command:
\* no two retries on record share an origin and a revision.
THEOREM CompetingRetries == Spec => []OneRetryPerRevision
<1>1. Init => OneRetryPerRevision
  BY DEF Init, EmptyLedger, EmptyMap, OneRetryPerRevision
<1>2. IInv /\ OneRetryPerRevision /\ [Next]_vars => OneRetryPerRevision'
  BY OneRetryStep
<1> QED BY <1>1, <1>2, Invariance, PTL DEF Spec

LEMMA OnlyEarlierStep ==
  ASSUME IInv, [Next]_vars, NEW e \in DOMAIN data.receipts \ DOMAIN data'.receipts
  PROVE  data.receipts[e].ctx.account = live.account /\ data.receipts[e].ctx.work < live.work
<1>1. TypeOK /\ Recorded(data) /\ Retired(data)
  BY DEF IInv, Parts
<1>2. e \notin DOMAIN Ledger.receipts
  BY Effects DEF Effect, SameReceipts, OneMoreReceipt, Adds
<1>3. /\ data.receipts[e].ctx.account = live.account
      /\ data.receipts[e].ctx.work # live.work
  BY <1>1, <1>2, LedgerType DEF Keeps, Context
<1>4. /\ e \in DOMAIN issued /\ issued[e].work = data.receipts[e].ctx.work
  <2>1. e \in DOMAIN issued /\ issued[e] = Stamp(data.receipts[e])
    BY <1>1 DEF Recorded
  <2> QED BY <2>1 DEF Stamp
<1>5. issued[e].work <= live.work
  BY <1>1, <1>4 DEF Retired
<1>6. data.receipts[e].ctx.work \in Nat /\ live.work \in Nat
  BY <1>1 DEF TypeOK, LedgerOK, IsMap, Receipts, Contexts
<1> QED BY <1>3, <1>4, <1>5, <1>6

\* compactCompletedWork runs inside every write, for whatever account and Work
\* are current: it never retires another account's history nor the current Work's.
THEOREM RetiresEarlierWork == Spec => OnlyEarlierWorkRetired
<1>1. IInv /\ [Next]_vars =>
        [\A e \in DOMAIN data.receipts \ DOMAIN data'.receipts :
           /\ data.receipts[e].ctx.account = live.account
           /\ data.receipts[e].ctx.work < live.work]_vars
  BY OnlyEarlierStep
<1> QED BY <1>1, Invariance, PTL DEF Spec, OnlyEarlierWorkRetired

-----------------------------------------------------------------------------
(* The ledger implements CommandDispatch. *)

LEMMA PromiseInit == Init => Promise!Init
BY DEF Init, EmptyMap, Slots, Promise!Init, Promise!Items

\* A new execution is admitted under an id, and as something, never admitted before.
LEMMA PromiseAdmit ==
  ASSUME IInv, Distinct', NEW e \in Executions, NEW r, Issue(e, r), e \notin used,
         UNCHANGED calls
  PROVE  /\ Promise!Admit(e)
         /\ issued'[e] = Stamp(r)
         /\ \A f \in DOMAIN issued : issued[f] # issued'[e]
<1>1. e \notin DOMAIN issued
  BY DEF IInv, Distinct
<1>2. /\ DOMAIN issued' = DOMAIN issued \cup {e}
      /\ issued'[e] = Stamp(r)
      /\ \A f \in DOMAIN issued : issued'[f] = issued[f]
  BY <1>1 DEF Issue, Put
<1>3. \A f \in DOMAIN issued : issued[f] # issued'[e]
  BY <1>1, <1>2 DEF Distinct
<1> QED BY <1>1, <1>2, <1>3 DEF Promise!Admit

LEMMA PromiseClick ==
  ASSUME IInv, Distinct', NEW c \in Callers, NEW S, NEW e \in Executions,
         NEW kept \in BOOLEAN, Reserve(c, S, e, kept)
  PROVE  Promise!Click(e)
<1> DEFINE r == NewReceipt(caller[c].source, caller[c].version, 0, S, None)
<1>1. Issue(e, r) /\ e \notin used /\ UNCHANGED calls
  BY DEF Reserve, Fresh, history
<1>2. r.revision = 0
  BY NewReceiptFields
<1> HIDE DEF r
<1>3. Stamp(r).key.revision = 0
  BY <1>2 DEF Stamp, CommandKey
<1> QED BY <1>1, <1>3, PromiseAdmit DEF Promise!Click

\* The receipts of the block in this Work are all on record: an origin counts their
\* retries, and the approval takes the number that follows.
LEMMA PromiseRetry ==
  ASSUME IInv, Distinct', NEW c \in Callers, NEW k \in Confirmations,
         NEW e \in Executions, NEW kept \in BOOLEAN, ConfirmRetry(c, k, e, kept)
  PROVE  Promise!Retry(e)
<1> DEFINE d == Ledger
           a == d.retries[k]
           q == d.receipts[a.pred]
           r == NewReceipt(q.source, a.version, a.revision + 1, a.selection, a.pred)
<1>1. /\ Issue(e, r) /\ e \notin used /\ UNCHANGED calls
      /\ k \in DOMAIN d.retries /\ a.pred \in DOMAIN d.receipts
      /\ q.ctx.work = Context.work
      /\ d.origins[a.origin] = a.revision
  BY DEF ConfirmRetry, Fresh, history, PredecessorFor, SameWork, RetryCurrent
<1>2. LedgerOK(d) /\ Recorded(d) /\ Retired(d) /\ Revisions(d) /\ Approvals(d)
  BY LedgerParts, LedgerType DEF IInv, Parts
<1>3. a.origin = OriginOf(q.source) /\ a.revision \in Nat
  BY <1>1, <1>2 DEF Approvals, LedgerOK, IsMap, RetryApprovals
<1>4. /\ Stamp(r).key.origin = a.origin /\ Stamp(r).key.revision = a.revision + 1
      /\ Stamp(r).work = live.work
  <2>1. r.source = q.source /\ r.revision = a.revision + 1 /\ r.ctx = Context
    BY NewReceiptFields
  <2> HIDE DEF r, a, q
  <2> QED BY <1>3, <2>1 DEF Stamp, CommandKey, Context
<1>5. Promise!Admit(e) /\ issued'[e] = Stamp(r)
  BY <1>1, PromiseAdmit
<1> HIDE DEF r
<1>6. a.pred \in DOMAIN issued /\ Promise!SameBlock(issued[a.pred], issued'[e])
  <2>1. a.pred \in DOMAIN issued /\ issued[a.pred] = Stamp(q)
    BY <1>1, <1>2 DEF Recorded
  <2>2. Stamp(q).key.origin = OriginOf(q.source) /\ Stamp(q).work = live.work
    BY <1>1 DEF Stamp, CommandKey, Context
  <2> HIDE DEF a, q
  <2> QED BY <1>3, <1>4, <1>5, <2>1, <2>2 DEF Promise!SameBlock
<1>7. ASSUME NEW f \in DOMAIN issued, Promise!SameBlock(issued[f], issued'[e])
      PROVE  issued[f].key.revision < issued'[e].key.revision
  <2>1. issued[f].work = live.work /\ issued[f].key.origin = a.origin
    BY <1>4, <1>5, <1>7 DEF Promise!SameBlock
  <2>2. f \in DOMAIN d.receipts
    <3>1. live.work \in Nat
      BY DEF IInv, TypeOK
    <3> QED BY <1>2, <2>1, <3>1 DEF Retired
  <2>3. issued[f] = Stamp(d.receipts[f])
    BY <1>2, <2>2 DEF Recorded
  <2>4. /\ OriginOf(d.receipts[f].source) = a.origin
        /\ issued[f].key.revision = d.receipts[f].revision
    BY <2>1, <2>3 DEF Stamp, CommandKey
  <2>5. d.receipts[f].revision <= a.revision /\ d.receipts[f].revision \in Nat
    BY <1>1, <1>2, <2>2, <2>4 DEF Revisions, LedgerOK, IsMap, Receipts
  <2> HIDE DEF a, d
  <2> QED BY <1>3, <1>4, <1>5, <2>4, <2>5
<1> QED BY <1>5, <1>6, <1>7 DEF Promise!Retry

LEMMA PromiseRequest ==
  ASSUME IInv, NEW e \in Executions, NEW sent \in BOOLEAN, Dispatch(e, sent)
  PROVE  Promise!Request(e) \/ UNCHANGED <<issued, calls>>
<1> DEFINE group == {s \in permits : s[1] = e}
<1>1. /\ group # {} /\ UNCHANGED issued
      /\ \/ UNCHANGED calls
         \/ calls' = [s \in Slots |-> IF s \in group THEN calls[s] + 1 ELSE calls[s]]
  BY DEF Dispatch
<1>2. permits \subseteq Slots /\ Recorded(data) /\ Intents(data)
  BY DEF IInv, TypeOK, Parts
<1>3. /\ group \subseteq Slots
      /\ \A s \in group : s[1] = e /\ calls[s] = 0
  BY <1>2 DEF Slots, Intents
<1>4. e \in DOMAIN issued
  <2>1. PICK s \in permits : s[1] = e
    BY <1>1
  <2>2. PICK o \in Ordinals : s = <<e, o>>
    BY <1>2, <2>1 DEF Slots
  <2> QED BY <1>2, <2>1, <2>2 DEF Intents, Recorded
<1> HIDE DEF group
<1>5. CASE calls' = [s \in Slots |-> IF s \in group THEN calls[s] + 1 ELSE calls[s]]
  <2>1. calls' = [s \in Slots |-> IF s \in group THEN 1 ELSE calls[s]]
    BY <1>3, <1>5
  <2> QED BY <1>1, <1>3, <1>4, <2>1 DEF Promise!Request, Promise!Items, Slots
<1> QED BY <1>1, <1>5

LEMMA PromiseNext == IInv /\ [Next]_vars => [Promise!Next]_<<issued, calls>>
<1> SUFFICES ASSUME IInv, [Next]_vars PROVE [Promise!Next]_<<issued, calls>>
  OBVIOUS
<1> DEFINE Kept == UNCHANGED <<issued, calls>>
<1>1. Distinct'
  BY InvStep DEF IInv
<1>2. CASE UNCHANGED vars
  BY <1>2 DEF vars
<1>3. CASE Click
  <2>1. ASSUME NEW c \in Callers, NEW S, NEW e \in Executions, NEW kept \in BOOLEAN,
               Reserve(c, S, e, kept)
        PROVE  Promise!Next
    BY <1>1, <2>1, PromiseClick DEF Promise!Next
  <2>2. ASSUME NEW c \in Callers,
               \/ \E b \in Blocks, v \in Versions : Prepare(c, b, v)
               \/ \E e \in Executions : ReserveDuplicate(c, e)
               \/ Install(c)
               \/ Refuse(c)
        PROVE  Kept
    BY <2>2 DEF Prepare, ReserveDuplicate, Install, Refuse, history
  <2> QED BY <1>3, <2>1, <2>2 DEF Click
<1>4. CASE Provider
  <2>1. ASSUME NEW e \in Executions, NEW sent \in BOOLEAN, Dispatch(e, sent)
        PROVE  Promise!Next \/ Kept
    BY <2>1, PromiseRequest DEF Promise!Next
  <2>2. ASSUME \/ \E o \in Ordinals, kept \in BOOLEAN : BeginProviderAttempt(o, kept)
               \/ \E e \in Executions, o \in Ordinals, outcome \in {"RESULT", "UNKNOWN"} :
                    RecordProviderOutcome(e, o, outcome)
               \/ \E e \in Executions : Abandon(e)
               \/ \E x \in Deliveries : FinishBatch(x)
               \/ EndOperation
        PROVE  Kept
    BY <2>2 DEF BeginProviderAttempt, RecordProviderOutcome, Abandon, FinishBatch,
                EndOperation, history
  <2> QED BY <1>4, <2>1, <2>2 DEF Provider
<1>5. CASE Retry
  <2>1. ASSUME NEW c \in Callers, NEW k \in Confirmations, NEW e \in Executions,
               NEW kept \in BOOLEAN, ConfirmRetry(c, k, e, kept)
        PROVE  Promise!Next
    BY <1>1, <2>1, PromiseRetry DEF Promise!Next
  <2>2. ASSUME NEW e \in Executions, NEW v \in Versions, NEW S \in SUBSET Ordinals,
               NEW k \in Confirmations, PreviewRetry(e, v, S, k)
        PROVE  Kept
    BY <2>2 DEF PreviewRetry, history
  <2> QED BY <1>5, <2>1, <2>2 DEF Retry
<1>6. CASE Copy
  BY <1>6 DEF Copy, RecordDeliveryBuffer, PreviewCopy, ConfirmCopy, BeginCopyDelivery,
              ClaimCopy, AbandonCopy, RecordCopyOutcome, history
<1>7. CASE Environment
  BY <1>7 DEF Environment, FinishWork, StartWork, ChangeAuthority, ReloadPage, Expire,
              Restart, history
<1> QED BY <1>2, <1>3, <1>4, <1>5, <1>6, <1>7 DEF Next

\* Whatever is clicked, retried, lost, restarted and compacted away, commands and requests
\* follow the promise: inside a Work reserveCommand admits a text of a block once,
\* confirmRetry admits a retry above every revision of the block, and an item is
\* requested at most once.
THEOREM DispatchRefined == Spec => ImplementsDispatch
BY PromiseInit, PromiseNext, Invariance, PTL
   DEF Spec, ImplementsDispatch, Promise!Spec, Promise!dispatched
=============================================================================
