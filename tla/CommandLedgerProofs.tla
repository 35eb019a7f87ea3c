------------------------ MODULE CommandLedgerProofs ------------------------
(***************************************************************************)
(* What holds of CommandLedger for every value of its constants: its type  *)
(* invariant, that no request leaves without a durable intent, and that a  *)
(* command of a block is sent at most once in a Work.                      *)
(***************************************************************************)
EXTENDS CommandLedger, TLAPS

-----------------------------------------------------------------------------
(* Finite maps. *)

LEMMA MapPut ==
  ASSUME NEW K, NEW V, NEW f, IsMap(f, K, V), NEW k \in K, NEW v \in V
  PROVE  /\ IsMap(Put(f, k, v), K, V)
         /\ DOMAIN Put(f, k, v) = DOMAIN f \cup {k}
         /\ Put(f, k, v)[k] = v
         /\ \A i \in DOMAIN f \ {k} : Put(f, k, v)[i] = f[i]
  BY DEF IsMap, Put

LEMMA MapPutNew ==
  ASSUME NEW K, NEW V, NEW f, IsMap(f, K, V), NEW k \in K, NEW v \in V
  PROVE  /\ IsMap(PutNew(f, k, v), K, V)
         /\ DOMAIN PutNew(f, k, v) = DOMAIN f \cup {k}
         /\ k \notin DOMAIN f => PutNew(f, k, v)[k] = v
         /\ \A i \in DOMAIN f : PutNew(f, k, v)[i] = f[i]
<1>1. CASE k \in DOMAIN f
  BY <1>1 DEF PutNew
<1>2. CASE k \notin DOMAIN f
  BY <1>2 DEF PutNew, Put, IsMap
<1> QED BY <1>1, <1>2

LEMMA MapUpdate ==
  ASSUME NEW K, NEW V, NEW f, IsMap(f, K, V), NEW k \in DOMAIN f, NEW v \in V
  PROVE  /\ IsMap([f EXCEPT ![k] = v], K, V)
         /\ DOMAIN [f EXCEPT ![k] = v] = DOMAIN f
         /\ [f EXCEPT ![k] = v][k] = v
         /\ \A i \in DOMAIN f \ {k} : [f EXCEPT ![k] = v][i] = f[i]
  BY DEF IsMap

LEMMA MapRestrict ==
  ASSUME NEW K, NEW V, NEW f, IsMap(f, K, V), NEW S \in SUBSET DOMAIN f
  PROVE  /\ IsMap(Restrict(f, S), K, V)
         /\ DOMAIN Restrict(f, S) = S
         /\ \A i \in S : Restrict(f, S)[i] = f[i]
  BY DEF IsMap, Restrict

-----------------------------------------------------------------------------
(* Compaction. *)

\* What compaction leaves of a ledger d: a ledger c with the same entries, less
\* the account's finished receipts of other Works, and the origins of the rest.
Keeps(c, d, ctx) ==
  /\ LedgerOK(c)
  /\ DOMAIN c.receipts \subseteq DOMAIN d.receipts
  /\ \A e \in DOMAIN c.receipts : c.receipts[e] = d.receipts[e]
  /\ \A e \in DOMAIN d.receipts \ DOMAIN c.receipts :
       /\ d.receipts[e].ctx.account = ctx.account
       /\ d.receipts[e].ctx.work # ctx.work
       /\ Finished(d.receipts[e])
  /\ \A e \in DOMAIN c.receipts :
       LET o == OriginOf(c.receipts[e].source)
       IN  o \in DOMAIN d.origins => o \in DOMAIN c.origins
  /\ DOMAIN c.origins \subseteq DOMAIN d.origins
  /\ \A o \in DOMAIN c.origins : c.origins[o] = d.origins[o]
  /\ DOMAIN c.retries \subseteq DOMAIN d.retries
  /\ \A k \in DOMAIN c.retries : c.retries[k] = d.retries[k]

LEMMA CompactKeeps ==
  ASSUME NEW d, LedgerOK(d), NEW ctx
  PROVE  Keeps(Compact(d, ctx), d, ctx)
<1> DEFINE R == Removable(d, ctx)
           kept == DOMAIN d.receipts \ R
           keptRetries == {k \in DOMAIN d.retries :
                             ~ (/\ d.retries[k].pred \in R
                                /\ d.retries[k].consumedBy \in R \cup {None})}
           keptCopies == {k \in DOMAIN d.copies :
                            ~ (/\ d.copies[k].exec \in R
                               /\ \/ d.copies[k].consumedBy = None
                                  \/ CompletedCopy(d, k))}
           keptDeliveries == {x \in DOMAIN d.deliveries :
                                ~ (/\ d.deliveries[x].state = "CONFIRMED"
                                   /\ d.deliveries[x].exec \in R)}
           receipts == Restrict(d.receipts, kept)
           retries == Restrict(d.retries, keptRetries)
           keptOrigins == {OriginOf(receipts[e].source) : e \in DOMAIN receipts}
                            \cup {retries[k].origin : k \in DOMAIN retries}
           c == Compact(d, ctx)
<1>1. \A e \in R : /\ e \in DOMAIN d.receipts
                   /\ d.receipts[e].ctx.account = ctx.account
                   /\ d.receipts[e].ctx.work # ctx.work
                   /\ Finished(d.receipts[e])
  BY DEF Removable, Candidates
<1>2. c = [origins    |-> Restrict(d.origins, DOMAIN d.origins \cap keptOrigins),
           receipts   |-> receipts,
           retries    |-> retries,
           copies     |-> Restrict(d.copies, keptCopies),
           deliveries |-> Restrict(d.deliveries, keptDeliveries)]
  BY Zenon DEF Compact, RemoveReceipts
<1>3. /\ IsMap(receipts, Executions, Receipts)
      /\ DOMAIN receipts = kept
      /\ \A e \in kept : receipts[e] = d.receipts[e]
  <2>1. IsMap(d.receipts, Executions, Receipts) BY DEF LedgerOK
  <2> HIDE DEF kept
  <2> QED BY <2>1, MapRestrict, kept \in SUBSET DOMAIN d.receipts DEF kept
<1>4. /\ IsMap(retries, Confirmations, RetryApprovals)
      /\ DOMAIN retries = keptRetries
      /\ \A k \in keptRetries : retries[k] = d.retries[k]
  <2>1. IsMap(d.retries, Confirmations, RetryApprovals) BY DEF LedgerOK
  <2>2. keptRetries \in SUBSET DOMAIN d.retries OBVIOUS
  <2> HIDE DEF keptRetries
  <2> QED BY <2>1, <2>2, MapRestrict
<1>5. LET o == Restrict(d.origins, DOMAIN d.origins \cap keptOrigins)
      IN  /\ IsMap(o, Origins, Nat)
          /\ DOMAIN o = DOMAIN d.origins \cap keptOrigins
          /\ \A i \in DOMAIN o : o[i] = d.origins[i]
  <2>1. IsMap(d.origins, Origins, Nat) BY DEF LedgerOK
  <2>2. DOMAIN d.origins \cap keptOrigins \in SUBSET DOMAIN d.origins OBVIOUS
  <2> HIDE DEF keptOrigins
  <2> QED BY <2>1, <2>2, MapRestrict
<1>6. IsMap(Restrict(d.copies, keptCopies), Confirmations, CopyApprovals)
  <2>1. IsMap(d.copies, Confirmations, CopyApprovals) BY DEF LedgerOK
  <2>2. keptCopies \in SUBSET DOMAIN d.copies OBVIOUS
  <2> HIDE DEF keptCopies
  <2> QED BY <2>1, <2>2, MapRestrict
<1>7. IsMap(Restrict(d.deliveries, keptDeliveries), Deliveries, DeliveryRecords)
  <2>1. IsMap(d.deliveries, Deliveries, DeliveryRecords) BY DEF LedgerOK
  <2>2. keptDeliveries \in SUBSET DOMAIN d.deliveries OBVIOUS
  <2> HIDE DEF keptDeliveries
  <2> QED BY <2>1, <2>2, MapRestrict
<1>8. \A e \in DOMAIN receipts : OriginOf(receipts[e].source) \in keptOrigins
  OBVIOUS
<1>9. keptRetries \subseteq DOMAIN d.retries OBVIOUS
<1> HIDE DEF keptOrigins, keptRetries, keptCopies, keptDeliveries, receipts,
             retries, R, c
<1>10. LedgerOK(c)
  BY <1>2, <1>3, <1>4, <1>5, <1>6, <1>7 DEF LedgerOK
<1>11. /\ DOMAIN c.receipts \subseteq DOMAIN d.receipts
       /\ \A e \in DOMAIN c.receipts : c.receipts[e] = d.receipts[e]
  BY <1>2, <1>3 DEF kept
<1>12. \A e \in DOMAIN d.receipts \ DOMAIN c.receipts :
         /\ d.receipts[e].ctx.account = ctx.account
         /\ d.receipts[e].ctx.work # ctx.work
         /\ Finished(d.receipts[e])
  BY <1>1, <1>2, <1>3 DEF kept
<1>13. \A e \in DOMAIN c.receipts :
         LET o == OriginOf(c.receipts[e].source)
         IN  o \in DOMAIN d.origins => o \in DOMAIN c.origins
  BY <1>2, <1>5, <1>8
<1>14. /\ DOMAIN c.origins \subseteq DOMAIN d.origins
       /\ \A o \in DOMAIN c.origins : c.origins[o] = d.origins[o]
  BY <1>2, <1>5
<1>15. /\ DOMAIN c.retries \subseteq DOMAIN d.retries
       /\ \A k \in DOMAIN c.retries : c.retries[k] = d.retries[k]
  BY <1>2, <1>4, <1>9
<1> QED
  BY <1>10, <1>11, <1>12, <1>13, <1>14, <1>15 DEF Keeps, c

-----------------------------------------------------------------------------
(* The type invariant. *)

LEMMA ContextType == ASSUME TypeOK PROVE Context \in Contexts
  BY DEF TypeOK, Context, Contexts

LEMMA LedgerType ==
  ASSUME TypeOK
  PROVE  LedgerOK(Ledger) /\ Keeps(Ledger, data, Context)
<1>1. LedgerOK(data) BY DEF TypeOK
<1>2. Keeps(Ledger, data, Context) BY <1>1, CompactKeeps DEF Ledger
<1> QED BY <1>2 DEF Keeps

LEMMA OriginType == ASSUME NEW s \in Sources PROVE OriginOf(s) \in Origins
  BY DEF Sources, Origins, OriginOf

LEMMA NewReceiptType ==
  ASSUME TypeOK, NEW source \in Sources, NEW v \in Versions, NEW n \in Nat,
         NEW S, NEW p \in Executions \cup {None}
  PROVE  NewReceipt(source, v, n, S, p) \in Receipts
  BY ContextType DEF NewReceipt, Receipts, ItemStates

LEMMA IssueType ==
  ASSUME TypeOK, NEW e \in Executions, NEW r \in Receipts, Issue(e, r)
  PROVE  /\ IsMap(issued', Executions, Stamps)
         /\ DOMAIN issued' = DOMAIN issued \cup {e}
         /\ issued'[e] = Stamp(r)
         /\ \A f \in DOMAIN issued \ {e} : issued'[f] = issued[f]
<1>1. /\ r.source \in Sources /\ r.version \in Versions
      /\ r.revision \in Nat /\ r.ctx.work \in Nat
  BY DEF Receipts, Contexts
<1>2. CommandKey(r) \in CommandKeys
  BY <1>1, OriginType DEF CommandKey, CommandKeys
<1>3. Stamp(r) \in Stamps
  BY <1>1, <1>2 DEF Stamp, Stamps
<1>4. IsMap(issued, Executions, Stamps)
  BY DEF TypeOK
<1>5. issued' = Put(issued, e, Stamp(r))
  BY DEF Issue
<1>6. QED
  BY <1>3, <1>4, <1>5, MapPut

LEMMA TypeInit == Init => TypeOK
<1> SUFFICES ASSUME Init PROVE TypeOK OBVIOUS
<1>1. LedgerOK(data)
  BY DEF Init, EmptyLedger, EmptyMap, LedgerOK, IsMap
<1>2. /\ live \in [account : Accounts, work : Nat, epoch : Nat, active : BOOLEAN]
      /\ chat \in [doc : Nat, known : SUBSET Blocks, baseline : SUBSET Blocks,
                   baselineDoc : Nat]
  BY DEF Init
<1>3. owner \in OwnerStates /\ caller \in [Callers -> CallerStates]
  BY DEF Init, OwnerStates, CallerStates
<1>4. IsMap(issued, Executions, Stamps)
  BY DEF Init, EmptyMap, IsMap
<1>5. calls \in [Slots -> Nat] /\ copied \in [Deliveries -> Nat]
  BY DEF Init
<1>6. /\ expired = {} /\ used = {} /\ permits = {} /\ inflight = {} /\ sending = {}
  BY DEF Init
<1> QED
  BY <1>1, <1>2, <1>3, <1>4, <1>5, <1>6 DEF TypeOK

LEMMA OwnerActive ==
  ASSUME TypeOK, owner.active
  PROVE  \/ owner \in [exec : Executions, ctx : Contexts, active : BOOLEAN,
                       report : {FALSE}, delivery : {None}]
         \/ owner \in [exec : Executions, ctx : Contexts, active : BOOLEAN,
                       report : {TRUE}, delivery : Deliveries]
<1>1. owner \in OwnerStates
  BY DEF TypeOK
<1>2. owner # NoOwner
  BY DEF NoOwner
<1> QED
  BY <1>1, <1>2 DEF OwnerStates

LEMMA OwnerReport ==
  ASSUME TypeOK, owner.report
  PROVE  owner \in [exec : Executions, ctx : Contexts, active : BOOLEAN,
                    report : {TRUE}, delivery : Deliveries]
<1>1. owner \in OwnerStates
  BY DEF TypeOK
<1>2. owner # NoOwner
  BY DEF NoOwner
<1>3. ASSUME owner \in [exec : Executions, ctx : Contexts, active : BOOLEAN,
                       report : {FALSE}, delivery : {None}]
      PROVE  FALSE
  <2>1. owner.report = FALSE BY <1>3
  <2> QED BY <2>1
<1> QED
  BY <1>1, <1>2, <1>3 DEF OwnerStates

LEMMA OwnerDelivery ==
  ASSUME TypeOK, owner.report
  PROVE  owner.delivery \in Deliveries
BY OwnerReport

\* The ways a write changes the compacted ledger, each with what it keeps.
LEMMA ItemWrite ==
  ASSUME NEW d, LedgerOK(d), NEW e \in DOMAIN d.receipts, NEW o \in Ordinals,
         NEW state \in ItemStates
  PROVE  LET c == SetItem(d, e, o, state)
         IN  /\ LedgerOK(c)
             /\ c.origins = d.origins /\ c.retries = d.retries
             /\ DOMAIN c.receipts = DOMAIN d.receipts
             /\ \A f \in DOMAIN d.receipts \ {e} : c.receipts[f] = d.receipts[f]
             /\ c.receipts[e] = [d.receipts[e] EXCEPT !.items[o] = state]
<1>1. IsMap(d.receipts, Executions, Receipts)
  BY DEF LedgerOK
<1>2. d.receipts[e] \in Receipts
  BY <1>1 DEF IsMap
<1>3. [d.receipts[e] EXCEPT !.items[o] = state] \in Receipts
  BY <1>2 DEF Receipts
<1> DEFINE r == [d.receipts[e] EXCEPT !.items[o] = state]
           c == SetItem(d, e, o, state)
<1>4. c = [d EXCEPT !.receipts = [d.receipts EXCEPT ![e] = r]]
  BY DEF LedgerOK, SetItem
<1> HIDE DEF r, c
<1>5. /\ IsMap([d.receipts EXCEPT ![e] = r], Executions, Receipts)
      /\ DOMAIN [d.receipts EXCEPT ![e] = r] = DOMAIN d.receipts
      /\ [d.receipts EXCEPT ![e] = r][e] = r
      /\ \A f \in DOMAIN d.receipts \ {e} :
           [d.receipts EXCEPT ![e] = r][f] = d.receipts[f]
  BY <1>1, <1>3, MapUpdate DEF r
<1>6. /\ c.receipts = [d.receipts EXCEPT ![e] = r]
      /\ c.origins = d.origins /\ c.retries = d.retries
      /\ c.copies = d.copies /\ c.deliveries = d.deliveries
      /\ c = [origins |-> c.origins, receipts |-> c.receipts,
              retries |-> c.retries, copies |-> c.copies,
              deliveries |-> c.deliveries]
  BY <1>4 DEF LedgerOK
<1>7. LedgerOK(c)
  BY <1>5, <1>6 DEF LedgerOK
<1> QED
  BY <1>5, <1>6, <1>7 DEF c, r

\* c differs from d in its copies and deliveries only.
SameCommands(c, d) ==
  /\ LedgerOK(c)
  /\ c.origins = d.origins /\ c.retries = d.retries
  /\ DOMAIN c.receipts = DOMAIN d.receipts
  /\ \A e \in DOMAIN d.receipts :
       /\ c.receipts[e].source = d.receipts[e].source
       /\ c.receipts[e].version = d.receipts[e].version
       /\ c.receipts[e].revision = d.receipts[e].revision
       /\ c.receipts[e].ctx = d.receipts[e].ctx
       /\ c.receipts[e].items = d.receipts[e].items

LEMMA RecordDeliveryBufferWrite ==
  ASSUME TypeOK, NEW e \in Executions, NEW outcome \in {"CONFIRMED", "UNKNOWN"},
         RecordDeliveryBuffer(e, outcome)
  PROVE  SameCommands(data', Ledger)
<1> DEFINE d == Ledger
           x == owner.delivery
           r == [d.receipts[e] EXCEPT !.buffered = TRUE]
           dl == [exec |-> e, conf |-> None, ctx |-> Context, revision |-> 0,
                  original |-> TRUE, state |-> outcome]
           receipts == [d.receipts EXCEPT ![e] = r]
           deliveries == PutNew(d.deliveries, x, dl)
<1>1. LedgerOK(d)
  BY LedgerType
<1>2. e \in DOMAIN d.receipts /\ owner.report
  BY DEF RecordDeliveryBuffer, HoldsReport, ReceiptFor
<1>3. x \in Deliveries
  BY <1>2, OwnerDelivery
<1>4. /\ IsMap(d.receipts, Executions, Receipts)
      /\ IsMap(d.deliveries, Deliveries, DeliveryRecords)
  BY <1>1 DEF LedgerOK
<1>5. r \in Receipts /\ d.receipts[e] \in Receipts
  BY <1>2, <1>4 DEF IsMap, Receipts
<1>6. dl \in DeliveryRecords
  BY ContextType DEF DeliveryRecords, DeliveryStates
<1>7. data' = [d EXCEPT !.receipts = receipts, !.deliveries = deliveries]
  BY <1>1 DEF RecordDeliveryBuffer, LedgerOK
<1>8. r = [d.receipts[e] EXCEPT !.buffered = TRUE]
  OBVIOUS
<1> HIDE DEF d, x, r, dl
<1>9. /\ IsMap(receipts, Executions, Receipts)
      /\ DOMAIN receipts = DOMAIN d.receipts
      /\ receipts[e] = r
      /\ \A f \in DOMAIN d.receipts \ {e} : receipts[f] = d.receipts[f]
  BY <1>2, <1>4, <1>5, MapUpdate
<1>10. IsMap(deliveries, Deliveries, DeliveryRecords)
  BY <1>3, <1>4, <1>6, MapPutNew
<1> HIDE DEF receipts, deliveries
<1>11. /\ data'.receipts = receipts /\ data'.deliveries = deliveries
       /\ data'.origins = d.origins /\ data'.retries = d.retries
       /\ data'.copies = d.copies
       /\ data' = [origins |-> data'.origins, receipts |-> data'.receipts,
                   retries |-> data'.retries, copies |-> data'.copies,
                   deliveries |-> data'.deliveries]
  BY <1>1, <1>7 DEF LedgerOK
<1>12. LedgerOK(data')
  BY <1>1, <1>9, <1>10, <1>11 DEF LedgerOK
<1>13. \A f \in DOMAIN d.receipts :
         /\ receipts[f].source = d.receipts[f].source
         /\ receipts[f].version = d.receipts[f].version
         /\ receipts[f].revision = d.receipts[f].revision
         /\ receipts[f].ctx = d.receipts[f].ctx
         /\ receipts[f].items = d.receipts[f].items
  BY <1>5, <1>8, <1>9 DEF Receipts
<1> QED
  BY <1>9, <1>11, <1>12, <1>13 DEF SameCommands, d

LEMMA PreviewCopyWrite ==
  ASSUME TypeOK, NEW e \in Executions, NEW k \in Confirmations, PreviewCopy(e, k)
  PROVE  SameCommands(data', Ledger)
<1> DEFINE d == Ledger
           a == [exec |-> e, ctx |-> Context, consumedBy |-> None,
                 revision |-> d.receipts[e].deliveryRevision]
           copies == Put(d.copies, k, a)
<1>1. LedgerOK(d)
  BY LedgerType
<1>2. e \in DOMAIN d.receipts
  BY DEF PreviewCopy, HoldsReport, ReceiptFor
<1>3. a \in CopyApprovals
  BY <1>1, <1>2, ContextType DEF LedgerOK, IsMap, Receipts, CopyApprovals
<1>4. data' = [d EXCEPT !.copies = copies]
  BY <1>1 DEF PreviewCopy, LedgerOK
<1>5. IsMap(d.copies, Confirmations, CopyApprovals)
  BY <1>1 DEF LedgerOK
<1> HIDE DEF d, a
<1>6. IsMap(copies, Confirmations, CopyApprovals)
  BY <1>3, <1>5, MapPut
<1> QED
  BY <1>1, <1>4, <1>6 DEF SameCommands, LedgerOK, d

\* One delivery moves to another state.
LEMMA DeliveryWrite ==
  ASSUME NEW d, LedgerOK(d), NEW x \in DOMAIN d.deliveries,
         NEW state \in DeliveryStates
  PROVE  SameCommands([d EXCEPT !.deliveries[x].state = state], d)
<1> DEFINE c == [d EXCEPT !.deliveries[x].state = state]
           dl == [d.deliveries[x] EXCEPT !.state = state]
           deliveries == [d.deliveries EXCEPT ![x] = dl]
<1>1. IsMap(d.deliveries, Deliveries, DeliveryRecords)
  BY DEF LedgerOK
<1>2. dl \in DeliveryRecords
  BY <1>1 DEF IsMap, DeliveryRecords
<1>3. c = [d EXCEPT !.deliveries = deliveries]
  BY DEF LedgerOK
<1> HIDE DEF dl, c
<1>4. IsMap(deliveries, Deliveries, DeliveryRecords)
  BY <1>1, <1>2, MapUpdate
<1> HIDE DEF deliveries
<1>5. SameCommands(c, d)
  BY <1>3, <1>4 DEF SameCommands, LedgerOK
<1> QED
  BY <1>5 DEF c

LEMMA BeginCopyDeliveryWrite ==
  ASSUME TypeOK, NEW x \in Deliveries, NEW kept \in BOOLEAN,
         BeginCopyDelivery(x, kept)
  PROVE  SameCommands(data', Ledger)
<1>1. LedgerOK(Ledger)
  BY LedgerType
<1>2. /\ x \in DOMAIN Ledger.deliveries
      /\ data' = [Ledger EXCEPT !.deliveries[x].state = "DELIVERY_INTENT"]
  BY DEF BeginCopyDelivery
<1> QED
  BY <1>1, <1>2, DeliveryWrite DEF DeliveryStates

LEMMA RecordCopyOutcomeWrite ==
  ASSUME TypeOK, NEW p \in sending, RecordCopyOutcome(p)
  PROVE  SameCommands(data', Ledger)
<1>1. LedgerOK(Ledger)
  BY LedgerType
<1>2. /\ p.copy \in DOMAIN Ledger.deliveries
      /\ data' = [Ledger EXCEPT !.deliveries[p.copy].state = "CONFIRMED"]
  BY DEF RecordCopyOutcome
<1> QED
  BY <1>1, <1>2, DeliveryWrite DEF DeliveryStates

LEMMA ConfirmCopyWrite ==
  ASSUME TypeOK, NEW k \in Confirmations, NEW x \in Deliveries, ConfirmCopy(k, x)
  PROVE  SameCommands(data', Ledger)
<1> DEFINE d == Ledger
           a == d.copies[k]
           e == a.exec
           r == [d.receipts[e] EXCEPT !.deliveryRevision = a.revision + 1]
           dl == [exec |-> e, conf |-> k, ctx |-> Context,
                  revision |-> a.revision + 1, original |-> FALSE,
                  state |-> "COPY_RESERVED"]
           b == [a EXCEPT !.consumedBy = x]
           receipts == [d.receipts EXCEPT ![e] = r]
           copies == [d.copies EXCEPT ![k] = b]
           deliveries == Put(d.deliveries, x, dl)
<1>1. LedgerOK(d)
  BY LedgerType
<1>2. k \in DOMAIN d.copies /\ e \in DOMAIN d.receipts
  BY DEF ConfirmCopy, HoldsReport, ReceiptFor
<1>3. /\ IsMap(d.receipts, Executions, Receipts)
      /\ IsMap(d.copies, Confirmations, CopyApprovals)
      /\ IsMap(d.deliveries, Deliveries, DeliveryRecords)
  BY <1>1 DEF LedgerOK
<1>4. a \in CopyApprovals /\ d.receipts[e] \in Receipts /\ e \in Executions
  BY <1>2, <1>3 DEF IsMap
<1>5. a.revision + 1 \in Nat
  BY <1>4 DEF CopyApprovals
<1>6. r \in Receipts
  BY <1>4, <1>5 DEF Receipts
<1>7. b \in CopyApprovals
  BY <1>4 DEF CopyApprovals
<1>8. dl \in DeliveryRecords
  BY <1>4, <1>5, ContextType DEF DeliveryRecords, DeliveryStates
<1>9. data' = [d EXCEPT !.receipts = receipts, !.copies = copies,
                        !.deliveries = deliveries]
  BY <1>1 DEF ConfirmCopy, LedgerOK
<1>10. /\ r.source = d.receipts[e].source /\ r.version = d.receipts[e].version
       /\ r.revision = d.receipts[e].revision
       /\ r.ctx = d.receipts[e].ctx /\ r.items = d.receipts[e].items
  BY <1>4 DEF Receipts
<1> HIDE DEF d, a, e, r, dl, b
<1>11. /\ IsMap(receipts, Executions, Receipts)
       /\ DOMAIN receipts = DOMAIN d.receipts
       /\ receipts[e] = r
       /\ \A f \in DOMAIN d.receipts \ {e} : receipts[f] = d.receipts[f]
  BY <1>2, <1>3, <1>6, MapUpdate
<1>12. IsMap(copies, Confirmations, CopyApprovals)
  BY <1>2, <1>3, <1>7, MapUpdate
<1>13. IsMap(deliveries, Deliveries, DeliveryRecords)
  BY <1>3, <1>8, MapPut
<1> HIDE DEF receipts, copies, deliveries
<1>14. /\ data'.receipts = receipts /\ data'.copies = copies
       /\ data'.deliveries = deliveries
       /\ data'.origins = d.origins /\ data'.retries = d.retries
       /\ data' = [origins |-> data'.origins, receipts |-> data'.receipts,
                   retries |-> data'.retries, copies |-> data'.copies,
                   deliveries |-> data'.deliveries]
  BY <1>1, <1>9 DEF LedgerOK
<1>15. LedgerOK(data')
  BY <1>1, <1>11, <1>12, <1>13, <1>14 DEF LedgerOK
<1> QED
  BY <1>10, <1>11, <1>14, <1>15 DEF SameCommands, d

LEMMA CallerType ==
  ASSUME TypeOK, NEW c \in Callers
  PROVE  /\ caller[c].pc = "prepared" =>
              caller[c].source \in Sources /\ caller[c].version \in Versions
         /\ caller[c].pc = "admitted" =>
              caller[c].exec \in Executions /\ caller[c].ctx \in Contexts
<1>1. caller[c] \in CallerStates
  BY DEF TypeOK
<1>2. CASE caller[c] = Idle
  BY <1>2 DEF Idle
<1>3. CASE caller[c] \in [pc : {"prepared"}, source : Sources, version : Versions]
  BY <1>3
<1>4. CASE caller[c] \in [pc : {"admitted"}, exec : Executions, ctx : Contexts]
  BY <1>4
<1> QED
  BY <1>1, <1>2, <1>3, <1>4 DEF CallerStates

\* What a new receipt adds to a ledger.
Adds(c, d, e, r) ==
  /\ LedgerOK(c)
  /\ r \in Receipts
  /\ DOMAIN c.receipts = DOMAIN d.receipts \cup {e}
  /\ c.receipts[e] = r
  /\ \A f \in DOMAIN d.receipts \ {e} : c.receipts[f] = d.receipts[f]

LEMMA ReceiptsPut ==
  ASSUME NEW f, IsMap(f, Executions, Receipts), NEW e \in Executions,
         NEW r \in Receipts
  PROVE  /\ IsMap(Put(f, e, r), Executions, Receipts)
         /\ DOMAIN Put(f, e, r) = DOMAIN f \cup {e}
         /\ Put(f, e, r)[e] = r
         /\ \A i \in DOMAIN f \ {e} : Put(f, e, r)[i] = f[i]
  BY DEF IsMap, Put

LEMMA OriginsPutNew ==
  ASSUME NEW f, IsMap(f, Origins, Nat), NEW o \in Origins
  PROVE  IsMap(PutNew(f, o, 0), Origins, Nat)
<1>1. CASE o \in DOMAIN f
  BY <1>1 DEF PutNew
<1>2. CASE o \notin DOMAIN f
  BY <1>2 DEF PutNew, Put, IsMap
<1> QED BY <1>1, <1>2

LEMMA RetriesPut ==
  ASSUME NEW f, IsMap(f, Confirmations, RetryApprovals), NEW k \in Confirmations,
         NEW a \in RetryApprovals
  PROVE  /\ IsMap(Put(f, k, a), Confirmations, RetryApprovals)
         /\ DOMAIN Put(f, k, a) = DOMAIN f \cup {k}
         /\ Put(f, k, a)[k] = a
         /\ \A i \in DOMAIN f \ {k} : Put(f, k, a)[i] = f[i]
  BY DEF IsMap, Put

LEMMA ReserveWrite ==
  ASSUME TypeOK, NEW c \in Callers, NEW S, NEW e \in Executions,
         NEW kept \in BOOLEAN, Reserve(c, S, e, kept)
  PROVE  LET d == Ledger
             p == caller[c]
             o == OriginOf(p.source)
         IN  /\ Adds(data', d, e, NewReceipt(p.source, p.version, 0, S, None))
             /\ o \in Origins
             /\ data'.retries = d.retries
             /\ data'.origins = PutNew(d.origins, o, 0)
<1> DEFINE d == Ledger
           p == caller[c]
           r == NewReceipt(p.source, p.version, 0, S, None)
           o == OriginOf(p.source)
           receipts == Put(d.receipts, e, r)
           origins == PutNew(d.origins, o, 0)
<1>1. LedgerOK(d)
  BY LedgerType
<1>2. p.source \in Sources /\ p.version \in Versions
  BY CallerType DEF Reserve
<1>3. r \in Receipts
  BY <1>2, NewReceiptType
<1>4. o \in Origins
  BY <1>2, OriginType
<1>5. /\ IsMap(d.receipts, Executions, Receipts)
      /\ IsMap(d.origins, Origins, Nat)
  BY <1>1 DEF LedgerOK
<1>6. data' = [d EXCEPT !.receipts = receipts, !.origins = origins]
  BY <1>1 DEF Reserve, AddReceipt, LedgerOK
<1> HIDE DEF d, r, o
<1>7. /\ IsMap(receipts, Executions, Receipts)
      /\ DOMAIN receipts = DOMAIN d.receipts \cup {e}
      /\ receipts[e] = r
      /\ \A f \in DOMAIN d.receipts \ {e} : receipts[f] = d.receipts[f]
  BY <1>3, <1>5, ReceiptsPut
<1>8. IsMap(origins, Origins, Nat)
  BY <1>4, <1>5, OriginsPutNew
<1> HIDE DEF receipts, origins
<1>9. /\ data'.receipts = receipts /\ data'.origins = origins
      /\ data'.retries = d.retries /\ data'.copies = d.copies
      /\ data'.deliveries = d.deliveries
      /\ data' = [origins |-> data'.origins, receipts |-> data'.receipts,
                  retries |-> data'.retries, copies |-> data'.copies,
                  deliveries |-> data'.deliveries]
  BY <1>1, <1>6 DEF LedgerOK
<1>10. LedgerOK(data')
  BY <1>1, <1>7, <1>8, <1>9 DEF LedgerOK
<1>11. Adds(data', d, e, r)
  BY <1>3, <1>7, <1>9, <1>10 DEF Adds
<1> QED
  BY <1>4, <1>9, <1>11 DEF d, r, o, origins

LEMMA PreviewRetryWrite ==
  ASSUME TypeOK, NEW e \in Executions, NEW v \in Versions,
         NEW S \in SUBSET Ordinals, NEW k \in Confirmations,
         PreviewRetry(e, v, S, k),
         OriginOf(Ledger.receipts[e].source) \in DOMAIN Ledger.origins
  PROVE  LET d == Ledger
         IN  /\ LedgerOK(data')
             /\ data'.receipts = d.receipts /\ data'.origins = d.origins
             /\ DOMAIN data'.retries = DOMAIN d.retries \cup {k}
             /\ data'.retries[k].pred = e
             /\ data'.retries[k].origin = OriginOf(d.receipts[e].source)
             /\ \A i \in DOMAIN d.retries \ {k} : data'.retries[i] = d.retries[i]
<1> DEFINE d == Ledger
           o == OriginOf(d.receipts[e].source)
           a == [pred |-> e, version |-> v, selection |-> S, ctx |-> Context,
                 origin |-> o, consumedBy |-> None, revision |-> d.origins[o]]
           retries == Put(d.retries, k, a)
<1>1. LedgerOK(d)
  BY LedgerType
<1>2. e \in DOMAIN d.receipts
  BY DEF PreviewRetry, PredecessorFor
<1>3. /\ d.receipts[e].source \in Sources
      /\ d.origins[o] \in Nat
  BY <1>1, <1>2 DEF LedgerOK, IsMap, Receipts
<1>4. a \in RetryApprovals
  BY <1>3, ContextType, OriginType DEF RetryApprovals
<1>5. data' = [d EXCEPT !.retries = retries]
  BY <1>1 DEF PreviewRetry, LedgerOK
<1>6. IsMap(d.retries, Confirmations, RetryApprovals)
  BY <1>1 DEF LedgerOK
<1>7. a.pred = e /\ a.origin = o
  OBVIOUS
<1> HIDE DEF d, a, o
<1>8. /\ IsMap(retries, Confirmations, RetryApprovals)
      /\ DOMAIN retries = DOMAIN d.retries \cup {k}
      /\ retries[k] = a
      /\ \A i \in DOMAIN d.retries \ {k} : retries[i] = d.retries[i]
  BY <1>4, <1>6, RetriesPut
<1> HIDE DEF retries
<1>9. /\ data'.retries = retries /\ data'.receipts = d.receipts
      /\ data'.origins = d.origins /\ LedgerOK(data')
  BY <1>1, <1>5, <1>8 DEF LedgerOK
<1> QED
  BY <1>7, <1>8, <1>9 DEF d, o

LEMMA ConfirmRetryWrite ==
  ASSUME TypeOK, NEW c \in Callers, NEW k \in Confirmations, NEW e \in Executions,
         NEW kept \in BOOLEAN, ConfirmRetry(c, k, e, kept),
         Ledger.retries[k].origin \in DOMAIN Ledger.origins
  PROVE  LET d == Ledger
             a == d.retries[k]
         IN  /\ Adds(data', d, e,
                     NewReceipt(d.receipts[a.pred].source, a.version,
                                a.revision + 1, a.selection, a.pred))
             /\ k \in DOMAIN d.retries
             /\ a.pred \in DOMAIN d.receipts
             /\ d.origins[a.origin] = a.revision /\ a.revision \in Nat
             /\ data'.origins = [d.origins EXCEPT ![a.origin] = a.revision + 1]
             /\ data'.retries = [d.retries EXCEPT ![k] = [a EXCEPT !.consumedBy = e]]
             /\ a \in RetryApprovals
<1> DEFINE d == Ledger
           a == d.retries[k]
           b == [a EXCEPT !.consumedBy = e]
           n == a.revision + 1
           o == a.origin
           r == NewReceipt(d.receipts[a.pred].source, a.version, n,
                           a.selection, a.pred)
           receipts == Put(d.receipts, e, r)
           origins == [d.origins EXCEPT ![o] = n]
           retries == [d.retries EXCEPT ![k] = b]
<1>1. LedgerOK(d)
  BY LedgerType
<1>2. /\ k \in DOMAIN d.retries /\ a.pred \in DOMAIN d.receipts
      /\ o \in DOMAIN d.origins /\ d.origins[o] = a.revision
  BY DEF ConfirmRetry, RetryCurrent, PredecessorFor
<1>3. /\ IsMap(d.receipts, Executions, Receipts)
      /\ IsMap(d.origins, Origins, Nat)
      /\ IsMap(d.retries, Confirmations, RetryApprovals)
  BY <1>1 DEF LedgerOK
<1>4. a \in RetryApprovals /\ d.receipts[a.pred] \in Receipts
  BY <1>2, <1>3 DEF IsMap
<1>5. /\ a.revision \in Nat /\ n \in Nat /\ a.version \in Versions
      /\ a.pred \in Executions /\ d.receipts[a.pred].source \in Sources
  BY <1>4 DEF RetryApprovals, Receipts
<1>6. b \in RetryApprovals
  BY <1>4 DEF RetryApprovals
<1>7. r \in Receipts
  BY <1>5, NewReceiptType
<1>8. data' = [d EXCEPT !.receipts = receipts, !.origins = origins,
                        !.retries = retries]
  BY <1>1 DEF ConfirmRetry, AddReceipt, LedgerOK
<1> HIDE DEF d, a, b, n, o, r
<1>9. /\ IsMap(receipts, Executions, Receipts)
       /\ DOMAIN receipts = DOMAIN d.receipts \cup {e}
       /\ receipts[e] = r
       /\ \A f \in DOMAIN d.receipts \ {e} : receipts[f] = d.receipts[f]
  <2>1. IsMap(d.receipts, Executions, Receipts) BY <1>3
  <2> QED BY <1>7, <2>1 DEF IsMap, Put
<1>10. IsMap(origins, Origins, Nat)
  BY <1>2, <1>3, <1>5, MapUpdate
<1>11. IsMap(retries, Confirmations, RetryApprovals)
  BY <1>2, <1>3, <1>6, MapUpdate
<1> HIDE DEF receipts, origins, retries
<1>12. /\ data'.receipts = receipts /\ data'.origins = origins
       /\ data'.retries = retries /\ data'.copies = d.copies
       /\ data'.deliveries = d.deliveries
       /\ data' = [origins |-> data'.origins, receipts |-> data'.receipts,
                   retries |-> data'.retries, copies |-> data'.copies,
                   deliveries |-> data'.deliveries]
  BY <1>1, <1>8 DEF LedgerOK
<1>13. LedgerOK(data')
  BY <1>1, <1>9, <1>10, <1>11, <1>12 DEF LedgerOK
<1>14. Adds(data', d, e, r)
  BY <1>7, <1>9, <1>12, <1>13 DEF Adds
<1> QED
  BY <1>2, <1>4, <1>5, <1>12, <1>14 DEF d, a, b, n, o, r, origins, retries

-----------------------------------------------------------------------------
(* The inductive invariant. *)

\* Every receipt is remembered by its stamp.
Recorded(d) ==
  \A e \in DOMAIN d.receipts :
    e \in DOMAIN issued /\ issued[e] = Stamp(d.receipts[e])

\* A receipt that is gone was written in an earlier Work.
Retired(d) ==
  \A e \in DOMAIN issued :
    /\ issued[e].work <= live.work
    /\ e \notin DOMAIN d.receipts => issued[e].work < live.work

\* An origin counts every retry made of its block.
Revisions(d) ==
  \A e \in DOMAIN d.receipts :
    LET o == OriginOf(d.receipts[e].source)
    IN  o \in DOMAIN d.origins /\ d.receipts[e].revision <= d.origins[o]

\* An approval is for the block of the receipt it retries.
Approvals(d) ==
  \A k \in DOMAIN d.retries :
    LET e == d.retries[k].pred
    IN  /\ e \in DOMAIN issued
        /\ e \in DOMAIN d.receipts =>
             d.retries[k].origin = OriginOf(d.receipts[e].source)

\* What may be sent, or was just sent, is a durable intent; what may be sent
\* was not sent before.
Intents(d) ==
  /\ permits \cap inflight = {}
  /\ \A e \in Executions, o \in Ordinals :
       /\ <<e, o>> \in permits => calls[<<e, o>>] = 0
       /\ <<e, o>> \in permits \cup inflight =>
            /\ e \in DOMAIN d.receipts
            /\ d.receipts[e].items[o] = "PROVIDER_INTENT"

\* Nothing is sent twice, and what was sent is on record for good.
Calls(d) ==
  \A e \in Executions, o \in Ordinals :
    /\ calls[<<e, o>>] <= 1
    /\ calls[<<e, o>>] > 0 =>
         /\ e \in DOMAIN issued
         /\ e \in DOMAIN d.receipts =>
              d.receipts[e].items[o] \notin {"ABSENT", "RESERVED"}

Parts(d) ==
  /\ Recorded(d) /\ Retired(d) /\ Revisions(d)
  /\ Approvals(d) /\ Intents(d) /\ Calls(d)

\* No two receipts share a stamp, and no id is given out again.
Distinct ==
  /\ DOMAIN issued \subseteq used
  /\ \A e, f \in DOMAIN issued : issued[e] = issued[f] => e = f

IInv == TypeOK /\ Distinct /\ Parts(data)

\* Compaction keeps the invariant: it removes neither the current Work's
\* receipts nor unfinished ones.
LEMMA LedgerParts ==
  ASSUME IInv
  PROVE  Parts(Ledger)
<1> DEFINE d == Ledger
<1>1. TypeOK /\ Parts(data) BY DEF IInv
<1>2. LedgerOK(d) /\ Keeps(d, data, Context) BY <1>1, LedgerType
<1>3. /\ DOMAIN d.receipts \subseteq DOMAIN data.receipts
      /\ \A e \in DOMAIN d.receipts : d.receipts[e] = data.receipts[e]
  BY <1>2 DEF Keeps
<1>4. \A e \in DOMAIN data.receipts \ DOMAIN d.receipts :
        /\ data.receipts[e].ctx.work # live.work
        /\ Finished(data.receipts[e])
  BY <1>2 DEF Keeps, Context
<1>5. /\ DOMAIN d.retries \subseteq DOMAIN data.retries
      /\ \A k \in DOMAIN d.retries : d.retries[k] = data.retries[k]
  BY <1>2 DEF Keeps
<1>6. \A e \in DOMAIN data.receipts : data.receipts[e] \in Receipts
  BY <1>1 DEF TypeOK, LedgerOK, IsMap
<1>7. Revisions(d)
  <2> SUFFICES ASSUME NEW e \in DOMAIN d.receipts
               PROVE  LET o == OriginOf(d.receipts[e].source)
                      IN  /\ o \in DOMAIN d.origins
                          /\ d.receipts[e].revision <= d.origins[o]
    BY DEF Revisions
  <2> DEFINE o == OriginOf(d.receipts[e].source)
  <2>1. o \in DOMAIN data.origins /\ d.receipts[e].revision <= data.origins[o]
    BY <1>1, <1>3 DEF Parts, Revisions
  <2>2. o \in DOMAIN d.origins
    BY <1>2, <2>1 DEF Keeps
  <2>3. d.origins[o] = data.origins[o]
    BY <1>2, <2>2 DEF Keeps
  <2> QED BY <2>1, <2>2, <2>3
<1> HIDE DEF d
<1>8. Recorded(d)
  BY <1>1, <1>3 DEF Parts, Recorded
<1>9. Retired(d)
  <2> SUFFICES ASSUME NEW e \in DOMAIN issued, e \notin DOMAIN d.receipts
               PROVE  issued[e].work < live.work
    BY <1>1 DEF Parts, Retired
  <2>1. CASE e \notin DOMAIN data.receipts
    BY <1>1, <2>1 DEF Parts, Retired
  <2>2. CASE e \in DOMAIN data.receipts
    <3>1. data.receipts[e].ctx.work # live.work BY <1>4, <2>2
    <3>2. issued[e].work = data.receipts[e].ctx.work
      <4>1. issued[e] = Stamp(data.receipts[e])
        BY <1>1, <2>2 DEF Parts, Recorded
      <4> QED BY <4>1 DEF Stamp
    <3>3. issued[e].work <= live.work BY <1>1 DEF Parts, Retired
    <3>4. issued[e].work \in Nat /\ live.work \in Nat
      BY <1>1, <1>6, <2>2, <3>2 DEF TypeOK, Receipts, Contexts
    <3> QED BY <3>1, <3>2, <3>3, <3>4
  <2> QED BY <2>1, <2>2
<1>10. Approvals(d)
  BY <1>1, <1>3, <1>5 DEF Parts, Approvals
<1>11. Intents(d)
  <2> SUFFICES ASSUME NEW e \in Executions, NEW o \in Ordinals,
                      <<e, o>> \in permits \cup inflight
               PROVE  /\ e \in DOMAIN d.receipts
                      /\ d.receipts[e].items[o] = "PROVIDER_INTENT"
    BY <1>1 DEF Parts, Intents
  <2>1. /\ e \in DOMAIN data.receipts
        /\ data.receipts[e].items[o] = "PROVIDER_INTENT"
    BY <1>1 DEF Parts, Intents
  <2>2. o \in DOMAIN data.receipts[e].items
    BY <1>6, <2>1 DEF Receipts
  <2>3. ~ Finished(data.receipts[e])
    BY <2>1, <2>2 DEF Finished, Items
  <2> QED BY <1>3, <1>4, <2>1, <2>3
<1>12. Calls(d)
  BY <1>1, <1>3 DEF Parts, Calls
<1> QED
  BY <1>7, <1>8, <1>9, <1>10, <1>11, <1>12 DEF Parts, d

\* A write that changes neither the commands nor the approvals of retries.
LEMMA SameCommandsParts ==
  ASSUME IInv, SameCommands(data', Ledger),
         UNCHANGED <<live, permits, inflight, issued, calls>>
  PROVE  Parts(data)'
<1> DEFINE d == Ledger
<1>1. Parts(d) BY LedgerParts
<1>2. SameCommands(data', d) OBVIOUS
<1> HIDE DEF d
<1>3. /\ data'.origins = d.origins /\ data'.retries = d.retries
      /\ DOMAIN data'.receipts = DOMAIN d.receipts
      /\ \A e \in DOMAIN d.receipts :
           /\ data'.receipts[e].source = d.receipts[e].source
           /\ data'.receipts[e].version = d.receipts[e].version
           /\ data'.receipts[e].revision = d.receipts[e].revision
           /\ data'.receipts[e].ctx = d.receipts[e].ctx
           /\ data'.receipts[e].items = d.receipts[e].items
  BY <1>2 DEF SameCommands
<1>4. \A e \in DOMAIN d.receipts : Stamp(data'.receipts[e]) = Stamp(d.receipts[e])
  BY <1>3 DEF Stamp, CommandKey
<1>5. Recorded(data)'
  BY <1>1, <1>3, <1>4 DEF Parts, Recorded
<1>6. Retired(data)'
  BY <1>1, <1>3 DEF Parts, Retired
<1>7. Revisions(data)'
  BY <1>1, <1>3 DEF Parts, Revisions
<1>8. Approvals(data)'
  BY <1>1, <1>3 DEF Parts, Approvals
<1>9. Intents(data)'
  BY <1>1, <1>3 DEF Parts, Intents
<1>10. Calls(data)'
  BY <1>1, <1>3 DEF Parts, Calls
<1> QED
  BY <1>5, <1>6, <1>7, <1>8, <1>9, <1>10 DEF Parts

\* A step that writes nothing and sends nothing.
LEMMA NoWriteParts ==
  ASSUME IInv, live'.work = live.work,
         UNCHANGED <<data, permits, inflight, issued, calls>>
  PROVE  Parts(data)'
BY DEF IInv, Parts, Recorded, Retired, Revisions, Approvals, Intents, Calls

\* One item of a receipt moves on.
LaterStates == {"PROVIDER_INTENT", "RESULT", "UNKNOWN"}

LEMMA ItemParts ==
  ASSUME IInv, NEW e \in DOMAIN Ledger.receipts, NEW o \in Ordinals,
         NEW state \in LaterStates,
         data' = SetItem(Ledger, e, o, state),
         UNCHANGED <<live, issued, calls>>
  PROVE  /\ LedgerOK(data')
         /\ Recorded(data)' /\ Retired(data)' /\ Revisions(data)'
         /\ Approvals(data)' /\ Calls(data)'
         /\ DOMAIN data'.receipts = DOMAIN Ledger.receipts
         /\ \A f \in DOMAIN Ledger.receipts, n \in Ordinals :
              data'.receipts[f].items[n] =
                IF f = e /\ n = o THEN state ELSE Ledger.receipts[f].items[n]
<1> DEFINE d == Ledger
<1>1. Parts(d) /\ LedgerOK(d) BY LedgerParts, LedgerType DEF IInv
<1>2. state \in ItemStates BY DEF ItemStates, LaterStates
<1>3. /\ LedgerOK(data')
      /\ data'.origins = d.origins /\ data'.retries = d.retries
      /\ DOMAIN data'.receipts = DOMAIN d.receipts
      /\ \A f \in DOMAIN d.receipts \ {e} : data'.receipts[f] = d.receipts[f]
      /\ data'.receipts[e] = [d.receipts[e] EXCEPT !.items[o] = state]
  BY <1>1, <1>2, ItemWrite
<1>4. d.receipts[e] \in Receipts BY <1>1 DEF LedgerOK, IsMap
<1>5. e \in DOMAIN d.receipts OBVIOUS
<1> HIDE DEF d
<1>6. \A f \in DOMAIN d.receipts :
        /\ data'.receipts[f].source = d.receipts[f].source
        /\ data'.receipts[f].version = d.receipts[f].version
        /\ data'.receipts[f].revision = d.receipts[f].revision
        /\ data'.receipts[f].ctx = d.receipts[f].ctx
  BY <1>3, <1>4 DEF Receipts
<1>7. \A f \in DOMAIN d.receipts, n \in Ordinals :
        data'.receipts[f].items[n] =
          IF f = e /\ n = o THEN state ELSE d.receipts[f].items[n]
  BY <1>3, <1>4, <1>5 DEF Receipts
<1>8. \A f \in DOMAIN d.receipts : Stamp(data'.receipts[f]) = Stamp(d.receipts[f])
  BY <1>6 DEF Stamp, CommandKey
<1>9. Recorded(data)'
  BY <1>1, <1>3, <1>8 DEF Parts, Recorded
<1>10. Retired(data)'
  BY <1>1, <1>3 DEF Parts, Retired
<1>11. Revisions(data)'
  BY <1>1, <1>3, <1>6 DEF Parts, Revisions
<1>12. Approvals(data)'
  BY <1>1, <1>3, <1>6 DEF Parts, Approvals
<1>13. Calls(data)'
  <2>1. \A f \in DOMAIN d.receipts, n \in Ordinals :
          d.receipts[f].items[n] \notin {"ABSENT", "RESERVED"} =>
            data'.receipts[f].items[n] \notin {"ABSENT", "RESERVED"}
    BY <1>7 DEF LaterStates
  <2> QED BY <1>1, <1>3, <2>1 DEF Parts, Calls
<1> QED
  BY <1>3, <1>7, <1>9, <1>10, <1>11, <1>12, <1>13 DEF d

\* A new receipt, for a command no receipt of the current Work has.
LEMMA AddsParts ==
  ASSUME IInv, NEW e \in Executions, e \notin used, NEW r,
         Adds(data', Ledger, e, r), Issue(e, r), r.ctx = Context,
         \A f \in DOMAIN Ledger.receipts : Stamp(Ledger.receipts[f]) # Stamp(r),
         Revisions(data)', Approvals(data)',
         used' = used \cup {e}, UNCHANGED <<live, permits, inflight, calls>>
  PROVE  /\ IsMap(issued', Executions, Stamps)
         /\ Distinct' /\ Parts(data)'
<1> DEFINE d == Ledger
<1>1. TypeOK /\ Distinct BY DEF IInv
<1>2. Parts(d) BY LedgerParts
<1>3. /\ LedgerOK(data') /\ r \in Receipts
      /\ DOMAIN data'.receipts = DOMAIN d.receipts \cup {e}
      /\ data'.receipts[e] = r
      /\ \A f \in DOMAIN d.receipts \ {e} : data'.receipts[f] = d.receipts[f]
  BY DEF Adds
<1>4. /\ IsMap(issued', Executions, Stamps)
      /\ DOMAIN issued' = DOMAIN issued \cup {e}
      /\ issued'[e] = Stamp(r)
      /\ \A f \in DOMAIN issued \ {e} : issued'[f] = issued[f]
  BY <1>1, <1>3, IssueType
<1>5. e \notin DOMAIN issued
  BY <1>1 DEF Distinct
<1>6. e \notin DOMAIN d.receipts
  BY <1>2, <1>5 DEF Parts, Recorded
<1>7. Stamp(r).work = live.work /\ live.work \in Nat
  BY <1>1 DEF Stamp, Context, TypeOK
<1>8. \A f \in DOMAIN d.receipts : Stamp(d.receipts[f]) # Stamp(r)
  OBVIOUS
<1> HIDE DEF d
<1>9. \A f \in DOMAIN issued : issued[f] # Stamp(r)
  <2> SUFFICES ASSUME NEW f \in DOMAIN issued, issued[f] = Stamp(r) PROVE FALSE
    OBVIOUS
  <2>1. CASE f \in DOMAIN d.receipts
    BY <1>2, <1>8, <2>1 DEF Parts, Recorded
  <2>2. CASE f \notin DOMAIN d.receipts
    BY <1>2, <1>7, <2>2 DEF Parts, Retired
  <2> QED BY <2>1, <2>2
<1>10. Distinct'
  BY <1>1, <1>4, <1>5, <1>9 DEF Distinct
<1>11. Recorded(data)'
  BY <1>2, <1>3, <1>4, <1>5, <1>6 DEF Parts, Recorded
<1>12. Retired(data)'
  BY <1>2, <1>3, <1>4, <1>5, <1>7 DEF Parts, Retired
<1>13. Intents(data)'
  BY <1>2, <1>3, <1>6 DEF Parts, Intents
<1>14. Calls(data)'
  BY <1>2, <1>3, <1>4, <1>5, <1>6 DEF Parts, Calls
<1> QED
  BY <1>4, <1>10, <1>11, <1>12, <1>13, <1>14 DEF Parts

LEMMA NewReceiptFields ==
  ASSUME NEW source, NEW v, NEW n, NEW S, NEW p
  PROVE  LET r == NewReceipt(source, v, n, S, p)
         IN  /\ r.source = source /\ r.version = v /\ r.revision = n
             /\ r.ctx = Context
BY DEF NewReceipt

LEMMA ReserveParts ==
  ASSUME IInv, NEW c \in Callers, NEW S, NEW e \in Executions,
         NEW kept \in BOOLEAN, Reserve(c, S, e, kept)
  PROVE  /\ LedgerOK(data') /\ IsMap(issued', Executions, Stamps)
         /\ Distinct' /\ Parts(data)'
<1> DEFINE d == Ledger
           p == caller[c]
           o == OriginOf(p.source)
           r == NewReceipt(p.source, p.version, 0, S, None)
<1>1. TypeOK BY DEF IInv
<1>2. Parts(d) /\ LedgerOK(d) BY <1>1, LedgerParts, LedgerType
<1>3. /\ Adds(data', d, e, r) /\ o \in Origins
      /\ data'.retries = d.retries /\ data'.origins = PutNew(d.origins, o, 0)
  BY <1>1, ReserveWrite
<1>4. /\ Issue(e, r) /\ e \notin used /\ used' = used \cup {e}
      /\ SameCommand(d, p.source, p.version) = {}
      /\ UNCHANGED <<live, permits, inflight, calls>>
  BY DEF Reserve, Fresh, history
<1>5. /\ r.source = p.source /\ r.version = p.version /\ r.revision = 0
      /\ r.ctx = Context
  BY NewReceiptFields
<1>6. CommandKey(r) = [origin |-> o, version |-> p.version, revision |-> 0]
  BY <1>5 DEF CommandKey
<1>7. \A f \in DOMAIN d.receipts : CommandKey(d.receipts[f]) # CommandKey(r)
  BY <1>4, <1>6 DEF SameCommand
<1> HIDE DEF d, p, r
<1>8. /\ LedgerOK(data') /\ r \in Receipts
      /\ DOMAIN data'.receipts = DOMAIN d.receipts \cup {e}
      /\ data'.receipts[e] = r
      /\ \A f \in DOMAIN d.receipts \ {e} : data'.receipts[f] = d.receipts[f]
  BY <1>3 DEF Adds
<1>9. e \notin DOMAIN issued /\ e \notin DOMAIN d.receipts
  BY <1>2, <1>4 DEF IInv, Distinct, Parts, Recorded
<1>10. Revisions(data)'
  <2> HIDE DEF o
  <2>1. IsMap(d.origins, Origins, Nat)
    BY <1>2 DEF LedgerOK
  <2>2. /\ DOMAIN data'.origins = DOMAIN d.origins \cup {o}
        /\ \A i \in DOMAIN d.origins : data'.origins[i] = d.origins[i]
        /\ data'.origins[o] \in Nat
    BY <1>3, <2>1 DEF IsMap, Put, PutNew
  <2>3. OriginOf(r.source) = o BY <1>5 DEF o
  <2> QED BY <1>2, <1>5, <1>8, <1>9, <2>2, <2>3 DEF Parts, Revisions
<1>11. Approvals(data)'
  <2>1. \A f \in DOMAIN issued : f \in DOMAIN issued'
    BY <1>4 DEF Issue, Put
  <2> QED BY <1>2, <1>3, <1>8, <1>9, <2>1 DEF Parts, Approvals
<1>12. \A f \in DOMAIN d.receipts : Stamp(d.receipts[f]) # Stamp(r)
  BY <1>7 DEF Stamp
<1> QED
  BY <1>3, <1>4, <1>5, <1>8, <1>10, <1>11, <1>12, AddsParts DEF d

LEMMA ConfirmRetryParts ==
  ASSUME IInv, NEW c \in Callers, NEW k \in Confirmations, NEW e \in Executions,
         NEW kept \in BOOLEAN, ConfirmRetry(c, k, e, kept)
  PROVE  /\ LedgerOK(data') /\ IsMap(issued', Executions, Stamps)
         /\ Distinct' /\ Parts(data)'
<1> DEFINE d == Ledger
           a == d.retries[k]
           n == a.revision + 1
           r == NewReceipt(d.receipts[a.pred].source, a.version, n,
                           a.selection, a.pred)
<1>1. TypeOK BY DEF IInv
<1>2. Parts(d) /\ LedgerOK(d) BY <1>1, LedgerParts, LedgerType
<1>3. /\ Issue(e, r) /\ e \notin used /\ used' = used \cup {e}
      /\ k \in DOMAIN d.retries /\ a.pred \in DOMAIN d.receipts
      /\ UNCHANGED <<live, permits, inflight, calls>>
  BY DEF ConfirmRetry, Fresh, PredecessorFor, history
<1>4. /\ a.origin = OriginOf(d.receipts[a.pred].source)
      /\ a.origin \in DOMAIN d.origins
  BY <1>2, <1>3 DEF Parts, Approvals, Revisions
<1>5. /\ Adds(data', d, e, r)
      /\ d.origins[a.origin] = a.revision /\ a.revision \in Nat
      /\ data'.origins = [d.origins EXCEPT ![a.origin] = n]
      /\ data'.retries = [d.retries EXCEPT ![k] = [a EXCEPT !.consumedBy = e]]
      /\ a \in RetryApprovals
  <2>1. Ledger.retries[k].origin \in DOMAIN Ledger.origins
    BY <1>4
  <2> QED BY <1>1, <2>1, ConfirmRetryWrite
<1>6. /\ r.source = d.receipts[a.pred].source /\ r.revision = n
      /\ r.ctx = Context
  BY NewReceiptFields
<1>7. OriginOf(r.source) = a.origin
  BY <1>4, <1>6
<1>8. \A i \in DOMAIN d.retries :
        /\ data'.retries[i].pred = d.retries[i].pred
        /\ data'.retries[i].origin = d.retries[i].origin
  <2> DEFINE b == [a EXCEPT !.consumedBy = e]
  <2>1. b.pred = a.pred /\ b.origin = a.origin
    BY <1>5 DEF RetryApprovals
  <2>2. /\ data'.retries[k] = b
        /\ \A i \in DOMAIN d.retries \ {k} : data'.retries[i] = d.retries[i]
    BY <1>3, <1>5
  <2> HIDE DEF b, d
  <2> QED BY <2>1, <2>2
<1>9. DOMAIN data'.retries = DOMAIN d.retries
  BY <1>5
<1>10. n \in Nat /\ n > a.revision
  BY <1>5
<1> HIDE DEF d, a, r, n
<1>11. /\ LedgerOK(data') /\ r \in Receipts
       /\ DOMAIN data'.receipts = DOMAIN d.receipts \cup {e}
       /\ data'.receipts[e] = r
       /\ \A f \in DOMAIN d.receipts \ {e} : data'.receipts[f] = d.receipts[f]
  BY <1>5 DEF Adds
<1>12. e \notin DOMAIN issued /\ e \notin DOMAIN d.receipts
  BY <1>2, <1>3 DEF IInv, Distinct, Parts, Recorded
<1>13. \A f \in DOMAIN d.receipts : d.receipts[f].revision \in Nat
  BY <1>2 DEF LedgerOK, IsMap, Receipts
<1>14. Revisions(data)'
  <2> SUFFICES ASSUME NEW f \in DOMAIN data'.receipts
               PROVE  LET o == OriginOf(data'.receipts[f].source)
                      IN  /\ o \in DOMAIN data'.origins
                          /\ data'.receipts[f].revision <= data'.origins[o]
    BY DEF Revisions
  <2>1. CASE f = e
    BY <1>4, <1>5, <1>6, <1>7, <1>10, <1>11, <2>1
  <2>2. CASE f # e
    <3> DEFINE o == OriginOf(d.receipts[f].source)
    <3>1. data'.receipts[f] = d.receipts[f] /\ f \in DOMAIN d.receipts
      BY <1>11, <2>2
    <3>2. o \in DOMAIN d.origins /\ d.receipts[f].revision <= d.origins[o]
      BY <1>2, <3>1 DEF Parts, Revisions
    <3>3. CASE o = a.origin
      BY <1>5, <1>10, <1>13, <3>1, <3>2, <3>3
    <3>4. CASE o # a.origin
      BY <1>5, <3>1, <3>2, <3>4
    <3> QED BY <3>3, <3>4
  <2> QED BY <2>1, <2>2
<1>15. Approvals(data)'
  <2>1. \A f \in DOMAIN issued : f \in DOMAIN issued'
    BY <1>3 DEF Issue, Put
  <2> QED BY <1>2, <1>8, <1>9, <1>11, <1>12, <2>1 DEF Parts, Approvals
<1>16. \A f \in DOMAIN d.receipts : Stamp(d.receipts[f]) # Stamp(r)
  <2> SUFFICES ASSUME NEW f \in DOMAIN d.receipts,
                      Stamp(d.receipts[f]) = Stamp(r)
               PROVE  FALSE
    OBVIOUS
  <2>1. CommandKey(d.receipts[f]) = CommandKey(r)
    BY DEF Stamp
  <2>2. /\ OriginOf(d.receipts[f].source) = a.origin
        /\ d.receipts[f].revision = n
    BY <1>6, <1>7, <2>1 DEF CommandKey
  <2>3. d.receipts[f].revision <= a.revision
    BY <1>2, <1>5, <2>2 DEF Parts, Revisions
  <2> QED BY <1>5, <1>10, <2>2, <2>3
<1> QED
  BY <1>3, <1>5, <1>6, <1>11, <1>14, <1>15, <1>16, AddsParts DEF d

LEMMA PreviewRetryParts ==
  ASSUME IInv, NEW e \in Executions, NEW v \in Versions,
         NEW S \in SUBSET Ordinals, NEW k \in Confirmations,
         PreviewRetry(e, v, S, k)
  PROVE  LedgerOK(data') /\ Parts(data)'
<1> DEFINE d == Ledger
<1>1. TypeOK BY DEF IInv
<1>2. Parts(d) BY LedgerParts
<1>3. /\ e \in DOMAIN d.receipts
      /\ UNCHANGED <<live, permits, inflight, issued, calls>>
  BY DEF PreviewRetry, PredecessorFor, memory, history
<1>4. OriginOf(d.receipts[e].source) \in DOMAIN d.origins
  BY <1>2, <1>3 DEF Parts, Revisions
<1>5. /\ LedgerOK(data')
      /\ data'.receipts = d.receipts /\ data'.origins = d.origins
      /\ DOMAIN data'.retries = DOMAIN d.retries \cup {k}
      /\ data'.retries[k].pred = e
      /\ data'.retries[k].origin = OriginOf(d.receipts[e].source)
      /\ \A i \in DOMAIN d.retries \ {k} : data'.retries[i] = d.retries[i]
  BY <1>1, <1>4, PreviewRetryWrite
<1> HIDE DEF d
<1>6. Recorded(data)' BY <1>2, <1>3, <1>5 DEF Parts, Recorded
<1>7. Retired(data)' BY <1>2, <1>3, <1>5 DEF Parts, Retired
<1>8. Revisions(data)' BY <1>2, <1>5 DEF Parts, Revisions
<1>9. Approvals(data)'
  BY <1>2, <1>3, <1>5 DEF Parts, Approvals, Recorded
<1>10. Intents(data)' BY <1>2, <1>3, <1>5 DEF Parts, Intents
<1>11. Calls(data)' BY <1>2, <1>3, <1>5 DEF Parts, Calls
<1> QED
  BY <1>5, <1>6, <1>7, <1>8, <1>9, <1>10, <1>11 DEF Parts

LEMMA BeginParts ==
  ASSUME IInv, NEW o \in Ordinals, NEW kept \in BOOLEAN,
         BeginProviderAttempt(o, kept)
  PROVE  LedgerOK(data') /\ Parts(data)' /\ permits' \subseteq Slots
<1> DEFINE d == Ledger
           e == owner.exec
<1>1. /\ e \in DOMAIN d.receipts
      /\ d.receipts[e].items[o] = "RESERVED"
      /\ data' = SetItem(d, e, o, "PROVIDER_INTENT")
      /\ permits' \in {permits, permits \cup {<<e, o>>}}
      /\ UNCHANGED <<live, inflight, issued, calls>>
  BY DEF BeginProviderAttempt, NotBegun, OwnerRuns, ReceiptFor, history
<1>2. Parts(d) /\ LedgerOK(d)
  BY LedgerParts, LedgerType DEF IInv
<1>3. e \in Executions
  BY <1>1, <1>2 DEF LedgerOK, IsMap
<1>4. "PROVIDER_INTENT" \in LaterStates
  BY DEF LaterStates
<1>5. /\ LedgerOK(data')
      /\ Recorded(data)' /\ Retired(data)' /\ Revisions(data)'
      /\ Approvals(data)' /\ Calls(data)'
      /\ DOMAIN data'.receipts = DOMAIN d.receipts
      /\ \A f \in DOMAIN d.receipts, n \in Ordinals :
           data'.receipts[f].items[n] =
             IF f = e /\ n = o THEN "PROVIDER_INTENT"
                               ELSE d.receipts[f].items[n]
  BY <1>1, <1>4, ItemParts
<1>6. permits' \subseteq Slots
  BY <1>1, <1>3 DEF IInv, TypeOK, Slots
<1> HIDE DEF d, e
<1>7. <<e, o>> \notin permits \cup inflight /\ calls[<<e, o>>] = 0
  <2>1. calls[<<e, o>>] \in Nat
    BY <1>3 DEF IInv, TypeOK, Slots
  <2> QED BY <1>1, <1>2, <1>3, <2>1 DEF Parts, Intents, Calls
<1>8. Intents(data)'
  <2>1. permits' \cap inflight' = {}
    BY <1>1, <1>2, <1>7 DEF Parts, Intents
  <2> SUFFICES ASSUME NEW f \in Executions, NEW n \in Ordinals
               PROVE  /\ <<f, n>> \in permits' => calls'[<<f, n>>] = 0
                      /\ <<f, n>> \in permits' \cup inflight' =>
                           /\ f \in DOMAIN data'.receipts
                           /\ data'.receipts[f].items[n] = "PROVIDER_INTENT"
    BY <2>1 DEF Intents
  <2>2. CASE f = e /\ n = o
    BY <1>1, <1>5, <1>7, <2>2
  <2>3. CASE ~ (f = e /\ n = o)
    <3>1. <<f, n>> \in permits' => <<f, n>> \in permits
      BY <1>1, <2>3
    <3> QED BY <1>1, <1>2, <1>5, <2>3, <3>1 DEF Parts, Intents
  <2> QED BY <2>2, <2>3
<1> QED
  BY <1>5, <1>6, <1>8 DEF Parts

LEMMA RecordOutcomeParts ==
  ASSUME IInv, NEW e \in Executions, NEW o \in Ordinals,
         NEW outcome \in {"RESULT", "UNKNOWN"},
         RecordProviderOutcome(e, o, outcome)
  PROVE  LedgerOK(data') /\ Parts(data)'
<1> DEFINE d == Ledger
<1>1. /\ e \in DOMAIN d.receipts
      /\ <<e, o>> \in inflight
      /\ data' = SetItem(d, e, o, outcome)
      /\ inflight' = inflight \ {<<e, o>>}
      /\ UNCHANGED <<live, permits, issued, calls>>
  BY DEF RecordProviderOutcome, ReceiptFor, history
<1>2. Parts(d) BY LedgerParts
<1>3. outcome \in LaterStates
  BY DEF LaterStates
<1>4. /\ LedgerOK(data')
      /\ Recorded(data)' /\ Retired(data)' /\ Revisions(data)'
      /\ Approvals(data)' /\ Calls(data)'
      /\ DOMAIN data'.receipts = DOMAIN d.receipts
      /\ \A f \in DOMAIN d.receipts, n \in Ordinals :
           data'.receipts[f].items[n] =
             IF f = e /\ n = o THEN outcome ELSE d.receipts[f].items[n]
  <2>1. UNCHANGED <<live, issued, calls>> BY <1>1
  <2>2. e \in DOMAIN Ledger.receipts BY <1>1
  <2>3. data' = SetItem(Ledger, e, o, outcome) BY <1>1
  <2> QED BY <1>3, <2>1, <2>2, <2>3, ItemParts
<1> HIDE DEF d
<1>5. Intents(data)'
  <2>1. permits' \cap inflight' = {}
    BY <1>1, <1>2 DEF Parts, Intents
  <2> SUFFICES ASSUME NEW f \in Executions, NEW n \in Ordinals
               PROVE  /\ <<f, n>> \in permits' => calls'[<<f, n>>] = 0
                      /\ <<f, n>> \in permits' \cup inflight' =>
                           /\ f \in DOMAIN data'.receipts
                           /\ data'.receipts[f].items[n] = "PROVIDER_INTENT"
    BY <2>1 DEF Intents
  <2>2. CASE f = e /\ n = o
    <3>1. <<f, n>> \notin permits' \cup inflight'
      BY <1>1, <1>2, <2>2 DEF Parts, Intents
    <3> QED BY <3>1
  <2>3. CASE ~ (f = e /\ n = o)
    BY <1>1, <1>2, <1>4, <2>3 DEF Parts, Intents
  <2> QED BY <2>2, <2>3
<1> QED
  BY <1>4, <1>5 DEF Parts

LEMMA DispatchParts ==
  ASSUME IInv, NEW e \in Executions, NEW sent \in BOOLEAN, Dispatch(e, sent)
  PROVE  /\ Parts(data)' /\ calls' \in [Slots -> Nat]
         /\ permits' \subseteq Slots /\ inflight' \subseteq Slots
<1> DEFINE group == {s \in permits : s[1] = e}
<1>1. /\ calls' \in {calls, [s \in Slots |-> IF s \in group THEN calls[s] + 1
                                                         ELSE calls[s]]}
      /\ permits' = permits \ group /\ inflight' = inflight \cup group
      /\ UNCHANGED <<live, data, issued>>
  BY DEF Dispatch
<1>2. /\ permits \subseteq Slots /\ inflight \subseteq Slots
      /\ calls \in [Slots -> Nat]
  BY DEF IInv, TypeOK
<1>3. Parts(data) BY DEF IInv
<1>4. group \subseteq permits OBVIOUS
<1>5. /\ calls' \in [Slots -> Nat]
      /\ permits' \subseteq Slots /\ inflight' \subseteq Slots
  BY <1>1, <1>2, <1>4
<1> HIDE DEF group
<1>6. \A f \in Executions, n \in Ordinals :
        calls'[<<f, n>>] # calls[<<f, n>>] =>
          <<f, n>> \in group /\ calls'[<<f, n>>] = calls[<<f, n>>] + 1
  BY <1>1, <1>2 DEF Slots
<1>7. Intents(data)'
  BY <1>1, <1>3, <1>4, <1>6 DEF Parts, Intents
<1>8. Calls(data)'
  <2> SUFFICES ASSUME NEW f \in Executions, NEW n \in Ordinals
               PROVE  /\ calls'[<<f, n>>] <= 1
                      /\ calls'[<<f, n>>] > 0 =>
                           /\ f \in DOMAIN issued'
                           /\ f \in DOMAIN data'.receipts =>
                                data'.receipts[f].items[n] \notin {"ABSENT", "RESERVED"}
    BY DEF Calls
  <2>1. CASE calls'[<<f, n>>] = calls[<<f, n>>]
    BY <1>1, <1>3, <2>1 DEF Parts, Calls
  <2>2. CASE calls'[<<f, n>>] # calls[<<f, n>>]
    <3>1. <<f, n>> \in permits /\ calls'[<<f, n>>] = calls[<<f, n>>] + 1
      BY <1>4, <1>6, <2>2
    <3>2. /\ calls[<<f, n>>] = 0
          /\ f \in DOMAIN data.receipts
          /\ data.receipts[f].items[n] = "PROVIDER_INTENT"
      BY <1>3, <3>1 DEF Parts, Intents
    <3> QED BY <1>1, <1>3, <3>1, <3>2 DEF Parts, Recorded
  <2> QED BY <2>1, <2>2
<1>9. Recorded(data)' /\ Retired(data)' /\ Revisions(data)' /\ Approvals(data)'
  BY <1>1, <1>3 DEF Parts, Recorded, Retired, Revisions, Approvals
<1> QED
  BY <1>5, <1>7, <1>8, <1>9 DEF Parts

LEMMA KeepsDistinct ==
  ASSUME IInv, UNCHANGED issued, used \subseteq used'
  PROVE  Distinct'
BY DEF IInv, Distinct

\* The next-state relation, one group of actions at a time.
LEMMA ClickStep == ASSUME IInv, Click PROVE IInv'
<1>1. TypeOK /\ Distinct BY DEF IInv
<1> PICK c \in Callers :
      \/ \E b \in Blocks, v \in Versions : Prepare(c, b, v)
      \/ \E S \in SUBSET Ordinals \ {{}}, e \in Executions, kept \in BOOLEAN :
           Reserve(c, S, e, kept)
      \/ \E e \in Executions : ReserveDuplicate(c, e)
      \/ Install(c)
      \/ Refuse(c)
  BY DEF Click
<1>2. ASSUME NEW b \in Blocks, NEW v \in Versions, Prepare(c, b, v)
      PROVE  IInv'
  <2>1. /\ UNCHANGED <<live, data, owner, expired, used, permits, inflight,
                       sending, issued, calls, copied>>
        /\ chat' = [chat EXCEPT !.known = @ \cup {b}]
        /\ caller' = [caller EXCEPT ![c] =
             [pc |-> "prepared", version |-> v,
              source |-> [work |-> live.work, block |-> b, doc |-> chat.doc]]]
    BY <1>2 DEF Prepare, history
  <2>2. [pc |-> "prepared", version |-> v,
         source |-> [work |-> live.work, block |-> b, doc |-> chat.doc]]
          \in CallerStates
    BY <1>1 DEF TypeOK, CallerStates, Sources
  <2>3. TypeOK'
    BY <1>1, <2>1, <2>2 DEF TypeOK
  <2>4. Parts(data)' BY <2>1, NoWriteParts
  <2> QED BY <2>1, <2>3, <2>4, KeepsDistinct DEF IInv
<1>3. ASSUME NEW S \in SUBSET Ordinals \ {{}}, NEW e \in Executions,
             NEW kept \in BOOLEAN, Reserve(c, S, e, kept)
      PROVE  IInv'
  <2>1. /\ LedgerOK(data') /\ IsMap(issued', Executions, Stamps)
        /\ Distinct' /\ Parts(data)'
    BY <1>3, ReserveParts
  <2>2. /\ UNCHANGED <<live, chat, owner, expired, permits, inflight, sending,
                       calls, copied>>
        /\ used' = used \cup {e}
        /\ caller' = [caller EXCEPT ![c] =
             IF kept THEN [pc |-> "admitted", exec |-> e, ctx |-> Context] ELSE Idle]
    BY <1>3 DEF Reserve, history
  <2>3. caller' \in [Callers -> CallerStates]
    BY <1>1, <2>2, ContextType DEF TypeOK, CallerStates
  <2>4. TypeOK'
    BY <1>1, <2>1, <2>2, <2>3 DEF TypeOK
  <2> QED BY <2>1, <2>4 DEF IInv
<1>4. ASSUME NEW e \in Executions, ReserveDuplicate(c, e)
      PROVE  IInv'
  <2>1. /\ UNCHANGED <<live, chat, owner, expired, used, permits, inflight,
                       sending, issued, calls, copied>>
        /\ data' = Ledger
        /\ caller'[c] \in {[pc |-> "admitted", exec |-> e, ctx |-> Context], Idle}
        /\ caller' = [caller EXCEPT ![c] = caller'[c]]
    BY <1>1, <1>4 DEF ReserveDuplicate, history, TypeOK
  <2>2. caller' \in [Callers -> CallerStates]
    BY <1>1, <2>1, ContextType DEF TypeOK, CallerStates
  <2>3. LedgerOK(data') BY <1>1, <2>1, LedgerType
  <2>4. SameCommands(data', Ledger)
    BY <2>1, <2>3 DEF SameCommands
  <2>5. Parts(data)' BY <2>1, <2>4, SameCommandsParts
  <2>6. TypeOK' BY <1>1, <2>1, <2>2, <2>3 DEF TypeOK
  <2> QED BY <2>1, <2>5, <2>6, KeepsDistinct DEF IInv
<1>5. ASSUME Install(c) PROVE IInv'
  <2>1. /\ UNCHANGED <<live, chat, data, expired, used, permits, inflight,
                       sending, issued, calls, copied>>
        /\ caller' = [caller EXCEPT ![c] = Idle]
        /\ owner' = [exec |-> caller[c].exec, ctx |-> caller[c].ctx,
                     active |-> TRUE, report |-> FALSE, delivery |-> None]
    BY <1>5 DEF Install, history
  <2>2. caller[c].exec \in Executions /\ caller[c].ctx \in Contexts
    BY <1>1, <1>5, CallerType DEF Install
  <2>3. owner' \in OwnerStates
    BY <2>1, <2>2 DEF OwnerStates
  <2>4. TypeOK' BY <1>1, <2>1, <2>3 DEF TypeOK, CallerStates
  <2>5. Parts(data)' BY <2>1, NoWriteParts
  <2> QED BY <2>1, <2>4, <2>5, KeepsDistinct DEF IInv
<1>6. ASSUME Refuse(c) PROVE IInv'
  <2>1. /\ UNCHANGED <<live, chat, data, owner, expired, used, permits,
                       inflight, sending, issued, calls, copied>>
        /\ caller' = [caller EXCEPT ![c] = Idle]
    BY <1>6 DEF Refuse, history
  <2>2. TypeOK' BY <1>1, <2>1 DEF TypeOK, CallerStates
  <2>3. Parts(data)' BY <2>1, NoWriteParts
  <2> QED BY <2>1, <2>2, <2>3, KeepsDistinct DEF IInv
<1> QED
  BY <1>2, <1>3, <1>4, <1>5, <1>6

LEMMA ProviderStep == ASSUME IInv, Provider PROVE IInv'
<1>1. TypeOK /\ Distinct BY DEF IInv
<1>2. ASSUME NEW o \in Ordinals, NEW kept \in BOOLEAN,
             BeginProviderAttempt(o, kept)
      PROVE  IInv'
  <2>1. LedgerOK(data') /\ Parts(data)' /\ permits' \subseteq Slots
    BY <1>2, BeginParts
  <2>2. UNCHANGED <<live, chat, owner, expired, used, caller, inflight,
                    sending, issued, calls, copied>>
    BY <1>2 DEF BeginProviderAttempt, history
  <2>3. TypeOK' BY <1>1, <2>1, <2>2 DEF TypeOK
  <2> QED BY <2>1, <2>2, <2>3, KeepsDistinct DEF IInv
<1>3. ASSUME NEW e \in Executions, NEW sent \in BOOLEAN, Dispatch(e, sent)
      PROVE  IInv'
  <2>1. /\ Parts(data)' /\ calls' \in [Slots -> Nat]
        /\ permits' \subseteq Slots /\ inflight' \subseteq Slots
    BY <1>3, DispatchParts
  <2>2. UNCHANGED <<live, chat, data, owner, expired, used, caller, sending,
                    issued, copied>>
    BY <1>3 DEF Dispatch
  <2>3. TypeOK' BY <1>1, <2>1, <2>2 DEF TypeOK
  <2> QED BY <2>1, <2>2, <2>3, KeepsDistinct DEF IInv
<1>4. ASSUME NEW e \in Executions, NEW o \in Ordinals,
             NEW outcome \in {"RESULT", "UNKNOWN"},
             RecordProviderOutcome(e, o, outcome)
      PROVE  IInv'
  <2>1. LedgerOK(data') /\ Parts(data)' BY <1>4, RecordOutcomeParts
  <2>2. /\ UNCHANGED <<live, chat, owner, expired, used, caller, permits,
                       sending, issued, calls, copied>>
        /\ inflight' \subseteq inflight
    BY <1>4 DEF RecordProviderOutcome, history
  <2>3. TypeOK' BY <1>1, <2>1, <2>2 DEF TypeOK
  <2> QED BY <2>1, <2>2, <2>3, KeepsDistinct DEF IInv
<1>5. ASSUME NEW e \in Executions, Abandon(e) PROVE IInv'
  <2>1. /\ UNCHANGED <<live, chat, data, owner, expired, used, caller, sending,
                       issued, calls, copied>>
        /\ permits' \subseteq permits /\ inflight' \subseteq inflight
    BY <1>5 DEF Abandon, history
  <2>2. TypeOK' BY <1>1, <2>1 DEF TypeOK
  <2>3. Parts(data)'
    BY <2>1 DEF IInv, Parts, Recorded, Retired, Revisions, Approvals, Intents, Calls
  <2> QED BY <2>1, <2>2, <2>3, KeepsDistinct DEF IInv
<1>6. ASSUME NEW x \in Deliveries, FinishBatch(x) PROVE IInv'
  <2>1. /\ UNCHANGED <<live, chat, data, expired, caller, permits, inflight,
                       sending, issued, calls, copied>>
        /\ used' = used \cup {x}
        /\ owner.active
        /\ owner' = [owner EXCEPT !.report = TRUE, !.delivery = x]
    BY <1>6 DEF FinishBatch, history, memory
  <2>2. owner' \in OwnerStates
    BY <1>1, <2>1, OwnerActive DEF OwnerStates
  <2>3. TypeOK' BY <1>1, <2>1, <2>2 DEF TypeOK
  <2>4. Parts(data)' BY <2>1, NoWriteParts
  <2> QED BY <2>1, <2>3, <2>4, KeepsDistinct DEF IInv
<1>7. ASSUME EndOperation PROVE IInv'
  <2>1. /\ UNCHANGED <<live, chat, data, expired, used, caller, permits,
                       inflight, sending, issued, calls, copied>>
        /\ owner.active
        /\ owner' = [owner EXCEPT !.active = FALSE]
    BY <1>7 DEF EndOperation, history, memory
  <2>2. owner' \in OwnerStates
    BY <1>1, <2>1, OwnerActive DEF OwnerStates
  <2>3. TypeOK' BY <1>1, <2>1, <2>2 DEF TypeOK
  <2>4. Parts(data)' BY <2>1, NoWriteParts
  <2> QED BY <2>1, <2>3, <2>4, KeepsDistinct DEF IInv
<1> QED
  BY <1>2, <1>3, <1>4, <1>5, <1>6, <1>7 DEF Provider

LEMMA RetryStep == ASSUME IInv, Retry PROVE IInv'
<1>1. TypeOK /\ Distinct BY DEF IInv
<1>2. ASSUME NEW e \in Executions, NEW v \in Versions,
             NEW S \in SUBSET Ordinals, NEW k \in Confirmations,
             PreviewRetry(e, v, S, k)
      PROVE  IInv'
  <2>1. LedgerOK(data') /\ Parts(data)' BY <1>2, PreviewRetryParts
  <2>2. /\ UNCHANGED <<live, chat, owner, expired, caller, permits, inflight,
                       sending, issued, calls, copied>>
        /\ used' = used \cup {k}
    BY <1>2 DEF PreviewRetry, memory, history
  <2>3. TypeOK' BY <1>1, <2>1, <2>2 DEF TypeOK
  <2> QED BY <2>1, <2>2, <2>3, KeepsDistinct DEF IInv
<1>3. ASSUME NEW c \in Callers, NEW k \in Confirmations, NEW e \in Executions,
             NEW kept \in BOOLEAN, ConfirmRetry(c, k, e, kept)
      PROVE  IInv'
  <2>1. /\ LedgerOK(data') /\ IsMap(issued', Executions, Stamps)
        /\ Distinct' /\ Parts(data)'
    BY <1>3, ConfirmRetryParts
  <2>2. /\ UNCHANGED <<live, chat, owner, expired, permits, inflight, sending,
                       calls, copied>>
        /\ used' = used \cup {e}
        /\ caller' = [caller EXCEPT ![c] =
             IF kept THEN [pc |-> "admitted", exec |-> e, ctx |-> Context] ELSE Idle]
    BY <1>3 DEF ConfirmRetry, history
  <2>3. caller' \in [Callers -> CallerStates]
    BY <1>1, <2>2, ContextType DEF TypeOK, CallerStates
  <2>4. TypeOK' BY <1>1, <2>1, <2>2, <2>3 DEF TypeOK
  <2> QED BY <2>1, <2>4 DEF IInv
<1> QED
  BY <1>2, <1>3 DEF Retry

LEMMA CopyStep == ASSUME IInv, Copy PROVE IInv'
<1>1. TypeOK /\ Distinct BY DEF IInv
<1>2. ASSUME SameCommands(data', Ledger), TypeOK', used \subseteq used',
             UNCHANGED <<live, permits, inflight, issued, calls>>
      PROVE  IInv'
  BY <1>2, SameCommandsParts, KeepsDistinct DEF IInv
<1>3. ASSUME NEW e \in Executions, NEW outcome \in {"CONFIRMED", "UNKNOWN"},
             RecordDeliveryBuffer(e, outcome)
      PROVE  IInv'
  <2>1. SameCommands(data', Ledger) BY <1>1, <1>3, RecordDeliveryBufferWrite
  <2>2. UNCHANGED <<live, chat, owner, expired, used, caller, permits,
                    inflight, sending, issued, calls, copied>>
    BY <1>3 DEF RecordDeliveryBuffer, memory, history
  <2>3. TypeOK' BY <1>1, <2>1, <2>2 DEF TypeOK, SameCommands
  <2> QED BY <1>2, <2>1, <2>2, <2>3
<1>4. ASSUME NEW e \in Executions, NEW k \in Confirmations, PreviewCopy(e, k)
      PROVE  IInv'
  <2>1. SameCommands(data', Ledger) BY <1>1, <1>4, PreviewCopyWrite
  <2>2. /\ UNCHANGED <<live, chat, owner, expired, caller, permits, inflight,
                       sending, issued, calls, copied>>
        /\ used' = used \cup {k}
    BY <1>4 DEF PreviewCopy, memory, history
  <2>3. TypeOK' BY <1>1, <2>1, <2>2 DEF TypeOK, SameCommands
  <2> QED BY <1>2, <2>1, <2>2, <2>3
<1>5. ASSUME NEW k \in Confirmations, NEW x \in Deliveries, ConfirmCopy(k, x)
      PROVE  IInv'
  <2>1. SameCommands(data', Ledger) BY <1>1, <1>5, ConfirmCopyWrite
  <2>2. /\ UNCHANGED <<live, chat, owner, expired, caller, permits, inflight,
                       sending, issued, calls, copied>>
        /\ used' = used \cup {x}
    BY <1>5 DEF ConfirmCopy, memory, history
  <2>3. TypeOK' BY <1>1, <2>1, <2>2 DEF TypeOK, SameCommands
  <2> QED BY <1>2, <2>1, <2>2, <2>3
<1>6. ASSUME NEW x \in Deliveries, NEW kept \in BOOLEAN, BeginCopyDelivery(x, kept)
      PROVE  IInv'
  <2>1. SameCommands(data', Ledger) BY <1>1, <1>6, BeginCopyDeliveryWrite
  <2>2. /\ UNCHANGED <<live, chat, owner, expired, used, caller, permits,
                       inflight, issued, calls, copied>>
        /\ sending' \in {sending,
             sending \cup {[copy |-> x, over |-> owner.delivery, claimed |-> FALSE]}}
        /\ owner.report
    BY <1>6 DEF BeginCopyDelivery, HoldsReport, history
  <2>3. [copy |-> x, over |-> owner.delivery, claimed |-> FALSE]
          \in [copy : Deliveries, over : Deliveries, claimed : BOOLEAN]
    BY <1>1, <2>2, OwnerDelivery
  <2>4. TypeOK' BY <1>1, <2>1, <2>2, <2>3 DEF TypeOK, SameCommands
  <2> QED BY <1>2, <2>1, <2>2, <2>4
<1>7. ASSUME NEW p \in sending, ClaimCopy(p) PROVE IInv'
  <2>1. p \in [copy : Deliveries, over : Deliveries, claimed : BOOLEAN]
    BY <1>1 DEF TypeOK
  <2>2. /\ UNCHANGED <<live, chat, data, expired, used, caller, permits,
                       inflight, issued, calls>>
        /\ owner.report
        /\ owner' = [owner EXCEPT !.active = TRUE, !.delivery = p.copy]
        /\ copied' = [copied EXCEPT ![p.copy] = @ + 1]
        /\ sending' = (sending \ {p}) \cup {[p EXCEPT !.claimed = TRUE]}
    BY <1>7 DEF ClaimCopy
  <2>3. owner' \in OwnerStates
    BY <1>1, <2>1, <2>2, OwnerReport DEF OwnerStates
  <2>4. [p EXCEPT !.claimed = TRUE]
          \in [copy : Deliveries, over : Deliveries, claimed : BOOLEAN]
    BY <2>1
  <2>5. copied' \in [Deliveries -> Nat]
    BY <1>1, <2>1, <2>2 DEF TypeOK
  <2>6. TypeOK' BY <1>1, <2>2, <2>3, <2>4, <2>5 DEF TypeOK
  <2>7. Parts(data)' BY <2>2, NoWriteParts
  <2> QED BY <2>2, <2>6, <2>7, KeepsDistinct DEF IInv
<1>8. ASSUME NEW p \in sending, AbandonCopy(p) PROVE IInv'
  <2>1. /\ UNCHANGED <<live, chat, data, owner, expired, used, caller, permits,
                       inflight, issued, calls, copied>>
        /\ sending' \subseteq sending
    BY <1>8 DEF AbandonCopy, history
  <2>2. TypeOK' BY <1>1, <2>1 DEF TypeOK
  <2>3. Parts(data)' BY <2>1, NoWriteParts
  <2> QED BY <2>1, <2>2, <2>3, KeepsDistinct DEF IInv
<1>9. ASSUME NEW p \in sending, RecordCopyOutcome(p) PROVE IInv'
  <2>1. SameCommands(data', Ledger) BY <1>1, <1>9, RecordCopyOutcomeWrite
  <2>2. /\ UNCHANGED <<live, chat, owner, expired, used, caller, permits,
                       inflight, issued, calls, copied>>
        /\ sending' \subseteq sending
    BY <1>9 DEF RecordCopyOutcome, history
  <2>3. TypeOK' BY <1>1, <2>1, <2>2 DEF TypeOK, SameCommands
  <2> QED BY <1>2, <2>1, <2>2, <2>3
<1> QED
  BY <1>3, <1>4, <1>5, <1>6, <1>7, <1>8, <1>9 DEF Copy

LEMMA EnvironmentStep == ASSUME IInv, Environment PROVE IInv'
<1>1. TypeOK /\ Distinct BY DEF IInv
<1>2. ASSUME UNCHANGED <<data, owner, used, caller, permits, inflight, sending,
                         issued, calls, copied>>,
             live' \in [account : Accounts, work : Nat, epoch : Nat, active : BOOLEAN],
             live'.work = live.work,
             chat' \in [doc : Nat, known : SUBSET Blocks, baseline : SUBSET Blocks,
                       baselineDoc : Nat],
             expired' \subseteq Executions \cup Confirmations
      PROVE  IInv'
  <2>1. TypeOK' BY <1>1, <1>2 DEF TypeOK
  <2>2. Parts(data)' BY <1>2, NoWriteParts
  <2> QED BY <1>2, <2>1, <2>2, KeepsDistinct DEF IInv
<1>3. CASE FinishWork
  BY <1>1, <1>2, <1>3 DEF FinishWork, TypeOK, memory, history
<1>4. ASSUME NEW a \in Accounts, StartWork(a) PROVE IInv'
  <2>1. /\ UNCHANGED <<data, owner, expired, used, caller, permits, inflight,
                       sending, issued, calls, copied>>
        /\ live' = [account |-> a, work |-> live.work + 1, epoch |-> live.epoch,
                    active |-> TRUE]
        /\ chat' = [chat EXCEPT !.baseline = chat.known, !.baselineDoc = chat.doc]
    BY <1>4 DEF StartWork, memory, history
  <2>2. live.work \in Nat /\ \A e \in DOMAIN issued : issued[e].work \in Nat
    BY <1>1 DEF TypeOK, IsMap, Stamps
  <2>3. TypeOK'
    <3>1. live' \in [account : Accounts, work : Nat, epoch : Nat, active : BOOLEAN]
      BY <1>1, <2>1 DEF TypeOK
    <3>2. chat' \in [doc : Nat, known : SUBSET Blocks, baseline : SUBSET Blocks,
                    baselineDoc : Nat]
      BY <1>1, <2>1 DEF TypeOK
    <3> QED BY <1>1, <2>1, <3>1, <3>2 DEF TypeOK
  <2>4. Retired(data)' BY <2>1, <2>2 DEF IInv, Parts, Retired
  <2>5. Parts(data)'
    BY <2>1, <2>4 DEF IInv, Parts, Recorded, Revisions, Approvals, Intents, Calls
  <2> QED BY <2>1, <2>3, <2>5, KeepsDistinct DEF IInv
<1>5. CASE ChangeAuthority
  BY <1>1, <1>2, <1>5 DEF ChangeAuthority, TypeOK, memory, history
<1>6. CASE ReloadPage
  BY <1>1, <1>2, <1>6 DEF ReloadPage, TypeOK, memory, history
<1>7. ASSUME NEW i \in Executions \cup Confirmations, Expire(i) PROVE IInv'
  BY <1>1, <1>2, <1>7 DEF Expire, TypeOK, memory, history
<1>8. CASE Restart
  <2>1. /\ UNCHANGED <<live, chat, data, owner, expired, used, issued, calls,
                       copied>>
        /\ caller' = [c \in Callers |-> Idle]
        /\ permits' = {} /\ inflight' = {} /\ sending' = {}
    BY <1>8 DEF Restart, history
  <2>2. TypeOK' BY <1>1, <2>1 DEF TypeOK, CallerStates
  <2>3. Parts(data)'
    BY <2>1 DEF IInv, Parts, Recorded, Retired, Revisions, Approvals, Intents, Calls
  <2> QED BY <2>1, <2>2, <2>3, KeepsDistinct DEF IInv
<1> QED
  BY <1>3, <1>4, <1>5, <1>6, <1>7, <1>8 DEF Environment

LEMMA InvInit == Init => IInv
<1> SUFFICES ASSUME Init PROVE IInv OBVIOUS
<1>1. TypeOK BY TypeInit
<1>2. /\ DOMAIN issued = {} /\ permits = {} /\ inflight = {}
      /\ DOMAIN data.receipts = {} /\ DOMAIN data.retries = {}
      /\ \A s \in Slots : calls[s] = 0
  BY DEF Init, EmptyMap, EmptyLedger
<1>3. Distinct BY <1>2 DEF Distinct
<1>4. Parts(data)
  BY <1>2 DEF Parts, Recorded, Retired, Revisions, Approvals, Intents, Calls, Slots
<1> QED BY <1>1, <1>3, <1>4 DEF IInv

LEMMA InvStep == IInv /\ [Next]_vars => IInv'
<1> SUFFICES ASSUME IInv, [Next]_vars PROVE IInv' OBVIOUS
<1>1. CASE UNCHANGED vars
  <2>1. UNCHANGED <<live, chat, data, owner, expired, used, caller, permits,
                    inflight, sending, issued, calls, copied>>
    BY <1>1 DEF vars
  <2>2. TypeOK' BY <2>1 DEF IInv, TypeOK
  <2>3. Parts(data)' BY <2>1, NoWriteParts
  <2> QED BY <2>1, <2>2, <2>3, KeepsDistinct DEF IInv
<1> QED
  BY <1>1, ClickStep, ProviderStep, RetryStep, CopyStep, EnvironmentStep DEF Next

-----------------------------------------------------------------------------
(* The theorems. *)

\* The inductive invariant holds of every behaviour.
THEOREM Invariance == Spec => []IInv
BY InvInit, InvStep, PTL DEF Spec

\* The stored record and the worker's memory always have the shapes the code
\* builds (command-ledger.js reserveCommand to recordCopyOutcome).
THEOREM TypeCorrect == Spec => []TypeOK
<1>1. IInv => TypeOK BY DEF IInv
<1> QED BY <1>1, Invariance, PTL

\* beginProviderAttempt's write comes before the request it permits, whatever
\* crashes, lost answers and changes of Work happen in between.
THEOREM IntentFirst == Spec => []IntentBeforeCall
<1>1. IInv => IntentBeforeCall
  <2> SUFFICES ASSUME IInv PROVE IntentBeforeCall OBVIOUS
  <2>1. /\ permits \subseteq Slots /\ inflight \subseteq Slots
        /\ Intents(data) /\ Calls(data)
    BY DEF IInv, TypeOK, Parts
  <2>2. ASSUME NEW s \in permits \cup inflight
        PROVE  /\ s[1] \in DOMAIN data.receipts
               /\ data.receipts[s[1]].items[s[2]] = "PROVIDER_INTENT"
    <3>1. s[1] \in Executions /\ s[2] \in Ordinals /\ s = <<s[1], s[2]>>
      BY <2>1 DEF Slots
    <3> QED BY <2>1, <3>1 DEF Intents
  <2>3. ASSUME NEW s \in Slots, calls[s] > 0, s[1] \in DOMAIN data.receipts
        PROVE  data.receipts[s[1]].items[s[2]] \notin {"ABSENT", "RESERVED"}
    <3>1. s[1] \in Executions /\ s[2] \in Ordinals /\ s = <<s[1], s[2]>>
      BY DEF Slots
    <3> QED BY <2>1, <2>3, <3>1 DEF Calls
  <2> QED BY <2>2, <2>3 DEF IntentBeforeCall
<1> QED BY <1>1, Invariance, PTL

\* Inside one Work a command of a block reaches the provider at most once:
\* reserveCommand's duplicate check, confirmRetry's revision check and the
\* rule that compaction spares the current Work make stamps unique.
THEOREM AtMostOneCall == Spec => []OneCallPerCommand
<1>1. IInv => OneCallPerCommand
  <2> SUFFICES ASSUME IInv, NEW s \in Slots, NEW t \in Slots,
                      calls[s] > 0, calls[t] > 0, s[2] = t[2],
                      issued[s[1]] = issued[t[1]]
               PROVE  s = t /\ calls[s] = 1
    BY DEF OneCallPerCommand
  <2>1. /\ s[1] \in Executions /\ s[2] \in Ordinals /\ s = <<s[1], s[2]>>
        /\ t[1] \in Executions /\ t[2] \in Ordinals /\ t = <<t[1], t[2]>>
    BY DEF Slots
  <2>2. /\ s[1] \in DOMAIN issued /\ t[1] \in DOMAIN issued /\ calls[s] <= 1
    BY <2>1 DEF IInv, Parts, Calls
  <2>3. s[1] = t[1]
    BY <2>2 DEF IInv, Distinct
  <2>4. calls[s] \in Nat
    BY DEF IInv, TypeOK
  <2> QED BY <2>1, <2>2, <2>3, <2>4
<1> QED BY <1>1, Invariance, PTL
=============================================================================
