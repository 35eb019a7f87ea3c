----------------------------- MODULE LedgerStore -----------------------------
(***************************************************************************)
(* The durable value behind packages/bridge-core/src/execution/            *)
(* command-ledger.js: the field r3_commands of a conversation's manual     *)
(* operation record, and the compaction that every write runs first.       *)
(*                                                                         *)
(* A ledger is a record of five finite maps, present keys being the map's  *)
(* domain.  The code keeps both kinds of approval in one map and tells     *)
(* them apart by "kind"; here they are the maps retries and copies.        *)
(*                                                                         *)
(* Digests, hashes and times are abstracted: a report buffer has one       *)
(* digest, an expiry is a set of expired ids kept by the machine that uses *)
(* this module, and a provider attempt is named by its item.               *)
(***************************************************************************)
EXTENDS Naturals, FiniteSets, Functions

CONSTANTS
  Accounts,       \* seller accounts
  Executions,     \* ids makeId() can give to receipts
  Confirmations,  \* ids of approvals
  Deliveries,     \* ids of report deliveries
  Blocks,         \* command blocks of the chat: (message, block ordinal)
  Versions,       \* hashes of a block's text
  Ordinals,       \* positions of the commands inside a block
  Anchor,         \* Anchor[b]: the message block b belongs to
  LocalBlocks,    \* blocks whose message only has a document-local identity
  MaxMarkers,     \* MAX_MARKERS
  None

ASSUME LedgerConstants ==
  /\ MaxMarkers \in Nat
  /\ IsFiniteSet(Executions) /\ IsFiniteSet(Confirmations)
  /\ IsFiniteSet(Deliveries) /\ IsFiniteSet(Ordinals)
  /\ LocalBlocks \subseteq Blocks
  /\ DOMAIN Anchor = Blocks
  /\ None \notin Executions \cup Confirmations \cup Deliveries

-----------------------------------------------------------------------------
(* Types. *)

\* An execution context, up to the fields no guard tells apart: the account,
\* the Work session, and one epoch for the fields a new authority may change.
Contexts == [account : Accounts, work : Nat, epoch : Nat]

\* Where a command was found: the Work that was live, its block, and the
\* document (page load) that showed it.
Sources == [work : Nat, block : Blocks, doc : Nat]

\* Mutant: the origin names the message and forgets the block.
OriginOfMessage(s) == [work  |-> s.work, block |-> Anchor[s.block],
                       doc   |-> IF s.block \in LocalBlocks THEN s.doc ELSE 0]

\* The identity of a block inside a Work.  A provider's message id survives a
\* page load, a document-local one is qualified by its document.
OriginOf(s) == [work  |-> s.work, block |-> s.block,
                doc   |-> IF s.block \in LocalBlocks THEN s.doc ELSE 0]
Origins == [work : Nat, block : Blocks, doc : Nat]

CommandKeys == [origin : Origins, version : Versions, revision : Nat]

ItemStates == {"ABSENT", "RESERVED", "PROVIDER_INTENT", "RESULT", "UNKNOWN"}

Receipts == [source : Sources, version : Versions, revision : Nat,
             ctx : Contexts, items : [Ordinals -> ItemStates],
             pred : Executions \cup {None},
             buffered : BOOLEAN, deliveryRevision : Nat]

RetryApprovals == [pred : Executions, version : Versions, revision : Nat,
                   selection : SUBSET Ordinals, ctx : Contexts,
                   origin : Origins, consumedBy : Executions \cup {None}]

CopyApprovals == [exec : Executions, revision : Nat, ctx : Contexts,
                  consumedBy : Deliveries \cup {None}]

DeliveryStates == {"COPY_RESERVED", "DELIVERY_INTENT", "CONFIRMED", "UNKNOWN"}

DeliveryRecords == [exec : Executions, conf : Confirmations \cup {None},
                    ctx : Contexts, revision : Nat, original : BOOLEAN,
                    state : DeliveryStates]

\* f maps some of the ids of K to values in V.
IsMap(f, K, V) == DOMAIN f \subseteq K /\ f \in [DOMAIN f -> V]

\* f[k] = v, as an assignment and as a default.
Put(f, k, v)    == [i \in DOMAIN f \cup {k} |-> IF i = k THEN v ELSE f[i]]
PutNew(f, k, v) == IF k \in DOMAIN f THEN f ELSE Put(f, k, v)

LedgerOK(d) ==
  /\ d = [origins |-> d.origins, receipts |-> d.receipts,
          retries |-> d.retries, copies |-> d.copies,
          deliveries |-> d.deliveries]
  /\ IsMap(d.origins, Origins, Nat)
  /\ IsMap(d.receipts, Executions, Receipts)
  /\ IsMap(d.retries, Confirmations, RetryApprovals)
  /\ IsMap(d.copies, Confirmations, CopyApprovals)
  /\ IsMap(d.deliveries, Deliveries, DeliveryRecords)

EmptyMap == [i \in {} |-> None]
EmptyLedger == [origins  |-> EmptyMap, receipts |-> EmptyMap,
                retries  |-> EmptyMap, copies   |-> EmptyMap,
                deliveries |-> EmptyMap]

-----------------------------------------------------------------------------
(* Reading a receipt. *)

\* The commandKey: hash of origin, block version and approval revision.
CommandKey(r) == [origin   |-> OriginOf(r.source), version |-> r.version,
                  revision |-> r.revision]

ItemsIn(r, S)  == {o \in DOMAIN r.items : r.items[o] \in S}
Items(r)       == {o \in DOMAIN r.items : r.items[o] # "ABSENT"}
Uncertain(r)   == ItemsIn(r, {"PROVIDER_INTENT", "UNKNOWN"}) # {}
\* Mutant: a batch with one answer is finished.
FinishedInPart(r) == ItemsIn(r, {"RESULT"}) # {}
Finished(r)    == \A o \in Items(r) : r.items[o] = "RESULT"

\* The fields predecessorFor() compares; the epoch is not one of them.
SameWork(c1, c2) == c1.account = c2.account /\ c1.work = c2.work

Markers(d) == Cardinality(DOMAIN d.receipts) + Cardinality(DOMAIN d.deliveries)
              + Cardinality(DOMAIN d.retries) + Cardinality(DOMAIN d.copies)
\* Mutant: one record too many.
HasCapacityOffByOne(d) == Markers(d) <= MaxMarkers
HasCapacity(d) == Markers(d) < MaxMarkers

-----------------------------------------------------------------------------
(* Compaction: a new Work retires the finished history of earlier ones. *)

ConfirmedDelivery(d, x) ==
  LET dl == d.deliveries[x]
  IN  /\ dl.exec \in DOMAIN d.receipts
      /\ dl.state = "CONFIRMED"
      /\ dl.ctx = d.receipts[dl.exec].ctx
      /\ d.receipts[dl.exec].buffered

CompletedCopy(d, k) ==
  LET a == d.copies[k]
  IN  /\ a.consumedBy \in DOMAIN d.deliveries
      /\ ConfirmedDelivery(d, a.consumedBy)
      /\ d.deliveries[a.consumedBy].exec = a.exec
      /\ d.deliveries[a.consumedBy].conf = k
      /\ d.deliveries[a.consumedBy].revision = a.revision + 1
      /\ a.ctx = d.receipts[a.exec].ctx

\* Mutant: a delivery that is only known to have been tried is settled.
SettledOnceBuffered(d, x) ==
  LET dl == d.deliveries[x]
  IN  dl.exec \in DOMAIN d.receipts /\ d.receipts[dl.exec].buffered

\* Nothing about x's delivery is still uncertain.
SettledDelivery(d, x) ==
  LET dl == d.deliveries[x]
  IN  /\ ConfirmedDelivery(d, x)
      /\ \/ dl.original
         \/ dl.conf \in DOMAIN d.copies /\ CompletedCopy(d, dl.conf)

\* Mutants: other accounts' history goes too; unfinished receipts go too.
CandidatesAnyAccount(d, ctx) ==
  {e \in DOMAIN d.receipts :
     /\ d.receipts[e].ctx.work # ctx.work
     /\ Finished(d.receipts[e])
     /\ \A x \in DOMAIN d.deliveries :
          d.deliveries[x].exec = e => SettledDelivery(d, x)}
CandidatesUnfinished(d, ctx) ==
  {e \in DOMAIN d.receipts :
     /\ d.receipts[e].ctx.account = ctx.account
     /\ d.receipts[e].ctx.work # ctx.work
     /\ \A x \in DOMAIN d.deliveries :
          d.deliveries[x].exec = e => SettledDelivery(d, x)}

\* Receipts of the account's other Works with every item a RESULT and every
\* delivery settled.
Candidates(d, ctx) ==
  {e \in DOMAIN d.receipts :
     /\ d.receipts[e].ctx.account = ctx.account
     /\ d.receipts[e].ctx.work # ctx.work
     /\ Finished(d.receipts[e])
     /\ \A x \in DOMAIN d.deliveries :
          d.deliveries[x].exec = e => SettledDelivery(d, x)}

\* Mutant: the links between an execution and its retry are not followed.
DetachedIgnoringRetries(d, R) ==
  \A k \in DOMAIN d.copies :
    d.copies[k].exec \in R =>
      d.copies[k].consumedBy = None \/ CompletedCopy(d, k)

\* R leaves no link from what stays to what goes.
Detached(d, R) ==
  /\ \A e \in DOMAIN d.receipts \ R : d.receipts[e].pred \notin R
  /\ \A k \in DOMAIN d.copies :
       d.copies[k].exec \in R =>
         d.copies[k].consumedBy = None \/ CompletedCopy(d, k)
  /\ \A k \in DOMAIN d.retries :
       LET a == d.retries[k]
       IN  /\ a.pred \in R => a.consumedBy \in R \cup {None}
           /\ a.consumedBy \in R => a.pred \in R

\* The code deletes from the candidates until nothing changes; what is left is
\* the largest detached subset (detached sets are closed under union).
Removable(d, ctx) == UNION {R \in SUBSET Candidates(d, ctx) : Detached(d, R)}

RemoveReceipts(d, R) ==
  LET receipts == Restrict(d.receipts, DOMAIN d.receipts \ R)
      retries  == Restrict(d.retries,
                    {k \in DOMAIN d.retries :
                       ~ (/\ d.retries[k].pred \in R
                          /\ d.retries[k].consumedBy \in R \cup {None})})
      copies   == Restrict(d.copies,
                    {k \in DOMAIN d.copies :
                       ~ (/\ d.copies[k].exec \in R
                          /\ \/ d.copies[k].consumedBy = None
                             \/ CompletedCopy(d, k))})
      live     == {OriginOf(receipts[e].source) : e \in DOMAIN receipts}
                    \cup {retries[k].origin : k \in DOMAIN retries}
  IN  [origins    |-> Restrict(d.origins, DOMAIN d.origins \cap live),
       receipts   |-> receipts,
       retries    |-> retries,
       copies     |-> copies,
       deliveries |-> Restrict(d.deliveries,
                        {x \in DOMAIN d.deliveries :
                           ~ (/\ d.deliveries[x].state = "CONFIRMED"
                              /\ d.deliveries[x].exec \in R)})]

Compact(d, ctx) == RemoveReceipts(d, Removable(d, ctx))
=============================================================================
