------------------------ MODULE CommandRecordsProofs ------------------------
(***************************************************************************)
(* The records of the ledger together, for any number of callers, blocks,  *)
(* executions and Works: compaction leaves no link to what it removed, the *)
(* capacity is never exceeded, a Work keeps the commands of one page load, *)
(* a confirmed copy is handed over at most once, and no step forgets an    *)
(* effect that may have happened.                                          *)
(***************************************************************************)
EXTENDS CommandHistoryProofs, FiniteSetTheorems

-----------------------------------------------------------------------------
(* The links between the records, and what a ledger is said to hold. *)

\* LinksIntact, of any ledger.
Linked(d) ==
  /\ \A e \in DOMAIN d.receipts :
       /\ d.receipts[e].pred \in DOMAIN d.receipts \cup {None}
       /\ OriginOf(d.receipts[e].source) \in DOMAIN d.origins
  /\ \A k \in DOMAIN d.retries :
       /\ d.retries[k].pred \in DOMAIN d.receipts
       /\ d.retries[k].consumedBy \in DOMAIN d.receipts \cup {None}
       /\ d.retries[k].origin \in DOMAIN d.origins
  /\ \A k \in DOMAIN d.copies :
       /\ d.copies[k].exec \in DOMAIN d.receipts
       /\ d.copies[k].consumedBy \in DOMAIN d.deliveries \cup {None}
  /\ \A x \in DOMAIN d.deliveries :
       /\ d.deliveries[x].exec \in DOMAIN d.receipts
       /\ d.deliveries[x].conf \in DOMAIN d.copies \cup {None}

\* An approval of a copy and the delivery it became are of one report.
Paired(d) ==
  /\ \A k \in DOMAIN d.copies :
       d.copies[k].consumedBy # None =>
         d.deliveries[d.copies[k].consumedBy].exec = d.copies[k].exec
  /\ \A x \in DOMAIN d.deliveries :
       d.deliveries[x].conf # None =>
         d.copies[d.deliveries[x].conf].exec = d.deliveries[x].exec

\* A report counts the copies made of it, and no two of them have one number.
Numbered(d) ==
  /\ \A x \in DOMAIN d.deliveries :
       ~ d.deliveries[x].original =>
         d.deliveries[x].revision <= d.receipts[d.deliveries[x].exec].deliveryRevision
  /\ \A x, y \in DOMAIN d.deliveries :
       /\ ~ d.deliveries[x].original /\ ~ d.deliveries[y].original
       /\ d.deliveries[x].exec = d.deliveries[y].exec
       /\ d.deliveries[x].revision = d.deliveries[y].revision
       => x = y

\* Two local commands of one Work come from one page load.
OneLoad(d) ==
  \A e, f \in DOMAIN d.receipts :
    LET r == d.receipts[e]
        q == d.receipts[f]
    IN  /\ {r.source.block, q.source.block} \subseteq LocalBlocks
        /\ SameWork(r.ctx, q.ctx)
        => r.source.doc = q.source.doc

\* The ids on record have been given out.
Named(d) == DOMAIN d.retries \cup DOMAIN d.copies \cup DOMAIN d.deliveries \subseteq used

\* A copy that is only reserved has not been handed over, and nobody may hand it over.
Waiting(d) ==
  \A x \in DOMAIN d.deliveries :
    d.deliveries[x].state = "COPY_RESERVED" =>
      copied[x] = 0 /\ \A p \in sending : p.copy # x

\* A permit is for one hand-over of its own copy.
Permitted ==
  /\ \A p \in sending :
       /\ p.copy \in used
       /\ ~ p.claimed => copied[p.copy] = 0
  /\ \A p, q \in sending : p.copy = q.copy => p = q
  /\ \A x \in Deliveries : copied[x] <= 1 /\ (copied[x] > 0 => x \in used)
  /\ owner.report => owner.delivery \in used

\* What a ledger always is.
Sound(d) ==
  /\ Linked(d) /\ Paired(d) /\ Numbered(d) /\ OneLoad(d)
  /\ Markers(d) <= MaxMarkers

RecordInv == Sound(data) /\ Named(data) /\ Waiting(data) /\ Permitted

-----------------------------------------------------------------------------
(* Compaction. *)

\* c has some of the records of d, those it lacks are settled, and its links
\* are whole.
Trims(c, d) ==
  /\ DOMAIN c.receipts \subseteq DOMAIN d.receipts
  /\ \A e \in DOMAIN c.receipts : c.receipts[e] = d.receipts[e]
  /\ DOMAIN c.retries \subseteq DOMAIN d.retries
  /\ \A k \in DOMAIN c.retries : c.retries[k] = d.retries[k]
  /\ DOMAIN c.copies \subseteq DOMAIN d.copies
  /\ \A k \in DOMAIN c.copies : c.copies[k] = d.copies[k]
  /\ DOMAIN c.deliveries \subseteq DOMAIN d.deliveries
  /\ \A x \in DOMAIN c.deliveries : c.deliveries[x] = d.deliveries[x]
  /\ \A x \in DOMAIN d.deliveries :
       \/ x \in DOMAIN c.deliveries /\ d.deliveries[x].exec \in DOMAIN c.receipts
       \/ x \notin DOMAIN c.deliveries /\ d.deliveries[x].state = "CONFIRMED"
  /\ Linked(c)

\* Detached sets are closed under union: what compaction removes is one.
LEMMA RemovableDetached ==
  ASSUME NEW d, NEW ctx, LedgerOK(d)
  PROVE  /\ Removable(d, ctx) \subseteq Candidates(d, ctx)
         /\ Detached(d, Removable(d, ctx))
<1> DEFINE R == Removable(d, ctx)
           C == Candidates(d, ctx)
<1>1. R \subseteq C
  BY DEF Removable
<1>2. \A e \in R : \E Q \in SUBSET C : e \in Q /\ Detached(d, Q) /\ Q \subseteq R
  BY DEF Removable
<1> HIDE DEF R, C
<1>3. ASSUME NEW e \in DOMAIN d.receipts \ R PROVE d.receipts[e].pred \notin R
  <2> SUFFICES ASSUME d.receipts[e].pred \in R PROVE FALSE
    OBVIOUS
  <2>1. PICK Q \in SUBSET C :
          d.receipts[e].pred \in Q /\ Detached(d, Q) /\ Q \subseteq R
    BY <1>2
  <2> QED BY <2>1 DEF Detached
<1>4. ASSUME NEW k \in DOMAIN d.copies, d.copies[k].exec \in R
      PROVE  d.copies[k].consumedBy = None \/ CompletedCopy(d, k)
  <2>1. PICK Q \in SUBSET C : d.copies[k].exec \in Q /\ Detached(d, Q)
    BY <1>2, <1>4
  <2> QED BY <2>1 DEF Detached
<1>5. ASSUME NEW k \in DOMAIN d.retries, d.retries[k].pred \in R
      PROVE  d.retries[k].consumedBy \in R \cup {None}
  <2>1. PICK Q \in SUBSET C :
          d.retries[k].pred \in Q /\ Detached(d, Q) /\ Q \subseteq R
    BY <1>2, <1>5
  <2> QED BY <2>1 DEF Detached
<1>6. ASSUME NEW k \in DOMAIN d.retries, d.retries[k].consumedBy \in R
      PROVE  d.retries[k].pred \in R
  <2>1. PICK Q \in SUBSET C :
          d.retries[k].consumedBy \in Q /\ Detached(d, Q) /\ Q \subseteq R
    BY <1>2, <1>6
  <2> QED BY <2>1 DEF Detached
<1>7. Detached(d, R)
  BY <1>3, <1>4, <1>5, <1>6 DEF Detached
<1> QED BY <1>1, <1>7 DEF R, C

\* c is what is left of d without the receipts R.
Remains(c, d, R) ==
  /\ DOMAIN c.receipts = DOMAIN d.receipts \ R
  /\ \A e \in DOMAIN c.receipts : c.receipts[e] = d.receipts[e]
  /\ DOMAIN c.retries =
       {k \in DOMAIN d.retries :
          ~ (/\ d.retries[k].pred \in R
             /\ d.retries[k].consumedBy \in R \cup {None})}
  /\ \A k \in DOMAIN c.retries : c.retries[k] = d.retries[k]
  /\ DOMAIN c.copies =
       {k \in DOMAIN d.copies :
          ~ (/\ d.copies[k].exec \in R
             /\ \/ d.copies[k].consumedBy = None
                \/ CompletedCopy(d, k))}
  /\ \A k \in DOMAIN c.copies : c.copies[k] = d.copies[k]
  /\ DOMAIN c.deliveries =
       {x \in DOMAIN d.deliveries :
          ~ (/\ d.deliveries[x].state = "CONFIRMED"
             /\ d.deliveries[x].exec \in R)}
  /\ \A x \in DOMAIN c.deliveries : c.deliveries[x] = d.deliveries[x]
  /\ DOMAIN c.origins =
       DOMAIN d.origins
         \cap ({OriginOf(c.receipts[e].source) : e \in DOMAIN c.receipts}
                 \cup {c.retries[k].origin : k \in DOMAIN c.retries})

LEMMA CompactFields ==
  ASSUME NEW d, LedgerOK(d), NEW ctx
  PROVE  Remains(Compact(d, ctx), d, Removable(d, ctx))
<1> DEFINE c == Compact(d, ctx)
           R == Removable(d, ctx)
           kept == DOMAIN d.receipts \ R
           keptRetries == {k \in DOMAIN d.retries :
                             ~ (/\ d.retries[k].pred \in R
                                /\ d.retries[k].consumedBy \in R \cup {None})}
           keptCopies == {k \in DOMAIN d.copies :
                            ~ (/\ d.copies[k].exec \in R
                               /\ \/ d.copies[k].consumedBy = None
                                  \/ CompletedCopy(d, k))}
           keptDeliveries == {x \in DOMAIN d.deliveries :
                                ~ (/\ d.deliveries[x].state = "CONFIRMED"
                                   /\ d.deliveries[x].exec \in R)}
           receipts == Restrict(d.receipts, kept)
           retries == Restrict(d.retries, keptRetries)
           copies == Restrict(d.copies, keptCopies)
           deliveries == Restrict(d.deliveries, keptDeliveries)
           keptOrigins == {OriginOf(receipts[e].source) : e \in DOMAIN receipts}
                            \cup {retries[k].origin : k \in DOMAIN retries}
           origins == Restrict(d.origins, DOMAIN d.origins \cap keptOrigins)
<1>1. c = [origins |-> origins, receipts |-> receipts, retries |-> retries,
           copies |-> copies, deliveries |-> deliveries]
  BY Zenon DEF Compact, RemoveReceipts
<1>2. /\ kept \subseteq DOMAIN d.receipts /\ keptRetries \subseteq DOMAIN d.retries
      /\ keptCopies \subseteq DOMAIN d.copies
      /\ keptDeliveries \subseteq DOMAIN d.deliveries
      /\ DOMAIN d.origins \cap keptOrigins \subseteq DOMAIN d.origins
  OBVIOUS
<1> HIDE DEF kept, keptRetries, keptCopies, keptDeliveries, R
<1>3. /\ DOMAIN receipts = kept
      /\ \A e \in kept : receipts[e] = d.receipts[e]
  BY <1>2 DEF Restrict
<1>4. /\ DOMAIN retries = keptRetries
      /\ \A k \in keptRetries : retries[k] = d.retries[k]
  BY <1>2 DEF Restrict
<1>5. /\ DOMAIN copies = keptCopies
      /\ \A k \in keptCopies : copies[k] = d.copies[k]
  BY <1>2 DEF Restrict
<1>6. /\ DOMAIN deliveries = keptDeliveries
      /\ \A x \in keptDeliveries : deliveries[x] = d.deliveries[x]
  BY <1>2 DEF Restrict
<1>7. DOMAIN origins = DOMAIN d.origins \cap keptOrigins
  <2> HIDE DEF keptOrigins
  <2> QED BY DEF Restrict
<1> HIDE DEF receipts, retries, copies, deliveries, origins
<1>8. /\ c.receipts = receipts /\ c.retries = retries /\ c.copies = copies
      /\ c.deliveries = deliveries /\ c.origins = origins
  BY <1>1
<1>9. DOMAIN c.origins =
        DOMAIN d.origins
          \cap ({OriginOf(c.receipts[e].source) : e \in DOMAIN c.receipts}
                  \cup {c.retries[k].origin : k \in DOMAIN c.retries})
  BY <1>7, <1>8, Zenon
<1> HIDE DEF c
<1>10. /\ DOMAIN c.receipts = DOMAIN d.receipts \ R
       /\ \A e \in DOMAIN c.receipts : c.receipts[e] = d.receipts[e]
  BY <1>3, <1>8 DEF kept
<1>11. /\ DOMAIN c.retries = keptRetries
       /\ \A k \in DOMAIN c.retries : c.retries[k] = d.retries[k]
  BY <1>4, <1>8
<1>12. /\ DOMAIN c.copies = keptCopies
       /\ \A k \in DOMAIN c.copies : c.copies[k] = d.copies[k]
  BY <1>5, <1>8
<1>13. /\ DOMAIN c.deliveries = keptDeliveries
       /\ \A x \in DOMAIN c.deliveries : c.deliveries[x] = d.deliveries[x]
  BY <1>6, <1>8
<1> QED
  BY <1>9, <1>10, <1>11, <1>12, <1>13, Zenon
  DEF Remains, c, keptRetries, keptCopies, keptDeliveries, R

\* Compaction leaves no link to a record it removes, and no delivery it removes
\* is unsettled.
LEMMA CompactTrims ==
  ASSUME NEW d, LedgerOK(d), NEW ctx, Linked(d), Paired(d)
  PROVE  Trims(Compact(d, ctx), d)
<1> DEFINE c == Compact(d, ctx)
           R == Removable(d, ctx)
<1>1. Remains(c, d, R)
  BY CompactFields
<1>2. R \subseteq Candidates(d, ctx) /\ Detached(d, R)
  BY RemovableDetached
<1>3. R \subseteq DOMAIN d.receipts
  BY <1>2 DEF Candidates
<1>4. None \notin DOMAIN d.receipts
  BY LedgerConstants DEF LedgerOK, IsMap
<1> HIDE DEF c, R
<1>5. ASSUME NEW x \in DOMAIN d.deliveries, d.deliveries[x].exec \in R
      PROVE  d.deliveries[x].state = "CONFIRMED"
  BY <1>2, <1>5 DEF Candidates, SettledDelivery, ConfirmedDelivery
<1>6. ASSUME NEW e \in DOMAIN c.receipts
      PROVE  /\ c.receipts[e].pred \in DOMAIN c.receipts \cup {None}
             /\ OriginOf(c.receipts[e].source) \in DOMAIN c.origins
  <2>1. e \in DOMAIN d.receipts \ R /\ c.receipts[e] = d.receipts[e]
    BY <1>1 DEF Remains
  <2>2. /\ d.receipts[e].pred \in DOMAIN d.receipts \cup {None}
        /\ OriginOf(d.receipts[e].source) \in DOMAIN d.origins
    BY <2>1 DEF Linked
  <2>3. d.receipts[e].pred \notin R
    BY <1>2, <2>1 DEF Detached
  <2>4. OriginOf(c.receipts[e].source)
          \in {OriginOf(c.receipts[f].source) : f \in DOMAIN c.receipts}
    OBVIOUS
  <2>5. OriginOf(c.receipts[e].source) \in DOMAIN c.origins
    <3>1. OriginOf(c.receipts[e].source) \in DOMAIN d.origins
      BY <2>1, <2>2
    <3> DEFINE S == {OriginOf(c.receipts[f].source) : f \in DOMAIN c.receipts}
               T == {c.retries[k].origin : k \in DOMAIN c.retries}
    <3>2. DOMAIN c.origins = DOMAIN d.origins \cap (S \cup T)
      BY <1>1, Zenon DEF Remains
    <3>3. OriginOf(c.receipts[e].source) \in S
      BY <2>4
    <3> HIDE DEF S, T
    <3> QED BY <3>1, <3>2, <3>3
  <2> QED BY <1>1, <2>1, <2>2, <2>3, <2>5 DEF Remains
<1>7. ASSUME NEW k \in DOMAIN c.retries
      PROVE  /\ c.retries[k].pred \in DOMAIN c.receipts
             /\ c.retries[k].consumedBy \in DOMAIN c.receipts \cup {None}
             /\ c.retries[k].origin \in DOMAIN c.origins
  <2>1. /\ k \in DOMAIN d.retries /\ c.retries[k] = d.retries[k]
        /\ ~ (/\ d.retries[k].pred \in R
              /\ d.retries[k].consumedBy \in R \cup {None})
    BY <1>1 DEF Remains
  <2>2. /\ d.retries[k].pred \in DOMAIN d.receipts
        /\ d.retries[k].consumedBy \in DOMAIN d.receipts \cup {None}
        /\ d.retries[k].origin \in DOMAIN d.origins
    BY <2>1 DEF Linked
  <2>3. d.retries[k].pred \notin R /\ d.retries[k].consumedBy \notin R
    BY <1>2, <2>1 DEF Detached
  <2> QED BY <1>1, <2>1, <2>2, <2>3 DEF Remains
<1>8. ASSUME NEW k \in DOMAIN c.copies
      PROVE  /\ c.copies[k].exec \in DOMAIN c.receipts
             /\ c.copies[k].consumedBy \in DOMAIN c.deliveries \cup {None}
  <2>1. /\ k \in DOMAIN d.copies /\ c.copies[k] = d.copies[k]
        /\ ~ (/\ d.copies[k].exec \in R
              /\ d.copies[k].consumedBy = None \/ CompletedCopy(d, k))
    BY <1>1 DEF Remains
  <2>2. /\ d.copies[k].exec \in DOMAIN d.receipts
        /\ d.copies[k].consumedBy \in DOMAIN d.deliveries \cup {None}
        /\ d.copies[k].consumedBy # None =>
             d.deliveries[d.copies[k].consumedBy].exec = d.copies[k].exec
    BY <2>1 DEF Linked, Paired
  <2>3. d.copies[k].exec \notin R
    BY <1>2, <2>1 DEF Detached
  <2> QED BY <1>1, <2>1, <2>2, <2>3 DEF Remains
<1>9. ASSUME NEW x \in DOMAIN c.deliveries
      PROVE  /\ c.deliveries[x].exec \in DOMAIN c.receipts
             /\ c.deliveries[x].conf \in DOMAIN c.copies \cup {None}
  <2>1. /\ x \in DOMAIN d.deliveries /\ c.deliveries[x] = d.deliveries[x]
        /\ d.deliveries[x].exec \notin R
    BY <1>1, <1>5 DEF Remains
  <2>2. /\ d.deliveries[x].exec \in DOMAIN d.receipts
        /\ d.deliveries[x].conf \in DOMAIN d.copies \cup {None}
        /\ d.deliveries[x].conf # None =>
             d.copies[d.deliveries[x].conf].exec = d.deliveries[x].exec
    BY <2>1 DEF Linked, Paired
  <2> QED BY <1>1, <2>1, <2>2 DEF Remains
<1>10. Linked(c)
  BY <1>6, <1>7, <1>8, <1>9 DEF Linked
<1>11. ASSUME NEW x \in DOMAIN d.deliveries
       PROVE  \/ x \in DOMAIN c.deliveries /\ d.deliveries[x].exec \in DOMAIN c.receipts
              \/ x \notin DOMAIN c.deliveries /\ d.deliveries[x].state = "CONFIRMED"
  BY <1>1, <1>5, <1>9 DEF Remains
<1>12. /\ DOMAIN c.receipts \subseteq DOMAIN d.receipts
       /\ DOMAIN c.retries \subseteq DOMAIN d.retries
       /\ DOMAIN c.copies \subseteq DOMAIN d.copies
       /\ DOMAIN c.deliveries \subseteq DOMAIN d.deliveries
  BY <1>1 DEF Remains
<1>13. Trims(c, d)
  BY <1>1, <1>10, <1>11, <1>12 DEF Trims, Remains
<1> QED BY <1>13 DEF c

\* The records of a ledger are finitely many.
LEMMA MarkersType ==
  ASSUME NEW d, LedgerOK(d)
  PROVE  /\ IsFiniteSet(DOMAIN d.receipts) /\ IsFiniteSet(DOMAIN d.retries)
         /\ IsFiniteSet(DOMAIN d.copies) /\ IsFiniteSet(DOMAIN d.deliveries)
         /\ Cardinality(DOMAIN d.receipts) \in Nat
         /\ Cardinality(DOMAIN d.retries) \in Nat
         /\ Cardinality(DOMAIN d.copies) \in Nat
         /\ Cardinality(DOMAIN d.deliveries) \in Nat
         /\ Markers(d) \in Nat
<1>1. /\ DOMAIN d.receipts \in SUBSET Executions
      /\ DOMAIN d.retries \in SUBSET Confirmations
      /\ DOMAIN d.copies \in SUBSET Confirmations
      /\ DOMAIN d.deliveries \in SUBSET Deliveries
  BY DEF LedgerOK, IsMap
<1>2. /\ IsFiniteSet(DOMAIN d.receipts) /\ IsFiniteSet(DOMAIN d.retries)
      /\ IsFiniteSet(DOMAIN d.copies) /\ IsFiniteSet(DOMAIN d.deliveries)
  BY <1>1, FS_Subset, LedgerConstants
<1>3. /\ Cardinality(DOMAIN d.receipts) \in Nat
      /\ Cardinality(DOMAIN d.retries) \in Nat
      /\ Cardinality(DOMAIN d.copies) \in Nat
      /\ Cardinality(DOMAIN d.deliveries) \in Nat
  BY <1>2, FS_CardinalityType
<1> QED BY <1>2, <1>3 DEF Markers

\* Fewer records, fewer markers.
LEMMA MarkersShrink ==
  ASSUME NEW c, NEW d, LedgerOK(c), LedgerOK(d),
         DOMAIN c.receipts \subseteq DOMAIN d.receipts,
         DOMAIN c.retries \subseteq DOMAIN d.retries,
         DOMAIN c.copies \subseteq DOMAIN d.copies,
         DOMAIN c.deliveries \subseteq DOMAIN d.deliveries
  PROVE  Markers(c) <= Markers(d)
<1>1. /\ Cardinality(DOMAIN c.receipts) <= Cardinality(DOMAIN d.receipts)
      /\ Cardinality(DOMAIN c.retries) <= Cardinality(DOMAIN d.retries)
      /\ Cardinality(DOMAIN c.copies) <= Cardinality(DOMAIN d.copies)
      /\ Cardinality(DOMAIN c.deliveries) <= Cardinality(DOMAIN d.deliveries)
  BY MarkersType, FS_Subset
<1> QED BY <1>1, MarkersType DEF Markers

\* One more record, at most one more marker.
LEMMA MarkersGrow ==
  ASSUME NEW c, NEW d, LedgerOK(c), LedgerOK(d), HasCapacity(d), NEW i,
         \/ /\ DOMAIN c.receipts = DOMAIN d.receipts \cup {i}
            /\ DOMAIN c.retries = DOMAIN d.retries
            /\ DOMAIN c.copies = DOMAIN d.copies
            /\ DOMAIN c.deliveries = DOMAIN d.deliveries
         \/ /\ DOMAIN c.receipts = DOMAIN d.receipts
            /\ DOMAIN c.retries = DOMAIN d.retries \cup {i}
            /\ DOMAIN c.copies = DOMAIN d.copies
            /\ DOMAIN c.deliveries = DOMAIN d.deliveries
         \/ /\ DOMAIN c.receipts = DOMAIN d.receipts
            /\ DOMAIN c.retries = DOMAIN d.retries
            /\ DOMAIN c.copies = DOMAIN d.copies \cup {i}
            /\ DOMAIN c.deliveries = DOMAIN d.deliveries
         \/ /\ DOMAIN c.receipts = DOMAIN d.receipts
            /\ DOMAIN c.retries = DOMAIN d.retries
            /\ DOMAIN c.copies = DOMAIN d.copies
            /\ DOMAIN c.deliveries = DOMAIN d.deliveries \cup {i}
  PROVE  Markers(c) <= MaxMarkers
<1>1. ASSUME NEW S, IsFiniteSet(S)
      PROVE  /\ Cardinality(S) \in Nat
             /\ Cardinality(S \cup {i}) \in Nat
             /\ Cardinality(S \cup {i}) <= Cardinality(S) + 1
  BY <1>1, FS_AddElement, FS_CardinalityType
<1>2. Markers(c) <= Markers(d) + 1
  <2> DEFINE a == Cardinality(DOMAIN d.receipts)
             b == Cardinality(DOMAIN d.deliveries)
             m == Cardinality(DOMAIN d.retries)
             n == Cardinality(DOMAIN d.copies)
             a1 == Cardinality(DOMAIN c.receipts)
             b1 == Cardinality(DOMAIN c.deliveries)
             m1 == Cardinality(DOMAIN c.retries)
             n1 == Cardinality(DOMAIN c.copies)
  <2>1. /\ {a, b, m, n, a1, b1, m1, n1} \subseteq Nat
        /\ Markers(d) = a + b + m + n /\ Markers(c) = a1 + b1 + m1 + n1
    BY MarkersType DEF Markers
  <2>2. \/ a1 <= a + 1 /\ b1 = b /\ m1 = m /\ n1 = n
        \/ a1 = a /\ b1 <= b + 1 /\ m1 = m /\ n1 = n
        \/ a1 = a /\ b1 = b /\ m1 <= m + 1 /\ n1 = n
        \/ a1 = a /\ b1 = b /\ m1 = m /\ n1 <= n + 1
    <3>1. /\ Cardinality(DOMAIN d.receipts \cup {i}) <= a + 1
          /\ Cardinality(DOMAIN d.retries \cup {i}) <= m + 1
          /\ Cardinality(DOMAIN d.copies \cup {i}) <= n + 1
          /\ Cardinality(DOMAIN d.deliveries \cup {i}) <= b + 1
      BY <1>1, MarkersType
    <3> QED BY <3>1, Zenon
  <2> HIDE DEF a, b, m, n, a1, b1, m1, n1
  <2> QED BY <2>1, <2>2
<1>3. Markers(c) \in Nat /\ Markers(d) \in Nat /\ MaxMarkers \in Nat
  BY MarkersType, LedgerConstants
<1> QED BY <1>2, <1>3 DEF HasCapacity

\* The compacted ledger is as sound as the one on record.
LEMMA LedgerSound ==
  ASSUME IInv, RecordInv
  PROVE  /\ LedgerOK(Ledger) /\ Trims(Ledger, data)
         /\ Sound(Ledger) /\ Named(Ledger) /\ Waiting(Ledger)
         /\ DOMAIN Ledger.receipts \subseteq used
<1> DEFINE d == Ledger
<1>1. TypeOK /\ LedgerOK(data) /\ LedgerOK(d)
  BY LedgerType DEF IInv, TypeOK
<1>2. Trims(d, data)
  BY <1>1, CompactTrims DEF RecordInv, Sound, Ledger
<1>3. /\ Linked(data) /\ Paired(data) /\ Numbered(data) /\ OneLoad(data)
      /\ Named(data) /\ Waiting(data) /\ Markers(data) <= MaxMarkers
  BY DEF RecordInv, Sound
<1>4. DOMAIN data.receipts \subseteq used
  BY DEF IInv, Distinct, Parts, Recorded
<1> HIDE DEF d
<1>5. Paired(d)
  <2>1. ASSUME NEW k \in DOMAIN d.copies, d.copies[k].consumedBy # None
        PROVE  d.deliveries[d.copies[k].consumedBy].exec = d.copies[k].exec
    <3>1. k \in DOMAIN data.copies /\ d.copies[k] = data.copies[k]
      BY <1>2 DEF Trims
    <3>2. d.copies[k].consumedBy \in DOMAIN d.deliveries
      BY <1>2, <2>1 DEF Trims, Linked
    <3>3. d.deliveries[d.copies[k].consumedBy] = data.deliveries[d.copies[k].consumedBy]
      BY <1>2, <3>2 DEF Trims
    <3> QED BY <1>3, <2>1, <3>1, <3>3 DEF Paired
  <2>2. ASSUME NEW x \in DOMAIN d.deliveries, d.deliveries[x].conf # None
        PROVE  d.copies[d.deliveries[x].conf].exec = d.deliveries[x].exec
    <3>1. x \in DOMAIN data.deliveries /\ d.deliveries[x] = data.deliveries[x]
      BY <1>2 DEF Trims
    <3>2. d.deliveries[x].conf \in DOMAIN d.copies
      BY <1>2, <2>2 DEF Trims, Linked
    <3>3. d.copies[d.deliveries[x].conf] = data.copies[d.deliveries[x].conf]
      BY <1>2, <3>2 DEF Trims
    <3> QED BY <1>3, <2>2, <3>1, <3>3 DEF Paired
  <2> QED BY <2>1, <2>2 DEF Paired
<1>6. Numbered(d)
  <2>1. ASSUME NEW x \in DOMAIN d.deliveries
        PROVE  /\ x \in DOMAIN data.deliveries
               /\ d.deliveries[x] = data.deliveries[x]
               /\ d.receipts[d.deliveries[x].exec] = data.receipts[d.deliveries[x].exec]
    BY <1>2 DEF Trims, Linked
  <2> QED BY <1>3, <2>1 DEF Numbered
<1>7. OneLoad(d)
  BY <1>2, <1>3 DEF OneLoad, Trims
<1>8. Named(d) /\ Waiting(d)
  BY <1>2, <1>3 DEF Named, Waiting, Trims
<1>9. Markers(d) <= MaxMarkers
  <2>1. Markers(d) <= Markers(data)
    BY <1>1, <1>2, MarkersShrink DEF Trims
  <2>2. Markers(d) \in Nat /\ Markers(data) \in Nat /\ MaxMarkers \in Nat
    BY <1>1, MarkersType, LedgerConstants
  <2> QED BY <1>3, <2>1, <2>2
<1>10. DOMAIN d.receipts \subseteq used
  BY <1>2, <1>4 DEF Trims
<1>11. Linked(d)
  BY <1>2 DEF Trims
<1> QED
  BY <1>1, <1>2, <1>5, <1>6, <1>7, <1>8, <1>9, <1>10, <1>11 DEF Sound, d

\* c differs from d in the items and reports of its receipts and in the state
\* of its deliveries only.
SameLinks(c, d) ==
  /\ LedgerOK(c)
  /\ c.origins = d.origins /\ c.retries = d.retries /\ c.copies = d.copies
  /\ DOMAIN c.receipts = DOMAIN d.receipts
  /\ \A e \in DOMAIN d.receipts :
       /\ c.receipts[e].source = d.receipts[e].source
       /\ c.receipts[e].ctx = d.receipts[e].ctx
       /\ c.receipts[e].pred = d.receipts[e].pred
       /\ c.receipts[e].deliveryRevision = d.receipts[e].deliveryRevision
  /\ DOMAIN c.deliveries = DOMAIN d.deliveries
  /\ \A x \in DOMAIN d.deliveries :
       /\ c.deliveries[x].exec = d.deliveries[x].exec
       /\ c.deliveries[x].conf = d.deliveries[x].conf
       /\ c.deliveries[x].revision = d.deliveries[x].revision
       /\ c.deliveries[x].original = d.deliveries[x].original

LEMMA SameLinksSound ==
  ASSUME NEW c, NEW d, LedgerOK(d), Sound(d), SameLinks(c, d)
  PROVE  Sound(c)
<1>1. Linked(c)
  BY DEF Sound, SameLinks, Linked
<1>2. Paired(c)
  <2>1. \A k \in DOMAIN d.copies : d.copies[k].consumedBy # None =>
          d.copies[k].consumedBy \in DOMAIN d.deliveries
    BY DEF Sound, Linked
  <2> QED BY <2>1 DEF Sound, SameLinks, Paired
<1>3. Numbered(c)
  <2>1. \A x \in DOMAIN d.deliveries : d.deliveries[x].exec \in DOMAIN d.receipts
    BY DEF Sound, Linked
  <2> QED BY <2>1 DEF Sound, SameLinks, Numbered
<1>4. OneLoad(c)
  BY DEF Sound, SameLinks, OneLoad
<1>5. Markers(c) <= MaxMarkers
  <2>1. Markers(c) = Markers(d)
    BY DEF SameLinks, Markers
  <2> QED BY <2>1 DEF Sound
<1> QED BY <1>1, <1>2, <1>3, <1>4, <1>5 DEF Sound

\* A ledger shares its own links, an item write and a delivery's move keep them.
LEMMA ItemLinks ==
  ASSUME NEW d, LedgerOK(d), NEW e \in DOMAIN d.receipts, NEW o \in Ordinals,
         NEW state \in ItemStates
  PROVE  SameLinks(SetItem(d, e, o, state), d)
<1> DEFINE c == SetItem(d, e, o, state)
<1>1. /\ LedgerOK(c)
      /\ c.origins = d.origins /\ c.retries = d.retries
      /\ DOMAIN c.receipts = DOMAIN d.receipts
      /\ \A f \in DOMAIN d.receipts \ {e} : c.receipts[f] = d.receipts[f]
      /\ c.receipts[e] = [d.receipts[e] EXCEPT !.items[o] = state]
  BY ItemWrite
<1>2. c.copies = d.copies /\ c.deliveries = d.deliveries
  BY DEF LedgerOK, SetItem
<1>3. d.receipts[e] \in Receipts
  BY DEF LedgerOK, IsMap
<1> HIDE DEF c
<1>4. /\ c.receipts[e].source = d.receipts[e].source
      /\ c.receipts[e].ctx = d.receipts[e].ctx
      /\ c.receipts[e].pred = d.receipts[e].pred
      /\ c.receipts[e].deliveryRevision = d.receipts[e].deliveryRevision
  BY <1>1, <1>3 DEF Receipts
<1>5. SameLinks(c, d)
  BY <1>1, <1>2, <1>4 DEF SameLinks
<1> QED BY <1>5 DEF c

LEMMA DeliveryLinks ==
  ASSUME NEW d, LedgerOK(d), NEW x \in DOMAIN d.deliveries,
         NEW state \in DeliveryStates,
         NEW c, c = [d EXCEPT !.deliveries[x].state = state]
  PROVE  /\ SameLinks(c, d)
         /\ c.receipts = d.receipts
         /\ c.deliveries[x].state = state
         /\ \A y \in DOMAIN d.deliveries \ {x} : c.deliveries[y] = d.deliveries[y]
<1>1. LedgerOK(c)
  BY DeliveryWrite DEF SameCommands
<1>2. d.deliveries[x] \in DeliveryRecords
  BY DEF LedgerOK, IsMap
<1>3. /\ c.origins = d.origins /\ c.retries = d.retries /\ c.copies = d.copies
      /\ c.receipts = d.receipts
      /\ c.deliveries = [d.deliveries EXCEPT ![x] = [d.deliveries[x] EXCEPT !.state = state]]
  BY DEF LedgerOK
<1>4. /\ DOMAIN c.deliveries = DOMAIN d.deliveries
      /\ c.deliveries[x] = [d.deliveries[x] EXCEPT !.state = state]
      /\ \A y \in DOMAIN d.deliveries \ {x} : c.deliveries[y] = d.deliveries[y]
  BY <1>3
<1>5. /\ c.deliveries[x].exec = d.deliveries[x].exec
      /\ c.deliveries[x].conf = d.deliveries[x].conf
      /\ c.deliveries[x].revision = d.deliveries[x].revision
      /\ c.deliveries[x].original = d.deliveries[x].original
      /\ c.deliveries[x].state = state
  BY <1>2, <1>4 DEF DeliveryRecords
<1>6. SameLinks(c, d)
  BY <1>1, <1>3, <1>4, <1>5 DEF SameLinks
<1> QED BY <1>3, <1>4, <1>5, <1>6

-----------------------------------------------------------------------------
(* The writes that add a record. *)

\* r comes from the page load of its Work's other document-local commands.
SameLoad(d, r) ==
  \A f \in DOMAIN d.receipts :
    LET q == d.receipts[f]
    IN  /\ {r.source.block, q.source.block} \subseteq LocalBlocks
        /\ SameWork(r.ctx, q.ctx)
        => r.source.doc = q.source.doc

LEMMA AddsSound ==
  ASSUME NEW c, NEW d, NEW e, NEW r, LedgerOK(d), Sound(d), HasCapacity(d),
         Adds(c, d, e, r), e \notin DOMAIN d.receipts,
         c.copies = d.copies, c.deliveries = d.deliveries,
         DOMAIN d.origins \cup {OriginOf(r.source)} \subseteq DOMAIN c.origins,
         DOMAIN c.retries = DOMAIN d.retries,
         \A k \in DOMAIN d.retries :
           /\ c.retries[k].pred = d.retries[k].pred
           /\ c.retries[k].origin = d.retries[k].origin
           /\ c.retries[k].consumedBy \in {d.retries[k].consumedBy, e},
         r.pred \in DOMAIN d.receipts \cup {None},
         SameLoad(d, r)
  PROVE  Sound(c)
<1>1. /\ DOMAIN c.receipts = DOMAIN d.receipts \cup {e}
      /\ c.receipts[e] = r /\ LedgerOK(c)
      /\ \A f \in DOMAIN d.receipts : c.receipts[f] = d.receipts[f]
  BY DEF Adds
<1>2. Linked(d) /\ Paired(d) /\ Numbered(d) /\ OneLoad(d)
  BY DEF Sound
<1>3. Linked(c)
  <2>1. \A f \in DOMAIN c.receipts :
          /\ c.receipts[f].pred \in DOMAIN c.receipts \cup {None}
          /\ OriginOf(c.receipts[f].source) \in DOMAIN c.origins
    BY <1>1, <1>2 DEF Linked
  <2>2. \A k \in DOMAIN c.retries :
          /\ c.retries[k].pred \in DOMAIN c.receipts
          /\ c.retries[k].consumedBy \in DOMAIN c.receipts \cup {None}
          /\ c.retries[k].origin \in DOMAIN c.origins
    BY <1>1, <1>2 DEF Linked
  <2>3. \A k \in DOMAIN c.copies :
          /\ c.copies[k].exec \in DOMAIN c.receipts
          /\ c.copies[k].consumedBy \in DOMAIN c.deliveries \cup {None}
    BY <1>1, <1>2 DEF Linked
  <2>4. \A x \in DOMAIN c.deliveries :
          /\ c.deliveries[x].exec \in DOMAIN c.receipts
          /\ c.deliveries[x].conf \in DOMAIN c.copies \cup {None}
    BY <1>1, <1>2 DEF Linked
  <2> QED BY <2>1, <2>2, <2>3, <2>4 DEF Linked
<1>4. Paired(c)
  BY <1>2 DEF Paired
<1>5. Numbered(c)
  <2>1. \A x \in DOMAIN d.deliveries :
          c.receipts[d.deliveries[x].exec] = d.receipts[d.deliveries[x].exec]
    BY <1>1, <1>2 DEF Linked
  <2> QED BY <1>2, <2>1 DEF Numbered
<1>6. OneLoad(c)
  <2> SUFFICES ASSUME NEW f \in DOMAIN c.receipts, NEW g \in DOMAIN c.receipts,
                      c.receipts[f].source.block \in LocalBlocks,
                      c.receipts[g].source.block \in LocalBlocks,
                      SameWork(c.receipts[f].ctx, c.receipts[g].ctx)
               PROVE  c.receipts[f].source.doc = c.receipts[g].source.doc
    BY DEF OneLoad
  <2>1. CASE f \in DOMAIN d.receipts /\ g \in DOMAIN d.receipts
    BY <1>1, <1>2, <2>1 DEF OneLoad
  <2>2. CASE f = e /\ g \in DOMAIN d.receipts
    BY <1>1, <2>2 DEF SameLoad
  <2>3. CASE f \in DOMAIN d.receipts /\ g = e
    <3>1. SameWork(r.ctx, d.receipts[f].ctx)
      BY <1>1, <2>3 DEF SameWork
    <3> QED BY <1>1, <2>3, <3>1 DEF SameLoad
  <2> QED BY <1>1, <2>1, <2>2, <2>3
<1>7. Markers(c) <= MaxMarkers
  BY <1>1, MarkersGrow
<1> QED BY <1>3, <1>4, <1>5, <1>6, <1>7 DEF Sound

LEMMA ReserveSound ==
  ASSUME IInv, RecordInv, NEW c \in Callers, NEW S, NEW e \in Executions,
         NEW kept \in BOOLEAN, Reserve(c, S, e, kept)
  PROVE  /\ Sound(data')
         /\ data'.retries = Ledger.retries /\ data'.copies = Ledger.copies
         /\ data'.deliveries = Ledger.deliveries
<1> DEFINE d == Ledger
           p == caller[c]
           o == OriginOf(p.source)
           r == NewReceipt(p.source, p.version, 0, S, None)
<1>1. /\ LedgerOK(d) /\ Sound(d) /\ DOMAIN d.receipts \subseteq used
  BY LedgerSound
<1>2. /\ Adds(data', d, e, r) /\ o \in Origins
      /\ data'.retries = d.retries /\ data'.origins = PutNew(d.origins, o, 0)
  BY ReserveWrite DEF IInv
<1>3. /\ data'.copies = d.copies /\ data'.deliveries = d.deliveries
  BY <1>1 DEF Reserve, AddReceipt, LedgerOK
<1>4. HasCapacity(d) /\ e \notin used /\ ~ Fenced(d, p.source)
  BY DEF Reserve, Fresh
<1>5. r.source = p.source /\ r.pred = None /\ r.ctx = Context
  BY DEF NewReceipt
<1>6. DOMAIN d.origins \cup {o} \subseteq DOMAIN data'.origins
  BY <1>2 DEF PutNew, Put
<1>7. \A k \in DOMAIN d.retries :
        /\ data'.retries[k].pred = d.retries[k].pred
        /\ data'.retries[k].origin = d.retries[k].origin
        /\ data'.retries[k].consumedBy \in {d.retries[k].consumedBy, e}
  BY <1>2
<1>8. SameLoad(d, r)
  <2> SUFFICES ASSUME NEW f \in DOMAIN d.receipts,
                      r.source.block \in LocalBlocks,
                      d.receipts[f].source.block \in LocalBlocks,
                      SameWork(r.ctx, d.receipts[f].ctx)
               PROVE  r.source.doc = d.receipts[f].source.doc
    BY DEF SameLoad
  <2>1. d.receipts[f].ctx.work = live.work
    BY <1>5 DEF SameWork, Context
  <2> HIDE DEF d, r
  <2> QED BY <1>4, <1>5, <2>1 DEF Fenced
<1> HIDE DEF d, o, r
<1>9. Sound(data')
  <2>1. e \notin DOMAIN d.receipts /\ OriginOf(r.source) = o
    BY <1>1, <1>4, <1>5 DEF o
  <2>2. r.pred \in DOMAIN d.receipts \cup {None} /\ DOMAIN data'.retries = DOMAIN d.retries
    BY <1>2, <1>5
  <2> QED
    BY <1>1, <1>2, <1>3, <1>4, <1>6, <1>7, <1>8, <2>1, <2>2, AddsSound
<1> QED BY <1>2, <1>3, <1>9 DEF d

LEMMA ConfirmRetrySound ==
  ASSUME IInv, RecordInv, NEW c \in Callers, NEW k \in Confirmations,
         NEW e \in Executions, NEW kept \in BOOLEAN, ConfirmRetry(c, k, e, kept)
  PROVE  /\ Sound(data')
         /\ DOMAIN data'.retries = DOMAIN Ledger.retries
         /\ data'.copies = Ledger.copies /\ data'.deliveries = Ledger.deliveries
<1> DEFINE d == Ledger
           a == d.retries[k]
           r == NewReceipt(d.receipts[a.pred].source, a.version, a.revision + 1,
                           a.selection, a.pred)
<1>1. /\ LedgerOK(d) /\ Sound(d) /\ DOMAIN d.receipts \subseteq used
  BY LedgerSound
<1>2. /\ k \in DOMAIN d.retries /\ a.pred \in DOMAIN d.receipts
      /\ SameWork(d.receipts[a.pred].ctx, Context)
      /\ HasCapacity(d) /\ e \notin used
  BY DEF ConfirmRetry, PredecessorFor, Fresh
<1>3. a.origin \in DOMAIN d.origins
  BY <1>1, <1>2 DEF Sound, Linked
<1>4. /\ Adds(data', d, e, r)
      /\ data'.origins = [d.origins EXCEPT ![a.origin] = a.revision + 1]
      /\ data'.retries = [d.retries EXCEPT ![k] = [a EXCEPT !.consumedBy = e]]
      /\ a \in RetryApprovals
  BY <1>3, ConfirmRetryWrite DEF IInv
<1>5. data'.copies = d.copies /\ data'.deliveries = d.deliveries
  BY <1>1 DEF ConfirmRetry, AddReceipt, LedgerOK
<1>6. /\ r.source = d.receipts[a.pred].source /\ r.pred = a.pred /\ r.ctx = Context
  BY DEF NewReceipt
<1>7. OriginOf(r.source) \in DOMAIN d.origins
  BY <1>1, <1>2, <1>6 DEF Sound, Linked
<1>8. SameLoad(d, r)
  <2> SUFFICES ASSUME NEW f \in DOMAIN d.receipts,
                      r.source.block \in LocalBlocks,
                      d.receipts[f].source.block \in LocalBlocks,
                      SameWork(r.ctx, d.receipts[f].ctx)
               PROVE  r.source.doc = d.receipts[f].source.doc
    BY DEF SameLoad
  <2> HIDE DEF d, r
  <2>1. SameWork(d.receipts[a.pred].ctx, d.receipts[f].ctx)
    BY <1>2, <1>6 DEF SameWork
  <2>2. a.pred \in DOMAIN d.receipts /\ d.receipts[a.pred].source.block \in LocalBlocks
    BY <1>1, <1>2, <1>6
  <2>3. d.receipts[a.pred].source.doc = d.receipts[f].source.doc
    BY <1>1, <2>1, <2>2 DEF Sound, OneLoad
  <2> QED BY <1>6, <2>3
<1> HIDE DEF d, r
<1>9. /\ DOMAIN data'.retries = DOMAIN d.retries
      /\ DOMAIN data'.origins = DOMAIN d.origins
      /\ \A i \in DOMAIN d.retries :
           /\ data'.retries[i].pred = d.retries[i].pred
           /\ data'.retries[i].origin = d.retries[i].origin
           /\ data'.retries[i].consumedBy \in {d.retries[i].consumedBy, e}
  <2>1. /\ DOMAIN data'.retries = DOMAIN d.retries
        /\ data'.retries[k] = [a EXCEPT !.consumedBy = e]
        /\ \A i \in DOMAIN d.retries \ {k} : data'.retries[i] = d.retries[i]
    BY <1>2, <1>4
  <2>2. /\ data'.retries[k].pred = a.pred /\ data'.retries[k].origin = a.origin
        /\ data'.retries[k].consumedBy = e
    BY <1>4, <2>1 DEF RetryApprovals
  <2> QED BY <1>4, <2>1, <2>2
<1>10. Sound(data')
  <2>1. /\ e \notin DOMAIN d.receipts /\ r.pred \in DOMAIN d.receipts \cup {None}
        /\ DOMAIN d.origins \cup {OriginOf(r.source)} \subseteq DOMAIN data'.origins
    BY <1>1, <1>2, <1>6, <1>7, <1>9
  <2> QED BY <1>1, <1>2, <1>4, <1>5, <1>8, <1>9, <2>1, AddsSound
<1> QED BY <1>5, <1>9, <1>10 DEF d

LEMMA PreviewRetrySound ==
  ASSUME IInv, RecordInv, NEW e \in Executions, NEW v \in Versions,
         NEW S \in SUBSET Ordinals, NEW k \in Confirmations,
         PreviewRetry(e, v, S, k)
  PROVE  /\ Sound(data')
         /\ DOMAIN data'.retries = DOMAIN Ledger.retries \cup {k}
         /\ data'.receipts = Ledger.receipts
         /\ data'.copies = Ledger.copies /\ data'.deliveries = Ledger.deliveries
<1> DEFINE d == Ledger
<1>1. LedgerOK(d) /\ Sound(d)
  BY LedgerSound
<1>2. e \in DOMAIN d.receipts /\ HasCapacity(d)
  BY DEF PreviewRetry, PredecessorFor
<1>3. OriginOf(d.receipts[e].source) \in DOMAIN d.origins
  BY <1>1, <1>2 DEF Sound, Linked
<1>4. /\ LedgerOK(data')
      /\ data'.receipts = d.receipts /\ data'.origins = d.origins
      /\ DOMAIN data'.retries = DOMAIN d.retries \cup {k}
      /\ data'.retries[k].pred = e
      /\ data'.retries[k].origin = OriginOf(d.receipts[e].source)
      /\ \A i \in DOMAIN d.retries \ {k} : data'.retries[i] = d.retries[i]
  BY <1>3, PreviewRetryWrite DEF IInv
<1>5. /\ data'.copies = d.copies /\ data'.deliveries = d.deliveries
      /\ data'.retries[k].consumedBy = None
  BY <1>1 DEF PreviewRetry, LedgerOK, Put
<1> HIDE DEF d
<1>6. Linked(data') /\ Paired(data') /\ Numbered(data') /\ OneLoad(data')
  BY <1>1, <1>2, <1>3, <1>4, <1>5 DEF Sound, Linked, Paired, Numbered, OneLoad
<1>7. Markers(data') <= MaxMarkers
  BY <1>1, <1>2, <1>4, <1>5, MarkersGrow
<1> QED BY <1>4, <1>5, <1>6, <1>7 DEF Sound, d

LEMMA PreviewCopySound ==
  ASSUME IInv, RecordInv, NEW e \in Executions, NEW k \in Confirmations,
         PreviewCopy(e, k)
  PROVE  /\ Sound(data')
         /\ DOMAIN data'.copies = DOMAIN Ledger.copies \cup {k}
         /\ data'.receipts = Ledger.receipts
         /\ data'.retries = Ledger.retries /\ data'.deliveries = Ledger.deliveries
<1> DEFINE d == Ledger
           a == [exec |-> e, ctx |-> Context, consumedBy |-> None,
                 revision |-> d.receipts[e].deliveryRevision]
<1>1. LedgerOK(d) /\ Sound(d) /\ Named(d)
  BY LedgerSound
<1>2. e \in DOMAIN d.receipts /\ HasCapacity(d) /\ k \notin used
  BY DEF PreviewCopy, HoldsReport, ReceiptFor, Fresh
<1>3. LedgerOK(data')
  BY PreviewCopyWrite DEF IInv, SameCommands
<1>4. /\ data'.receipts = d.receipts /\ data'.origins = d.origins
      /\ data'.retries = d.retries /\ data'.deliveries = d.deliveries
      /\ data'.copies = Put(d.copies, k, a)
  BY <1>1 DEF PreviewCopy, LedgerOK
<1>5. a.exec = e /\ a.consumedBy = None
  OBVIOUS
<1> HIDE DEF d, a
<1>6. /\ DOMAIN data'.copies = DOMAIN d.copies \cup {k}
      /\ data'.copies[k] = a
      /\ \A i \in DOMAIN d.copies \ {k} : data'.copies[i] = d.copies[i]
  BY <1>4 DEF Put
<1>7. k \notin DOMAIN d.copies
  BY <1>1, <1>2 DEF Named
<1>8. Linked(data')
  BY <1>1, <1>2, <1>4, <1>5, <1>6 DEF Sound, Linked
<1>9. Paired(data')
  <2>1. \A x \in DOMAIN d.deliveries : d.deliveries[x].conf # None =>
          d.deliveries[x].conf \in DOMAIN d.copies
    BY <1>1 DEF Sound, Linked
  <2> QED BY <1>1, <1>4, <1>5, <1>6, <1>7, <2>1 DEF Sound, Paired
<1>10. Numbered(data') /\ OneLoad(data')
  BY <1>1, <1>4 DEF Sound, Numbered, OneLoad
<1>11. Markers(data') <= MaxMarkers
  BY <1>1, <1>2, <1>3, <1>4, <1>6, MarkersGrow
<1> QED BY <1>4, <1>6, <1>8, <1>9, <1>10, <1>11 DEF Sound, d

LEMMA RecordDeliveryBufferSound ==
  ASSUME IInv, RecordInv, NEW e \in Executions,
         NEW outcome \in {"CONFIRMED", "UNKNOWN"},
         RecordDeliveryBuffer(e, outcome)
  PROVE  /\ Sound(data')
         /\ data'.retries = Ledger.retries /\ data'.copies = Ledger.copies
         /\ DOMAIN data'.deliveries = DOMAIN Ledger.deliveries \cup {owner.delivery}
         /\ \A y \in DOMAIN Ledger.deliveries :
              data'.deliveries[y] = Ledger.deliveries[y]
         /\ owner.delivery \notin DOMAIN Ledger.deliveries =>
              data'.deliveries[owner.delivery].state = outcome
<1> DEFINE d == Ledger
           x == owner.delivery
           r == [d.receipts[e] EXCEPT !.buffered = TRUE]
           dl == [exec |-> e, conf |-> None, ctx |-> Context, revision |-> 0,
                  original |-> TRUE, state |-> outcome]
<1>1. LedgerOK(d) /\ Sound(d)
  BY LedgerSound
<1>2. /\ e \in DOMAIN d.receipts /\ x \in Deliveries
      /\ x \in DOMAIN d.deliveries \/ HasCapacity(d)
  <2>1. TypeOK BY DEF IInv
  <2> QED BY <2>1, OwnerDelivery DEF RecordDeliveryBuffer, HoldsReport, ReceiptFor
<1>3. LedgerOK(data')
  BY RecordDeliveryBufferWrite DEF IInv, SameCommands
<1>4. /\ data'.receipts = [d.receipts EXCEPT ![e] = r]
      /\ data'.origins = d.origins /\ data'.retries = d.retries
      /\ data'.copies = d.copies
      /\ data'.deliveries = PutNew(d.deliveries, x, dl)
  BY <1>1 DEF RecordDeliveryBuffer, LedgerOK
<1>5. /\ dl.exec = e /\ dl.conf = None /\ dl.original = TRUE /\ dl.state = outcome
  OBVIOUS
<1>6. /\ r.source = d.receipts[e].source /\ r.ctx = d.receipts[e].ctx
      /\ r.pred = d.receipts[e].pred
      /\ r.deliveryRevision = d.receipts[e].deliveryRevision
  <2>1. d.receipts[e] \in Receipts BY <1>1, <1>2 DEF LedgerOK, IsMap
  <2> QED BY <2>1 DEF Receipts
<1> HIDE DEF d, x, r, dl
<1>7. /\ DOMAIN data'.receipts = DOMAIN d.receipts
      /\ \A f \in DOMAIN d.receipts :
           /\ data'.receipts[f].source = d.receipts[f].source
           /\ data'.receipts[f].ctx = d.receipts[f].ctx
           /\ data'.receipts[f].pred = d.receipts[f].pred
           /\ data'.receipts[f].deliveryRevision = d.receipts[f].deliveryRevision
  BY <1>2, <1>4, <1>6
<1>8. /\ DOMAIN data'.deliveries = DOMAIN d.deliveries \cup {x}
      /\ \A y \in DOMAIN d.deliveries : data'.deliveries[y] = d.deliveries[y]
      /\ x \notin DOMAIN d.deliveries => data'.deliveries[x] = dl
  BY <1>4 DEF PutNew, Put
<1>9. CASE x \in DOMAIN d.deliveries
  <2>1. SameLinks(data', d)
    BY <1>3, <1>4, <1>7, <1>8, <1>9 DEF SameLinks
  <2>2. Sound(data')
    BY <1>1, <2>1, SameLinksSound
  <2> QED BY <1>4, <1>8, <1>9, <2>2 DEF d, x
<1>10. CASE x \notin DOMAIN d.deliveries
  <2>1. Linked(data')
    BY <1>1, <1>2, <1>4, <1>5, <1>7, <1>8, <1>10 DEF Sound, Linked
  <2>2. Paired(data')
    <3>1. \A k \in DOMAIN d.copies : d.copies[k].consumedBy # None =>
            d.copies[k].consumedBy \in DOMAIN d.deliveries
      BY <1>1 DEF Sound, Linked
    <3> QED BY <1>1, <1>4, <1>5, <1>8, <1>10, <3>1 DEF Sound, Paired
  <2>3. Numbered(data')
    <3>1. \A y \in DOMAIN d.deliveries : d.deliveries[y].exec \in DOMAIN d.receipts
      BY <1>1 DEF Sound, Linked
    <3> QED BY <1>1, <1>5, <1>7, <1>8, <1>10, <3>1 DEF Sound, Numbered
  <2>4. OneLoad(data')
    BY <1>1, <1>7 DEF Sound, OneLoad
  <2>5. Markers(data') <= MaxMarkers
    BY <1>1, <1>2, <1>3, <1>4, <1>7, <1>8, <1>10, MarkersGrow
  <2>6. Sound(data')
    BY <2>1, <2>2, <2>3, <2>4, <2>5 DEF Sound
  <2> QED BY <1>4, <1>5, <1>8, <1>10, <2>6 DEF d, x
<1> QED BY <1>9, <1>10

LEMMA ConfirmCopySound ==
  ASSUME IInv, RecordInv, NEW k \in Confirmations, NEW x \in Deliveries,
         ConfirmCopy(k, x)
  PROVE  /\ Sound(data')
         /\ data'.retries = Ledger.retries
         /\ DOMAIN data'.copies = DOMAIN Ledger.copies
         /\ DOMAIN data'.deliveries = DOMAIN Ledger.deliveries \cup {x}
         /\ x \notin DOMAIN Ledger.deliveries
         /\ \A y \in DOMAIN Ledger.deliveries :
              data'.deliveries[y] = Ledger.deliveries[y]
<1> DEFINE d == Ledger
           a == d.copies[k]
           e == a.exec
           n == a.revision + 1
           r == [d.receipts[e] EXCEPT !.deliveryRevision = n]
           dl == [exec |-> e, conf |-> k, ctx |-> Context, revision |-> n,
                  original |-> FALSE, state |-> "COPY_RESERVED"]
           b == [a EXCEPT !.consumedBy = x]
<1>1. LedgerOK(d) /\ Sound(d) /\ Named(d)
  BY LedgerSound
<1>2. /\ k \in DOMAIN d.copies /\ e \in DOMAIN d.receipts
      /\ d.receipts[e].deliveryRevision = a.revision
      /\ HasCapacity(d) /\ x \notin used
  BY DEF ConfirmCopy, HoldsReport, ReceiptFor, CopyCurrent, Fresh
<1>3. LedgerOK(data')
  BY ConfirmCopyWrite DEF IInv, SameCommands
<1>4. /\ data'.receipts = [d.receipts EXCEPT ![e] = r]
      /\ data'.origins = d.origins /\ data'.retries = d.retries
      /\ data'.copies = [d.copies EXCEPT ![k] = b]
      /\ data'.deliveries = Put(d.deliveries, x, dl)
  BY <1>1 DEF ConfirmCopy, LedgerOK
<1>5. dl.exec = e /\ dl.conf = k /\ dl.original = FALSE /\ dl.revision = n
  OBVIOUS
<1>6. /\ d.receipts[e] \in Receipts /\ a \in CopyApprovals
  BY <1>1, <1>2 DEF LedgerOK, IsMap
<1>7. /\ r.source = d.receipts[e].source /\ r.ctx = d.receipts[e].ctx
      /\ r.pred = d.receipts[e].pred /\ r.deliveryRevision = n
      /\ b.exec = e /\ b.consumedBy = x
  BY <1>6 DEF Receipts, CopyApprovals
<1>8. a.revision \in Nat /\ n = a.revision + 1
  BY <1>6 DEF CopyApprovals
<1> HIDE DEF d, a, e, n, r, dl, b
<1>9. /\ DOMAIN data'.receipts = DOMAIN d.receipts
      /\ data'.receipts[e] = r
      /\ \A f \in DOMAIN d.receipts \ {e} : data'.receipts[f] = d.receipts[f]
      /\ DOMAIN data'.copies = DOMAIN d.copies
      /\ data'.copies[k] = b
      /\ \A i \in DOMAIN d.copies \ {k} : data'.copies[i] = d.copies[i]
  BY <1>2, <1>4
<1>10. x \notin DOMAIN d.deliveries
  BY <1>1, <1>2 DEF Named
<1>11. /\ DOMAIN data'.deliveries = DOMAIN d.deliveries \cup {x}
       /\ data'.deliveries[x] = dl
       /\ \A y \in DOMAIN d.deliveries : data'.deliveries[y] = d.deliveries[y]
  BY <1>4, <1>10 DEF Put
<1>12. /\ d.copies[k].exec = e
       /\ \A y \in DOMAIN d.deliveries :
            /\ d.deliveries[y].exec \in DOMAIN d.receipts
            /\ d.deliveries[y].conf \in DOMAIN d.copies \cup {None}
       /\ \A i \in DOMAIN d.copies :
            d.copies[i].consumedBy \in DOMAIN d.deliveries \cup {None}
  BY <1>1 DEF Sound, Linked, a, e
<1>13. Linked(data')
  <2>1. \A f \in DOMAIN data'.receipts :
          /\ data'.receipts[f].pred = d.receipts[f].pred
          /\ data'.receipts[f].source = d.receipts[f].source
    BY <1>2, <1>7, <1>9
  <2>2. \A i \in DOMAIN data'.copies :
          /\ data'.copies[i].exec = d.copies[i].exec
          /\ data'.copies[i].consumedBy \in DOMAIN d.deliveries \cup {x, None}
    BY <1>7, <1>9, <1>12
  <2> QED
    BY <1>1, <1>2, <1>4, <1>5, <1>9, <1>11, <2>1, <2>2 DEF Sound, Linked
<1>14. Paired(data')
  <2>1. ASSUME NEW i \in DOMAIN data'.copies, data'.copies[i].consumedBy # None
        PROVE  data'.deliveries[data'.copies[i].consumedBy].exec = data'.copies[i].exec
    <3>1. CASE i = k
      BY <1>5, <1>7, <1>9, <1>11, <3>1
    <3>2. CASE i # k
      BY <1>1, <1>9, <1>11, <1>12, <2>1, <3>2 DEF Sound, Paired
    <3> QED BY <3>1, <3>2
  <2>2. ASSUME NEW y \in DOMAIN data'.deliveries, data'.deliveries[y].conf # None
        PROVE  data'.copies[data'.deliveries[y].conf].exec = data'.deliveries[y].exec
    <3>1. CASE y = x
      BY <1>5, <1>7, <1>9, <1>11, <3>1
    <3>2. CASE y # x
      <4>1. d.copies[d.deliveries[y].conf].exec = d.deliveries[y].exec
        BY <1>1, <1>11, <2>2, <3>2 DEF Sound, Paired
      <4>2. data'.copies[d.deliveries[y].conf].exec = d.copies[d.deliveries[y].conf].exec
        BY <1>7, <1>9, <1>11, <1>12, <2>2, <3>2
      <4> QED BY <1>11, <3>2, <4>1, <4>2
    <3> QED BY <3>1, <3>2
  <2> QED BY <2>1, <2>2 DEF Paired
<1>15. Numbered(data')
  <2>1. ASSUME NEW y \in DOMAIN d.deliveries, ~ d.deliveries[y].original
        PROVE  /\ d.deliveries[y].revision \in Nat
               /\ d.deliveries[y].revision <= d.receipts[d.deliveries[y].exec].deliveryRevision
               /\ d.deliveries[y].exec = e => d.deliveries[y].revision < n
    <3>1. /\ d.deliveries[y] \in DeliveryRecords
          /\ d.deliveries[y].revision <= d.receipts[d.deliveries[y].exec].deliveryRevision
      BY <1>1, <2>1 DEF Sound, Numbered, LedgerOK, IsMap
    <3>2. d.deliveries[y].revision \in Nat
      BY <3>1 DEF DeliveryRecords
    <3> QED BY <1>2, <1>8, <3>1, <3>2
  <2>2. \A y \in DOMAIN data'.deliveries :
          ~ data'.deliveries[y].original =>
            data'.deliveries[y].revision <= data'.receipts[data'.deliveries[y].exec].deliveryRevision
    <3>1. data'.receipts[e].deliveryRevision = n /\ n <= n
      BY <1>7, <1>8, <1>9
    <3>2. ASSUME NEW y \in DOMAIN d.deliveries, ~ d.deliveries[y].original
          PROVE  d.deliveries[y].revision <= data'.receipts[d.deliveries[y].exec].deliveryRevision
      <4>1. CASE d.deliveries[y].exec = e
        BY <1>8, <2>1, <3>1, <3>2, <4>1
      <4>2. CASE d.deliveries[y].exec # e
        BY <1>9, <1>12, <2>1, <3>2, <4>2
      <4> QED BY <4>1, <4>2
    <3> QED BY <1>5, <1>11, <3>1, <3>2
  <2>3. \A y, z \in DOMAIN data'.deliveries :
          /\ ~ data'.deliveries[y].original /\ ~ data'.deliveries[z].original
          /\ data'.deliveries[y].exec = data'.deliveries[z].exec
          /\ data'.deliveries[y].revision = data'.deliveries[z].revision
          => y = z
    <3>1. \A y, z \in DOMAIN d.deliveries :
            /\ ~ d.deliveries[y].original /\ ~ d.deliveries[z].original
            /\ d.deliveries[y].exec = d.deliveries[z].exec
            /\ d.deliveries[y].revision = d.deliveries[z].revision
            => y = z
      BY <1>1 DEF Sound, Numbered
    <3>2. \A y \in DOMAIN d.deliveries :
            ~ (~ d.deliveries[y].original /\ d.deliveries[y].exec = e
                 /\ d.deliveries[y].revision = n)
      BY <1>8, <2>1
    <3> QED BY <1>5, <1>11, <3>1, <3>2
  <2> QED BY <2>2, <2>3 DEF Numbered
<1>16. OneLoad(data')
  <2>1. \A f \in DOMAIN data'.receipts :
          /\ data'.receipts[f].ctx = d.receipts[f].ctx
          /\ data'.receipts[f].source = d.receipts[f].source
    BY <1>2, <1>7, <1>9
  <2> QED BY <1>1, <1>9, <2>1 DEF Sound, OneLoad
<1>17. Markers(data') <= MaxMarkers
  BY <1>1, <1>2, <1>3, <1>4, <1>9, <1>11, MarkersGrow
<1>18. Sound(data')
  BY <1>13, <1>14, <1>15, <1>16, <1>17 DEF Sound
<1> QED BY <1>4, <1>9, <1>10, <1>11, <1>18 DEF d

-----------------------------------------------------------------------------
(* The steps. *)

\* A write that hands nothing over: it names its records with ids given out,
\* and reserves only what was reserved or is new.
LEMMA WriteRecords ==
  ASSUME IInv, RecordInv, Sound(data'), used \subseteq used',
         UNCHANGED <<sending, copied, owner>>,
         DOMAIN data'.retries \cup DOMAIN data'.copies
           \cup DOMAIN data'.deliveries \subseteq used',
         \A x \in DOMAIN data'.deliveries :
           data'.deliveries[x].state = "COPY_RESERVED" =>
             \/ /\ x \in DOMAIN Ledger.deliveries
                /\ Ledger.deliveries[x].state = "COPY_RESERVED"
             \/ x \in Deliveries \ used
  PROVE  RecordInv'
<1>1. Named(data)'
  BY DEF Named
<1>2. Waiting(data)'
  <2> SUFFICES ASSUME NEW x \in DOMAIN data'.deliveries,
                      data'.deliveries[x].state = "COPY_RESERVED"
               PROVE  copied[x] = 0 /\ \A p \in sending : p.copy # x
    BY DEF Waiting
  <2>1. CASE x \in DOMAIN Ledger.deliveries /\ Ledger.deliveries[x].state = "COPY_RESERVED"
    BY <2>1, LedgerSound DEF Waiting
  <2>2. CASE x \in Deliveries \ used
    <3>1. copied[x] \in Nat /\ ~ (copied[x] > 0)
      BY <2>2 DEF IInv, TypeOK, RecordInv, Permitted
    <3>2. \A p \in sending : p.copy \in used
      BY DEF RecordInv, Permitted
    <3> QED BY <2>2, <3>1, <3>2
  <2> QED BY <2>1, <2>2
<1>3. Permitted'
  BY DEF RecordInv, Permitted
<1>4. Sound(data)'
  OBVIOUS
<1> QED BY <1>1, <1>2, <1>3, <1>4 DEF RecordInv

\* A step that leaves the ledger and what is handed over alone.
LEMMA QuietRecords ==
  ASSUME IInv, RecordInv, UNCHANGED <<data, sending, copied>>, used \subseteq used',
         owner'.report => owner'.delivery \in used'
  PROVE  RecordInv'
<1>1. Sound(data)' /\ Named(data)' /\ Waiting(data)'
  BY DEF RecordInv, Named, Waiting
<1>2. Permitted'
  BY DEF RecordInv, Permitted
<1> QED BY <1>1, <1>2 DEF RecordInv

\* A write that keeps every link and every delivery.
LEMMA LinkedRecords ==
  ASSUME IInv, RecordInv, SameLinks(data', Ledger),
         UNCHANGED <<sending, copied, owner, used>>,
         data'.deliveries = Ledger.deliveries
  PROVE  RecordInv'
<1>1. /\ LedgerOK(Ledger) /\ Sound(Ledger) /\ Named(Ledger)
  BY LedgerSound
<1>2. Sound(data')
  BY <1>1, SameLinksSound
<1>3. /\ data'.retries = Ledger.retries /\ data'.copies = Ledger.copies
  BY DEF SameLinks
<1> QED BY <1>1, <1>2, <1>3, WriteRecords DEF Named

LEMMA ClickRecords == ASSUME IInv, RecordInv, Click PROVE RecordInv'
<1> PICK c \in Callers :
      \/ \E b \in Blocks, v \in Versions : Prepare(c, b, v)
      \/ \E S \in SUBSET Ordinals \ {{}}, e \in Executions, kept \in BOOLEAN :
           Reserve(c, S, e, kept)
      \/ \E e \in Executions : ReserveDuplicate(c, e)
      \/ Install(c)
      \/ Refuse(c)
  BY DEF Click
<1>1. ASSUME NEW S, NEW e \in Executions, NEW kept \in BOOLEAN, Reserve(c, S, e, kept)
      PROVE  RecordInv'
  <2>1. /\ Sound(data') /\ data'.retries = Ledger.retries
        /\ data'.copies = Ledger.copies /\ data'.deliveries = Ledger.deliveries
    BY <1>1, ReserveSound
  <2>2. used' = used \cup {e} /\ UNCHANGED <<sending, copied, owner>>
    BY <1>1 DEF Reserve, history
  <2>3. Named(Ledger)
    BY LedgerSound
  <2> QED BY <2>1, <2>2, <2>3, WriteRecords DEF Named
<1>2. ASSUME NEW e \in Executions, ReserveDuplicate(c, e) PROVE RecordInv'
  <2>1. data' = Ledger /\ UNCHANGED <<sending, copied, owner, used>>
    BY <1>2 DEF ReserveDuplicate, history
  <2>2. SameLinks(data', Ledger)
    BY <2>1, LedgerSound DEF SameLinks
  <2> QED BY <2>1, <2>2, LinkedRecords
<1>3. ASSUME UNCHANGED <<data, sending, copied, used>>,
             owner' = owner \/ ~ owner'.report
      PROVE  RecordInv'
  BY <1>3, QuietRecords DEF RecordInv, Permitted
<1>4. ASSUME NEW b \in Blocks, NEW v \in Versions, Prepare(c, b, v) PROVE RecordInv'
  BY <1>3, <1>4 DEF Prepare, history
<1>5. CASE Install(c)
  BY <1>3, <1>5 DEF Install, history
<1>6. CASE Refuse(c)
  BY <1>3, <1>6 DEF Refuse, history
<1> QED BY <1>1, <1>2, <1>4, <1>5, <1>6

LEMMA ProviderRecords == ASSUME IInv, RecordInv, Provider PROVE RecordInv'
<1>1. LedgerOK(Ledger)
  BY LedgerSound
<1>2. ASSUME NEW e \in DOMAIN Ledger.receipts, NEW o \in Ordinals,
             NEW state \in ItemStates, data' = SetItem(Ledger, e, o, state),
             UNCHANGED <<sending, copied, owner, used>>
      PROVE  RecordInv'
  <2>1. SameLinks(data', Ledger)
    BY <1>1, <1>2, ItemLinks
  <2>2. data'.deliveries = Ledger.deliveries
    BY <1>1, <1>2 DEF SetItem, LedgerOK
  <2> QED BY <1>2, <2>1, <2>2, LinkedRecords
<1>3. ASSUME NEW o \in Ordinals, NEW kept \in BOOLEAN, BeginProviderAttempt(o, kept)
      PROVE  RecordInv'
  <2>1. /\ owner.exec \in DOMAIN Ledger.receipts
        /\ data' = SetItem(Ledger, owner.exec, o, "PROVIDER_INTENT")
        /\ UNCHANGED <<sending, copied, owner, used>>
    BY <1>3 DEF BeginProviderAttempt, OwnerRuns, ReceiptFor, history
  <2>2. "PROVIDER_INTENT" \in ItemStates
    BY DEF ItemStates
  <2> QED BY <1>2, <2>1, <2>2
<1>4. ASSUME NEW e \in Executions, NEW o \in Ordinals,
             NEW outcome \in {"RESULT", "UNKNOWN"},
             RecordProviderOutcome(e, o, outcome)
      PROVE  RecordInv'
  <2>1. /\ e \in DOMAIN Ledger.receipts
        /\ data' = SetItem(Ledger, e, o, outcome)
        /\ UNCHANGED <<sending, copied, owner, used>>
    BY <1>4 DEF RecordProviderOutcome, ReceiptFor, history
  <2>2. outcome \in ItemStates
    BY DEF ItemStates
  <2> QED BY <1>2, <2>1, <2>2
<1>5. ASSUME UNCHANGED <<data, sending, copied>>, used \subseteq used',
             \/ owner' = owner
             \/ owner'.report = owner.report /\ owner'.delivery = owner.delivery
             \/ owner'.delivery \in used'
      PROVE  RecordInv'
  <2>1. owner'.report => owner'.delivery \in used'
    BY <1>5 DEF RecordInv, Permitted
  <2> QED BY <1>5, <2>1, QuietRecords
<1>6. ASSUME NEW e \in Executions, NEW sent \in BOOLEAN, Dispatch(e, sent)
      PROVE  RecordInv'
  BY <1>5, <1>6 DEF Dispatch
<1>7. ASSUME NEW e \in Executions, Abandon(e) PROVE RecordInv'
  BY <1>5, <1>7 DEF Abandon, history
<1>8. ASSUME owner.active PROVE {"active", "report", "delivery"} \subseteq DOMAIN owner
  <2>1. TypeOK BY DEF IInv
  <2>2. \/ owner \in [exec : Executions, ctx : Contexts, active : BOOLEAN,
                      report : {FALSE}, delivery : {None}]
        \/ owner \in [exec : Executions, ctx : Contexts, active : BOOLEAN,
                      report : {TRUE}, delivery : Deliveries]
    BY <1>8, <2>1, OwnerActive
  <2> QED BY <2>2
<1>9. ASSUME NEW x \in Deliveries, FinishBatch(x) PROVE RecordInv'
  <2>1. /\ UNCHANGED <<data, sending, copied>> /\ used' = used \cup {x}
        /\ owner.active /\ owner' = [owner EXCEPT !.report = TRUE, !.delivery = x]
    BY <1>9 DEF FinishBatch, memory, history
  <2>2. owner'.delivery = x
    BY <1>8, <2>1
  <2> QED BY <1>5, <2>1, <2>2
<1>10. CASE EndOperation
  <2>1. /\ UNCHANGED <<data, sending, copied, used>>
        /\ owner.active /\ owner' = [owner EXCEPT !.active = FALSE]
    BY <1>10 DEF EndOperation, memory, history
  <2>2. owner'.report = owner.report /\ owner'.delivery = owner.delivery
    BY <1>8, <2>1
  <2> QED BY <1>5, <2>1, <2>2
<1> QED BY <1>3, <1>4, <1>6, <1>7, <1>9, <1>10 DEF Provider

LEMMA RetryRecords == ASSUME IInv, RecordInv, Retry PROVE RecordInv'
<1>1. Named(Ledger)
  BY LedgerSound
<1>2. ASSUME NEW e \in Executions, NEW v \in Versions, NEW S \in SUBSET Ordinals,
             NEW k \in Confirmations, PreviewRetry(e, v, S, k)
      PROVE  RecordInv'
  <2>1. /\ Sound(data')
        /\ DOMAIN data'.retries = DOMAIN Ledger.retries \cup {k}
        /\ data'.copies = Ledger.copies /\ data'.deliveries = Ledger.deliveries
    BY <1>2, PreviewRetrySound
  <2>2. used' = used \cup {k} /\ UNCHANGED <<sending, copied, owner>>
    BY <1>2 DEF PreviewRetry, memory, history
  <2> QED BY <1>1, <2>1, <2>2, WriteRecords DEF Named
<1>3. ASSUME NEW c \in Callers, NEW k \in Confirmations, NEW e \in Executions,
             NEW kept \in BOOLEAN, ConfirmRetry(c, k, e, kept)
      PROVE  RecordInv'
  <2>1. /\ Sound(data')
        /\ DOMAIN data'.retries = DOMAIN Ledger.retries
        /\ data'.copies = Ledger.copies /\ data'.deliveries = Ledger.deliveries
    BY <1>3, ConfirmRetrySound
  <2>2. used' = used \cup {e} /\ UNCHANGED <<sending, copied, owner>>
    BY <1>3 DEF ConfirmRetry, memory, history
  <2> QED BY <1>1, <2>1, <2>2, WriteRecords DEF Named
<1> QED BY <1>2, <1>3 DEF Retry

LEMMA BeginCopyRecords ==
  ASSUME IInv, RecordInv, NEW x \in Deliveries, NEW kept \in BOOLEAN,
         BeginCopyDelivery(x, kept)
  PROVE  RecordInv'
<1> DEFINE d == Ledger
           q == [copy |-> x, over |-> owner.delivery, claimed |-> FALSE]
<1>1. /\ LedgerOK(d) /\ Sound(d) /\ Named(d) /\ Waiting(d)
  BY LedgerSound
<1>2. /\ x \in DOMAIN d.deliveries /\ d.deliveries[x].state = "COPY_RESERVED"
      /\ data' = [d EXCEPT !.deliveries[x].state = "DELIVERY_INTENT"]
      /\ sending' \in {sending, sending \cup {q}}
      /\ UNCHANGED <<owner, used, copied>>
  BY DEF BeginCopyDelivery, history
<1>3. /\ SameLinks(data', d)
      /\ data'.deliveries[x].state = "DELIVERY_INTENT"
      /\ \A y \in DOMAIN d.deliveries \ {x} : data'.deliveries[y] = d.deliveries[y]
  BY <1>1, <1>2, DeliveryLinks DEF DeliveryStates
<1>4. q.copy = x
  OBVIOUS
<1> HIDE DEF d, q
<1>5. Sound(data)'
  BY <1>1, <1>3, SameLinksSound
<1>6. Named(data)'
  BY <1>1, <1>2, <1>3 DEF Named, SameLinks
<1>7. Waiting(data)'
  <2> SUFFICES ASSUME NEW y \in DOMAIN data'.deliveries,
                      data'.deliveries[y].state = "COPY_RESERVED"
               PROVE  copied[y] = 0 /\ \A p \in sending' : p.copy # y
    BY <1>2 DEF Waiting
  <2>1. y \in DOMAIN d.deliveries /\ y # x
    BY <1>3 DEF SameLinks
  <2>2. copied[y] = 0 /\ \A p \in sending : p.copy # y
    BY <1>1, <1>3, <2>1 DEF Waiting
  <2> QED BY <1>2, <1>4, <2>1, <2>2
<1>8. Permitted'
  <2>1. x \in used /\ copied[x] = 0 /\ \A p \in sending : p.copy # x
    BY <1>1, <1>2 DEF Named, Waiting
  <2> QED BY <1>2, <1>4, <2>1 DEF RecordInv, Permitted
<1> QED BY <1>5, <1>6, <1>7, <1>8 DEF RecordInv

LEMMA ClaimCopyRecords ==
  ASSUME IInv, RecordInv, NEW p \in sending, ClaimCopy(p)
  PROVE  RecordInv'
<1> DEFINE q == [p EXCEPT !.claimed = TRUE]
<1>1. TypeOK /\ Permitted /\ Waiting(data)
  BY DEF IInv, RecordInv
<1>2. p \in [copy : Deliveries, over : Deliveries, claimed : BOOLEAN]
  BY <1>1 DEF TypeOK
<1>3. q.copy = p.copy /\ q.claimed = TRUE /\ p.copy \in Deliveries
  BY <1>2
<1>4. /\ ~ p.claimed /\ UNCHANGED <<data, used>>
      /\ copied' = [copied EXCEPT ![p.copy] = @ + 1]
      /\ sending' = (sending \ {p}) \cup {q}
      /\ owner' = [owner EXCEPT !.active = TRUE, !.delivery = p.copy]
      /\ owner.report
  BY DEF ClaimCopy
<1>5. copied \in [Deliveries -> Nat] /\ copied[p.copy] = 0 /\ p.copy \in used
  BY <1>1, <1>4 DEF TypeOK, Permitted
<1>6. /\ copied'[p.copy] = 1
      /\ \A x \in Deliveries \ {p.copy} : copied'[x] = copied[x]
  BY <1>3, <1>4, <1>5
<1>7. owner'.delivery = p.copy
  BY <1>1, <1>4, OwnerReport
<1> HIDE DEF q
<1>8. Sound(data)' /\ Named(data)'
  BY <1>4 DEF RecordInv, Named
<1>9. Waiting(data)'
  <2>1. DOMAIN data.deliveries \subseteq Deliveries
    BY <1>1 DEF TypeOK, LedgerOK, IsMap
  <2> QED BY <1>1, <1>3, <1>4, <1>6, <2>1 DEF Waiting
<1>10. Permitted'
  <2>1. \A r \in sending \ {p} : r.copy # p.copy /\ r.copy \in Deliveries
    BY <1>1 DEF Permitted, TypeOK
  <2>2. \A r \in sending' : r.copy \in used' /\ (~ r.claimed => copied'[r.copy] = 0)
    BY <1>1, <1>3, <1>4, <1>5, <1>6, <2>1 DEF Permitted
  <2>3. \A r, s \in sending' : r.copy = s.copy => r = s
    BY <1>1, <1>3, <1>4, <2>1 DEF Permitted
  <2>4. \A x \in Deliveries : copied'[x] <= 1 /\ (copied'[x] > 0 => x \in used')
    BY <1>1, <1>4, <1>5, <1>6 DEF Permitted
  <2> QED BY <1>4, <1>5, <1>7, <2>2, <2>3, <2>4 DEF Permitted
<1> QED BY <1>8, <1>9, <1>10 DEF RecordInv

LEMMA CopyRecords == ASSUME IInv, RecordInv, Copy PROVE RecordInv'
<1>1. /\ LedgerOK(Ledger) /\ Sound(Ledger) /\ Named(Ledger) /\ Waiting(Ledger)
  BY LedgerSound
<1>2. ASSUME NEW e \in Executions, NEW outcome \in {"CONFIRMED", "UNKNOWN"},
             RecordDeliveryBuffer(e, outcome)
      PROVE  RecordInv'
  <2>1. /\ Sound(data')
        /\ data'.retries = Ledger.retries /\ data'.copies = Ledger.copies
        /\ DOMAIN data'.deliveries = DOMAIN Ledger.deliveries \cup {owner.delivery}
        /\ \A y \in DOMAIN Ledger.deliveries :
             data'.deliveries[y] = Ledger.deliveries[y]
        /\ owner.delivery \notin DOMAIN Ledger.deliveries =>
             data'.deliveries[owner.delivery].state = outcome
    BY <1>2, RecordDeliveryBufferSound
  <2>2. owner.report /\ UNCHANGED <<used, sending, copied, owner>>
    BY <1>2 DEF RecordDeliveryBuffer, HoldsReport, memory, history
  <2>3. owner.delivery \in used
    BY <2>2 DEF RecordInv, Permitted
  <2> QED BY <1>1, <2>1, <2>2, <2>3, WriteRecords DEF Named
<1>3. ASSUME NEW e \in Executions, NEW k \in Confirmations, PreviewCopy(e, k)
      PROVE  RecordInv'
  <2>1. /\ Sound(data')
        /\ DOMAIN data'.copies = DOMAIN Ledger.copies \cup {k}
        /\ data'.retries = Ledger.retries /\ data'.deliveries = Ledger.deliveries
    BY <1>3, PreviewCopySound
  <2>2. used' = used \cup {k} /\ UNCHANGED <<sending, copied, owner>>
    BY <1>3 DEF PreviewCopy, memory, history
  <2> QED BY <1>1, <2>1, <2>2, WriteRecords DEF Named
<1>4. ASSUME NEW k \in Confirmations, NEW x \in Deliveries, ConfirmCopy(k, x)
      PROVE  RecordInv'
  <2>1. /\ Sound(data') /\ data'.retries = Ledger.retries
        /\ DOMAIN data'.copies = DOMAIN Ledger.copies
        /\ DOMAIN data'.deliveries = DOMAIN Ledger.deliveries \cup {x}
        /\ \A y \in DOMAIN Ledger.deliveries :
             data'.deliveries[y] = Ledger.deliveries[y]
    BY <1>4, ConfirmCopySound
  <2>2. /\ used' = used \cup {x} /\ UNCHANGED <<sending, copied, owner>>
        /\ x \notin used
    BY <1>4 DEF ConfirmCopy, Fresh, memory, history
  <2> QED BY <1>1, <2>1, <2>2, WriteRecords DEF Named
<1>5. ASSUME NEW p \in sending, AbandonCopy(p) PROVE RecordInv'
  <2>1. UNCHANGED <<data, owner, used, copied>> /\ sending' = sending \ {p}
    BY <1>5 DEF AbandonCopy, history
  <2> QED BY <2>1 DEF RecordInv, Named, Waiting, Permitted
<1>6. ASSUME NEW p \in sending, RecordCopyOutcome(p) PROVE RecordInv'
  <2>1. /\ p.copy \in DOMAIN Ledger.deliveries
        /\ data' = [Ledger EXCEPT !.deliveries[p.copy].state = "CONFIRMED"]
        /\ UNCHANGED <<owner, used, copied>> /\ sending' = sending \ {p}
    BY <1>6 DEF RecordCopyOutcome, history
  <2>2. /\ SameLinks(data', Ledger)
        /\ data'.deliveries[p.copy].state = "CONFIRMED"
        /\ \A y \in DOMAIN Ledger.deliveries \ {p.copy} :
             data'.deliveries[y] = Ledger.deliveries[y]
    BY <1>1, <2>1, DeliveryLinks DEF DeliveryStates
  <2>3. Sound(data)'
    BY <1>1, <2>2, SameLinksSound
  <2>4. Named(data)'
    BY <1>1, <2>1, <2>2 DEF Named, SameLinks
  <2>5. Waiting(data)'
    BY <1>1, <2>1, <2>2 DEF Waiting, SameLinks
  <2>6. Permitted'
    BY <2>1 DEF RecordInv, Permitted
  <2> QED BY <2>3, <2>4, <2>5, <2>6 DEF RecordInv
<1> QED
  BY <1>2, <1>3, <1>4, <1>5, <1>6, BeginCopyRecords, ClaimCopyRecords DEF Copy

LEMMA EnvironmentRecords == ASSUME IInv, RecordInv, Environment PROVE RecordInv'
<1>1. ASSUME UNCHANGED <<data, owner, used, copied>>,
             sending' = sending \/ sending' = {}
      PROVE  RecordInv'
  BY <1>1 DEF RecordInv, Named, Waiting, Permitted
<1> QED
  BY <1>1 DEF Environment, FinishWork, StartWork, ChangeAuthority, ReloadPage,
              Expire, Restart, memory, history

LEMMA RecordInit == Init => RecordInv
<1> SUFFICES ASSUME Init PROVE RecordInv
  OBVIOUS
<1>1. /\ DOMAIN data.receipts = {} /\ DOMAIN data.retries = {}
      /\ DOMAIN data.copies = {} /\ DOMAIN data.deliveries = {}
  BY DEF Init, EmptyLedger, EmptyMap
<1>2. Linked(data) /\ Paired(data) /\ Numbered(data) /\ OneLoad(data)
      /\ Named(data) /\ Waiting(data)
  BY <1>1 DEF Linked, Paired, Numbered, OneLoad, Named, Waiting
<1>3. Markers(data) <= MaxMarkers
  BY <1>1, FS_EmptySet, LedgerConstants DEF Markers
<1>4. Permitted
  BY DEF Init, NoOwner, Permitted
<1> QED BY <1>2, <1>3, <1>4 DEF RecordInv, Sound

LEMMA RecordStep == IInv /\ RecordInv /\ [Next]_vars => RecordInv'
<1> SUFFICES ASSUME IInv, RecordInv, [Next]_vars PROVE RecordInv'
  OBVIOUS
<1>1. CASE UNCHANGED vars
  BY <1>1 DEF vars, RecordInv, Named, Waiting, Permitted
<1> QED
  BY <1>1, ClickRecords, ProviderRecords, RetryRecords, CopyRecords,
     EnvironmentRecords
  DEF Next

\* The records of the ledger stay sound under every click, answer, retry, copy
\* and restart, in any order.
THEOREM RecordInvariance == Spec => []RecordInv
BY RecordInit, RecordStep, Invariance, PTL DEF Spec

\* compactCompletedWork and every writer of command-ledger.js together: nothing
\* on record names a record that is gone.
THEOREM LinksKept == Spec => []LinksIntact
<1>1. RecordInv => LinksIntact
  BY DEF RecordInv, Sound, Linked, LinksIntact
<1> QED BY <1>1, RecordInvariance, PTL

\* capacity() runs before every write that adds a record, on the ledger
\* that write starts from: MAX_MARKERS bounds the four kinds of records together.
THEOREM WithinCapacity == Spec => []CapacityKept
<1>1. RecordInv => CapacityKept
  BY DEF RecordInv, Sound, CapacityKept
<1> QED BY <1>1, RecordInvariance, PTL

\* reserveCommand fences a document-local message of another page load, and a
\* retry keeps its predecessor's source: a Work has one page load's messages.
THEOREM OneLoadKept == Spec => []OnePageLoadPerWork
<1>1. RecordInv => OnePageLoadPerWork
  BY DEF RecordInv, Sound, OneLoad, OnePageLoadPerWork
<1> QED BY <1>1, RecordInvariance, PTL

\* confirmCopy takes the report's next delivery revision with the approval, and
\* beginCopyDelivery permits a copy once: no copy is handed over twice.
THEOREM CopiesOnce == Spec => []OneCopyPerConfirmation
<1>1. RecordInv => OneCopyPerConfirmation
  BY DEF RecordInv, Sound, Numbered, Permitted, OneCopyPerConfirmation
<1> QED BY <1>1, RecordInvariance, PTL

-----------------------------------------------------------------------------
(* What a step may forget. *)

\* Every receipt and delivery of d is still there, so is what d is sure of, and
\* what is new has a new id.
Remembers(c, d) ==
  /\ DOMAIN d.receipts \subseteq DOMAIN c.receipts
  /\ DOMAIN c.receipts \cap used \subseteq DOMAIN d.receipts
  /\ DOMAIN d.deliveries \subseteq DOMAIN c.deliveries
  /\ \A e \in DOMAIN d.receipts :
       \A o \in ItemsIn(d.receipts[e], {"RESULT", "UNKNOWN"}) :
         c.receipts[e].items[o] = d.receipts[e].items[o]

\* An item moves on from RESERVED or PROVIDER_INTENT only.
LEMMA ItemRemembered ==
  ASSUME NEW d, LedgerOK(d), NEW e \in DOMAIN d.receipts, NEW o \in Ordinals,
         NEW state \in ItemStates,
         d.receipts[e].items[o] \in {"RESERVED", "PROVIDER_INTENT"}
  PROVE  Remembers(SetItem(d, e, o, state), d)
<1> DEFINE c == SetItem(d, e, o, state)
<1>1. /\ DOMAIN c.receipts = DOMAIN d.receipts
      /\ \A f \in DOMAIN d.receipts \ {e} : c.receipts[f] = d.receipts[f]
      /\ c.receipts[e] = [d.receipts[e] EXCEPT !.items[o] = state]
  BY ItemWrite
<1>2. c.deliveries = d.deliveries
  BY DEF LedgerOK, SetItem
<1>3. d.receipts[e] \in Receipts
  BY DEF LedgerOK, IsMap
<1> HIDE DEF c
<1>4. \A i \in Ordinals \ {o} : c.receipts[e].items[i] = d.receipts[e].items[i]
  BY <1>1, <1>3 DEF Receipts
<1>5. o \notin ItemsIn(d.receipts[e], {"RESULT", "UNKNOWN"})
  BY DEF ItemsIn
<1>6. ItemsIn(d.receipts[e], {"RESULT", "UNKNOWN"}) \subseteq Ordinals
  BY <1>3 DEF ItemsIn, Receipts
<1>7. Remembers(c, d)
  BY <1>1, <1>2, <1>4, <1>5, <1>6 DEF Remembers
<1> QED BY <1>7 DEF c

LEMMA SameCommandsRemembered ==
  ASSUME NEW d, SameCommands(data', d),
         DOMAIN d.deliveries \subseteq DOMAIN data'.deliveries
  PROVE  Remembers(data', d)
BY DEF SameCommands, Remembers

\* A step writes nothing, or adds to the compacted ledger.
LEMMA StepRemembers ==
  ASSUME IInv, RecordInv, [Next]_vars
  PROVE  data' = data \/ Remembers(data', Ledger)
<1>1. TypeOK /\ LedgerOK(Ledger) /\ DOMAIN Ledger.receipts \subseteq used
  BY LedgerSound DEF IInv
<1>2. CASE UNCHANGED vars
  BY <1>2 DEF vars
<1>3. ASSUME NEW r, NEW e, Adds(data', Ledger, e, r), e \notin used,
             data'.deliveries = Ledger.deliveries
      PROVE  Remembers(data', Ledger)
  BY <1>1, <1>3 DEF Adds, Remembers
<1>4. CASE Click
  <2> PICK c \in Callers :
        \/ \E b \in Blocks, v \in Versions : Prepare(c, b, v)
        \/ \E S \in SUBSET Ordinals \ {{}}, e \in Executions, kept \in BOOLEAN :
             Reserve(c, S, e, kept)
        \/ \E e \in Executions : ReserveDuplicate(c, e)
        \/ Install(c)
        \/ Refuse(c)
    BY <1>4 DEF Click
  <2>1. ASSUME NEW S, NEW e \in Executions, NEW kept \in BOOLEAN,
               Reserve(c, S, e, kept)
        PROVE  Remembers(data', Ledger)
    <3>1. Adds(data', Ledger, e,
               NewReceipt(caller[c].source, caller[c].version, 0, S, None))
      BY <1>1, <2>1, ReserveWrite
    <3>2. data'.deliveries = Ledger.deliveries
      BY <2>1, ReserveSound
    <3>3. e \notin used
      BY <2>1 DEF Reserve, Fresh
    <3> QED BY <1>3, <3>1, <3>2, <3>3
  <2>2. ASSUME NEW e \in Executions, ReserveDuplicate(c, e)
        PROVE  Remembers(data', Ledger)
    BY <2>2 DEF ReserveDuplicate, Remembers
  <2> QED BY <2>1, <2>2 DEF Prepare, Install, Refuse
<1>5. CASE Provider
  <2>1. ASSUME NEW o \in Ordinals, NEW kept \in BOOLEAN,
               BeginProviderAttempt(o, kept)
        PROVE  Remembers(data', Ledger)
    <3>1. /\ owner.exec \in DOMAIN Ledger.receipts
          /\ Ledger.receipts[owner.exec].items[o] = "RESERVED"
          /\ data' = SetItem(Ledger, owner.exec, o, "PROVIDER_INTENT")
      BY <2>1 DEF BeginProviderAttempt, NotBegun, OwnerRuns, ReceiptFor
    <3>2. "PROVIDER_INTENT" \in ItemStates
      BY DEF ItemStates
    <3> QED BY <1>1, <3>1, <3>2, ItemRemembered
  <2>2. ASSUME NEW e \in Executions, NEW o \in Ordinals,
               NEW outcome \in {"RESULT", "UNKNOWN"},
               RecordProviderOutcome(e, o, outcome)
        PROVE  Remembers(data', Ledger)
    <3>1. /\ e \in DOMAIN Ledger.receipts
          /\ Ledger.receipts[e].items[o] = "PROVIDER_INTENT"
          /\ data' = SetItem(Ledger, e, o, outcome)
      BY <2>2 DEF RecordProviderOutcome, ReceiptFor
    <3>2. outcome \in ItemStates
      BY DEF ItemStates
    <3> QED BY <1>1, <3>1, <3>2, ItemRemembered
  <2> QED
    BY <1>5, <2>1, <2>2 DEF Provider, Dispatch, Abandon, FinishBatch, EndOperation
<1>6. CASE Retry
  <2>1. ASSUME NEW e \in Executions, NEW v \in Versions, NEW S \in SUBSET Ordinals,
               NEW k \in Confirmations, PreviewRetry(e, v, S, k)
        PROVE  Remembers(data', Ledger)
    BY <2>1, PreviewRetrySound DEF Remembers
  <2>2. ASSUME NEW c \in Callers, NEW k \in Confirmations, NEW e \in Executions,
               NEW kept \in BOOLEAN, ConfirmRetry(c, k, e, kept)
        PROVE  Remembers(data', Ledger)
    <3>1. Ledger.retries[k].origin \in DOMAIN Ledger.origins
      BY <2>2, LedgerSound DEF ConfirmRetry, Sound, Linked
    <3>2. \E r : Adds(data', Ledger, e, r)
      BY <1>1, <2>2, <3>1, ConfirmRetryWrite
    <3>3. data'.deliveries = Ledger.deliveries
      BY <2>2, ConfirmRetrySound
    <3>4. e \notin used
      BY <2>2 DEF ConfirmRetry, Fresh
    <3> QED BY <1>3, <3>2, <3>3, <3>4
  <2> QED BY <1>6, <2>1, <2>2 DEF Retry
<1>7. CASE Copy
  <2>1. ASSUME NEW e \in Executions, NEW outcome \in {"CONFIRMED", "UNKNOWN"},
               RecordDeliveryBuffer(e, outcome)
        PROVE  Remembers(data', Ledger)
    BY <1>1, <2>1, RecordDeliveryBufferWrite, RecordDeliveryBufferSound,
       SameCommandsRemembered
  <2>2. ASSUME NEW e \in Executions, NEW k \in Confirmations, PreviewCopy(e, k)
        PROVE  Remembers(data', Ledger)
    BY <2>2, PreviewCopySound DEF Remembers
  <2>3. ASSUME NEW k \in Confirmations, NEW x \in Deliveries, ConfirmCopy(k, x)
        PROVE  Remembers(data', Ledger)
    BY <1>1, <2>3, ConfirmCopyWrite, ConfirmCopySound, SameCommandsRemembered
  <2>4. ASSUME NEW x \in DOMAIN Ledger.deliveries, NEW state \in DeliveryStates,
               data' = [Ledger EXCEPT !.deliveries[x].state = state]
        PROVE  Remembers(data', Ledger)
    <3>1. SameLinks(data', Ledger) /\ data'.receipts = Ledger.receipts
      BY <1>1, <2>4, DeliveryLinks
    <3> QED BY <3>1 DEF SameLinks, Remembers
  <2>5. ASSUME NEW x \in Deliveries, NEW kept \in BOOLEAN, BeginCopyDelivery(x, kept)
        PROVE  Remembers(data', Ledger)
    BY <2>4, <2>5 DEF BeginCopyDelivery, DeliveryStates
  <2>6. ASSUME NEW p \in sending, RecordCopyOutcome(p)
        PROVE  Remembers(data', Ledger)
    BY <2>4, <2>6 DEF RecordCopyOutcome, DeliveryStates
  <2> QED
    BY <1>7, <2>1, <2>2, <2>3, <2>5, <2>6 DEF Copy, ClaimCopy, AbandonCopy
<1>8. CASE Environment
  BY <1>8 DEF Environment, FinishWork, StartWork, ChangeAuthority, ReloadPage,
              Expire, Restart
<1> QED BY <1>2, <1>4, <1>5, <1>6, <1>7, <1>8 DEF Next

LEMMA ForgetsNothingUncertain ==
  ASSUME IInv, RecordInv, [Next]_vars
  PROVE  /\ \A e \in DOMAIN data.receipts :
              Uncertain(data.receipts[e]) => e \in DOMAIN data'.receipts
         /\ \A x \in DOMAIN data.deliveries :
              data.deliveries[x].state # "CONFIRMED" =>
                /\ x \in DOMAIN data'.deliveries
                /\ data.deliveries[x].exec \in DOMAIN data'.receipts
         /\ \A e \in DOMAIN data.receipts \cap DOMAIN data'.receipts :
              \A o \in ItemsIn(data.receipts[e], {"RESULT", "UNKNOWN"}) :
                data'.receipts[e].items[o] = data.receipts[e].items[o]
<1>1. CASE data' = data
  <2>1. Linked(data)
    BY DEF RecordInv, Sound
  <2> QED BY <1>1, <2>1 DEF Linked
<1>2. CASE Remembers(data', Ledger)
  <2>1. Keeps(Ledger, data, Context) /\ Trims(Ledger, data)
    BY LedgerType, LedgerSound DEF IInv
  <2>2. ASSUME NEW e \in DOMAIN data.receipts, Uncertain(data.receipts[e])
        PROVE  e \in DOMAIN data'.receipts
    <3>1. ~ Finished(data.receipts[e])
      BY <2>2 DEF Uncertain, ItemsIn, Finished, Items
    <3>2. e \in DOMAIN Ledger.receipts
      BY <2>1, <3>1 DEF Keeps
    <3> QED BY <1>2, <3>2 DEF Remembers
  <2>3. ASSUME NEW x \in DOMAIN data.deliveries,
               data.deliveries[x].state # "CONFIRMED"
        PROVE  /\ x \in DOMAIN data'.deliveries
               /\ data.deliveries[x].exec \in DOMAIN data'.receipts
    BY <1>2, <2>1, <2>3 DEF Trims, Remembers
  <2>4. ASSUME NEW e \in DOMAIN data.receipts \cap DOMAIN data'.receipts,
               NEW o \in ItemsIn(data.receipts[e], {"RESULT", "UNKNOWN"})
        PROVE  data'.receipts[e].items[o] = data.receipts[e].items[o]
    <3>1. e \in DOMAIN Ledger.receipts
      <4>1. e \in used
        BY DEF IInv, Distinct, Parts, Recorded
      <4> QED BY <1>2, <2>4, <4>1 DEF Remembers
    <3>2. Ledger.receipts[e] = data.receipts[e]
      BY <2>1, <3>1 DEF Keeps
    <3> QED BY <1>2, <3>1, <3>2 DEF Remembers
  <2> QED BY <2>2, <2>3, <2>4
<1> QED BY <1>1, <1>2, StepRemembers

\* compactCompletedWork retires only what is settled, and no writer moves an
\* item on from RESULT or UNKNOWN: what may have happened is never forgotten.
THEOREM EffectsRemembered == Spec => UncertainEffectsKept
<1>1. IInv /\ RecordInv /\ [Next]_vars =>
        [/\ \A e \in DOMAIN data.receipts :
              Uncertain(data.receipts[e]) => e \in DOMAIN data'.receipts
         /\ \A x \in DOMAIN data.deliveries :
              data.deliveries[x].state # "CONFIRMED" =>
                /\ x \in DOMAIN data'.deliveries
                /\ data.deliveries[x].exec \in DOMAIN data'.receipts
         /\ \A e \in DOMAIN data.receipts \cap DOMAIN data'.receipts :
              \A o \in ItemsIn(data.receipts[e], {"RESULT", "UNKNOWN"}) :
                data'.receipts[e].items[o] = data.receipts[e].items[o]]_vars
  BY ForgetsNothingUncertain
<1> QED
  BY <1>1, Invariance, RecordInvariance, PTL DEF Spec, UncertainEffectsKept

=============================================================================
