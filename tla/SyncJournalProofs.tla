---------------------------- MODULE SyncJournalProofs ----------------------------
(***************************************************************************)
(* SyncJournal for any number of installations, conversations and changes.  *)
(* The server implements the register of SyncRegister, whatever the         *)
(* journals send, repeat or lose; an installation believes only what the    *)
(* server told, moves only forward, and loses no latest change.             *)
(***************************************************************************)
EXTENDS SyncJournal, TLAPS, NaturalsInduction, FiniteSetTheorems, WellFoundedInduction

\* The changes receipts were written for.
Receipted == {[dev |-> y.dev, seq |-> y.wire.seq, content |-> y.wire.content] : y \in receipts}

\* What the server tells of a conversation that took these changes.
EntityOf(changes) ==
  [rev |-> Len(changes),
   state |-> IF changes = <<>> THEN None ELSE changes[Len(changes)].content]

\* A change without a receipt, or an entity that is not its last change, would let a
\* repeated request take effect again.
Inv ==
  /\ \A y \in receipts : y.wire \in Wires
  /\ accepted \in [Conversation -> Seq(Receipted)]
  /\ server = [e \in Conversation |-> EntityOf(accepted[e])]

\* A request id has one receipt: sync-repository.ts reads it under the lock that
\* writes it.
OneReceiptPerRequest ==
  \A y, z \in receipts : y.dev = z.dev /\ y.wire.seq = z.wire.seq => y = z

--------------------------------------------------------------------------------
\* Every step but the service of a new entry and a revocation leaves the server as it
\* is.
LEMMA OtherSteps ==
  ASSUME [Next]_vars
  PROVE  \/ \E r \in requests : ServeNew(r)
         \/ \E d \in Device : Revoke(d)
         \/ UNCHANGED backend
<1>1. CASE UNCHANGED vars
  BY <1>1 DEF vars
<1>2. ASSUME NEW d \in Device, NEW e \in Conversation,
             (\E s \in Shop : Bind(d, e, s)) \/ Finish(d, e) \/ Deliver(d, e) \/ ReadSnapshot(d, e)
      PROVE  UNCHANGED backend
  BY <1>2 DEF Bind, Finish, Deliver, ReadSnapshot
<1>3. ASSUME NEW d \in Device, Select(d) \/ Send(d) \/ DropSnapshot(d) \/ ApplySnapshot(d)
      PROVE  UNCHANGED backend
  BY <1>3 DEF Select, Send, DropSnapshot, ApplySnapshot
<1>4. ASSUME NEW d \in Device, ApplyAnswer(d) \/ FailBatch(d) \/ LoseAnswer(d) \/ Restart(d)
      PROVE  UNCHANGED backend
  BY <1>4 DEF ApplyAnswer, FailBatch, LoseAnswer, Restart
<1>5. ASSUME NEW d \in Device, Serve(d)
      PROVE  (\E r \in requests : ServeNew(r)) \/ UNCHANGED backend
  BY <1>5 DEF Serve, ServeRefused, ServeRepeated
<1> QED BY <1>1, <1>2, <1>3, <1>4, <1>5 DEF Next

\* What an accepted entry leaves in the entity, and that it is newer.
LEMMA AcceptedIsNewer ==
  ASSUME NEW state \in Contents \cup {None}, NEW revision \in Nat, NEW x \in Wires,
         Accepted(state, revision, x)
  PROVE  /\ Answer(state, revision, x).rev = revision + 1
         /\ Answer(state, revision, x).state = x.content
         /\ state # None => x.content.rev > state.rev
<1>1. state # None => x.content.rev > state.rev
  BY DEF Accepted, Refused, Wires, Contents
<1> QED BY <1>1 DEF Answer

LEMMA NotAcceptedKeeps ==
  ASSUME NEW state, NEW revision, NEW x, ~Accepted(state, revision, x)
  PROVE  /\ Answer(state, revision, x).rev = revision
         /\ Answer(state, revision, x).state = state
  BY DEF Answer

--------------------------------------------------------------------------------
\* What an entity is after the changes it took.
LEMMA EntityFacts ==
  ASSUME Inv, NEW e \in Conversation
  PROVE  /\ accepted[e] \in Seq(Receipted)
         /\ server[e].rev = Len(accepted[e])
         /\ server[e].state = IF accepted[e] = <<>> THEN None
                              ELSE accepted[e][Len(accepted[e])].content
         /\ server[e].rev \in Nat
         /\ server[e].state \in Contents \cup {None}
         /\ accepted[e] # <<>> => server[e].state \in Contents
<1>1. accepted[e] \in Seq(Receipted)
  BY DEF Inv
<1>2. server[e] = EntityOf(accepted[e])
  BY DEF Inv
<1>3. \A c \in Receipted : c.content \in Contents
  BY DEF Inv, Receipted, Wires
<1>4. accepted[e] # <<>> => accepted[e][Len(accepted[e])] \in Receipted
  BY <1>1
<1> QED BY <1>1, <1>2, <1>3, <1>4 DEF EntityOf

\* An accepted change joins the log, and its entity becomes it.
LEMMA ServeAccepted ==
  ASSUME Inv, NEW r \in requests, ServeNew(r),
         Accepted(server[Head(r.todo).ent].state, server[Head(r.todo).ent].rev, Head(r.todo))
  PROVE  LET x == Head(r.todo)
             c == [dev |-> r.dev, seq |-> x.seq, content |-> x.content]
         IN /\ x \in Wires
            /\ Receipts(r, x) = {}
            /\ r.dev \in active
            /\ \E a : receipts' = receipts \cup {[dev |-> r.dev, wire |-> x, answer |-> a]}
            /\ accepted' = [accepted EXCEPT ![x.ent] = Append(@, c)]
            /\ server' = [server EXCEPT ![x.ent] =
                            [rev |-> Len(accepted[x.ent]) + 1, state |-> x.content]]
            /\ accepted[x.ent] # <<>> =>
                 x.content.rev > accepted[x.ent][Len(accepted[x.ent])].content.rev
            /\ UNCHANGED active
<1> DEFINE x == Head(r.todo)
           row == server[x.ent]
           answer == Answer(row.state, row.rev, x)
<1>1. /\ x \in Wires
      /\ Receipts(r, x) = {}
      /\ r.dev \in active
      /\ server' = [server EXCEPT ![x.ent] = [rev |-> answer.rev, state |-> answer.state]]
      /\ receipts' = receipts \cup {[dev |-> r.dev, wire |-> x, answer |-> answer]}
      /\ accepted' = [accepted EXCEPT ![x.ent] =
                        Append(@, [dev |-> r.dev, seq |-> x.seq, content |-> x.content])]
      /\ UNCHANGED active
  BY DEF ServeNew, Authorized
<1>2. x.ent \in Conversation
  BY <1>1 DEF Wires
<1>3. /\ row.rev = Len(accepted[x.ent])
      /\ row.rev \in Nat
      /\ row.state \in Contents \cup {None}
      /\ accepted[x.ent] # <<>> => /\ row.state \in Contents
                                   /\ row.state = accepted[x.ent][Len(accepted[x.ent])].content
  BY <1>2, EntityFacts
<1>4. /\ answer.rev = row.rev + 1
      /\ answer.state = x.content
      /\ row.state # None => x.content.rev > row.state.rev
  BY <1>1, <1>3, AcceptedIsNewer
<1>5. row.state \in Contents => row.state # None
  BY NoBindingIsNone
<1> HIDE DEF answer, row, x
<1> QED BY <1>1, <1>3, <1>4, <1>5 DEF x

\* Any other new entry gets its receipt and changes nothing else.
LEMMA ServeOther ==
  ASSUME Inv, NEW r \in requests, ServeNew(r),
         ~Accepted(server[Head(r.todo).ent].state, server[Head(r.todo).ent].rev, Head(r.todo))
  PROVE  LET x == Head(r.todo)
         IN /\ x \in Wires
            /\ Receipts(r, x) = {}
            /\ \E a : receipts' = receipts \cup {[dev |-> r.dev, wire |-> x, answer |-> a]}
            /\ UNCHANGED <<server, accepted, active>>
<1> DEFINE x == Head(r.todo)
           row == server[x.ent]
           answer == Answer(row.state, row.rev, x)
<1>1. /\ x \in Wires
      /\ Receipts(r, x) = {}
      /\ server' = [server EXCEPT ![x.ent] = [rev |-> answer.rev, state |-> answer.state]]
      /\ receipts' = receipts \cup {[dev |-> r.dev, wire |-> x, answer |-> answer]}
      /\ UNCHANGED <<accepted, active>>
  BY DEF ServeNew
<1>2. x.ent \in Conversation
  BY <1>1 DEF Wires
<1>3. answer.rev = row.rev /\ answer.state = row.state
  BY NotAcceptedKeeps
<1>4. server = [e \in Conversation |-> EntityOf(accepted[e])]
  BY DEF Inv
<1>5. row = [rev |-> row.rev, state |-> row.state]
  BY <1>2, <1>4 DEF EntityOf
<1>6. server' = server
  <2> HIDE DEF answer, x
  <2> QED BY <1>1, <1>3, <1>4, <1>5
<1> HIDE DEF answer, row, x
<1> QED BY <1>1, <1>6 DEF x

--------------------------------------------------------------------------------
LEMMA InvInit == Init => Inv
<1> SUFFICES ASSUME Init PROVE Inv
  OBVIOUS
<1>1. accepted = [e \in Conversation |-> <<>>]
  BY DEF Init
<1>2. accepted \in [Conversation -> Seq(Receipted)]
  BY <1>1
<1>3. server = [e \in Conversation |-> EntityOf(accepted[e])]
  BY <1>1 DEF Init, EntityOf
<1> QED BY <1>2, <1>3 DEF Inv, Init

LEMMA InvNext == Inv /\ [Next]_vars => Inv'
<1> SUFFICES ASSUME Inv, [Next]_vars PROVE Inv'
  OBVIOUS
<1>1. CASE UNCHANGED backend
  BY <1>1 DEF backend, Inv, Receipted
<1>2. ASSUME NEW d \in Device, Revoke(d) PROVE Inv'
  BY <1>2 DEF Revoke, Inv, Receipted
<1>3. ASSUME NEW r \in requests, ServeNew(r) PROVE Inv'
  <2> DEFINE x == Head(r.todo)
             c == [dev |-> r.dev, seq |-> x.seq, content |-> x.content]
  <2>1. /\ x \in Wires
        /\ \E a : receipts' = receipts \cup {[dev |-> r.dev, wire |-> x, answer |-> a]}
    BY <1>3, ServeAccepted, ServeOther
  <2>2. (\A y \in receipts : y.wire \in Wires)'
    BY <2>1 DEF Inv
  <2>3. Receipted \subseteq Receipted' /\ c \in Receipted'
    BY <2>1 DEF Receipted
  <2>4. Seq(Receipted) \subseteq Seq(Receipted')
    BY <2>3
  <2>5. CASE UNCHANGED <<server, accepted>>
    BY <2>2, <2>4, <2>5 DEF Inv
  <2>6. CASE Accepted(server[x.ent].state, server[x.ent].rev, x)
    <3>1. /\ accepted' = [accepted EXCEPT ![x.ent] = Append(@, c)]
          /\ server' = [server EXCEPT ![x.ent] =
                          [rev |-> Len(accepted[x.ent]) + 1, state |-> x.content]]
      BY <1>3, <2>6, ServeAccepted
    <3>2. x.ent \in Conversation
      BY <2>1 DEF Wires
    <3>3. \A e \in Conversation : accepted[e] \in Seq(Receipted')
      BY <2>4 DEF Inv
    <3>4. Append(accepted[x.ent], c) \in Seq(Receipted')
      BY <2>3, <3>2, <3>3
    <3>5. accepted' \in [Conversation -> Seq(Receipted')]
      BY <3>1, <3>2, <3>3, <3>4 DEF Inv
    <3>6. EntityOf(Append(accepted[x.ent], c))
            = [rev |-> Len(accepted[x.ent]) + 1, state |-> x.content]
      <4>1. /\ Len(Append(accepted[x.ent], c)) = Len(accepted[x.ent]) + 1
            /\ Append(accepted[x.ent], c)[Len(accepted[x.ent]) + 1] = c
            /\ Append(accepted[x.ent], c) # <<>>
        BY <2>3, <3>2, <3>3
      <4>2. c.content = x.content
        OBVIOUS
      <4> HIDE DEF c, x
      <4> QED BY <4>1, <4>2 DEF EntityOf
    <3>7. server' = [e \in Conversation |-> EntityOf(accepted'[e])]
      <4>1. server = [e \in Conversation |-> EntityOf(accepted[e])]
        BY DEF Inv
      <4>2. \A e \in Conversation : server'[e] = EntityOf(accepted'[e])
        BY <3>1, <3>2, <3>6, <4>1 DEF Inv
      <4> QED BY <3>1, <4>1, <4>2
    <3> QED BY <2>2, <3>5, <3>7 DEF Inv
  <2> QED BY <1>3, <2>5, <2>6, ServeOther
<1> QED BY <1>1, <1>2, <1>3, OtherSteps

\* In every reachable state the entity of a conversation is the last of its changes, and
\* every change has a receipt.
THEOREM Invariance == Spec => []Inv
  BY InvInit, InvNext, PTL DEF Spec

--------------------------------------------------------------------------------
LEMMA OneReceiptNext == Inv /\ OneReceiptPerRequest /\ [Next]_vars => OneReceiptPerRequest'
<1> SUFFICES ASSUME Inv, OneReceiptPerRequest, [Next]_vars PROVE OneReceiptPerRequest'
  OBVIOUS
<1>1. CASE UNCHANGED backend
  BY <1>1 DEF backend, OneReceiptPerRequest
<1>2. ASSUME NEW d \in Device, Revoke(d) PROVE OneReceiptPerRequest'
  BY <1>2 DEF Revoke, OneReceiptPerRequest
<1>3. ASSUME NEW r \in requests, ServeNew(r) PROVE OneReceiptPerRequest'
  <2> DEFINE x == Head(r.todo)
  <2>1. PICK a : receipts' = receipts \cup {[dev |-> r.dev, wire |-> x, answer |-> a]}
    BY <1>3, ServeAccepted, ServeOther
  <2>2. \A y \in receipts : ~(y.dev = r.dev /\ y.wire.seq = x.seq)
    BY <1>3, ServeAccepted, ServeOther DEF Receipts
  <2> HIDE DEF x
  <2> QED BY <2>1, <2>2 DEF OneReceiptPerRequest
<1> QED BY <1>1, <1>2, <1>3, OtherSteps

\* However often a request is repeated, by whichever worker, it has one receipt: the
\* answer given first is the answer given ever after.
THEOREM ReceiptIsFinal == Spec => []OneReceiptPerRequest
<1>1. Init => OneReceiptPerRequest
  BY DEF Init, OneReceiptPerRequest
<1> QED BY <1>1, OneReceiptNext, Invariance, PTL DEF Spec

--------------------------------------------------------------------------------
LEMMA RegisterInit == Init => Register!Init
  BY DEF Init, Register!Init

LEMMA RegisterNext == Inv /\ [Next]_vars => [Register!Next]_<<accepted, server, active>>
<1> SUFFICES ASSUME Inv, [Next]_vars PROVE [Register!Next]_<<accepted, server, active>>
  OBVIOUS
<1>1. CASE UNCHANGED backend
  BY <1>1 DEF backend
<1>2. ASSUME NEW d \in Device, Revoke(d) PROVE Register!Leave
  BY <1>2 DEF Revoke, Register!Leave
<1>3. ASSUME NEW r \in requests, ServeNew(r)
      PROVE  [\E e \in Conversation : Register!Take(e)]_<<accepted, server, active>>
  <2> DEFINE x == Head(r.todo)
             c == [dev |-> r.dev, seq |-> x.seq, content |-> x.content]
  <2>1. CASE ~Accepted(server[x.ent].state, server[x.ent].rev, x)
    BY <1>3, <2>1, ServeOther
  <2>2. CASE Accepted(server[x.ent].state, server[x.ent].rev, x)
    <3>1. /\ x \in Wires
          /\ Receipts(r, x) = {}
          /\ r.dev \in active
          /\ accepted' = [accepted EXCEPT ![x.ent] = Append(@, c)]
          /\ server' = [server EXCEPT ![x.ent] =
                          [rev |-> Len(accepted[x.ent]) + 1, state |-> x.content]]
          /\ accepted[x.ent] # <<>> =>
               x.content.rev > accepted[x.ent][Len(accepted[x.ent])].content.rev
          /\ UNCHANGED active
      BY <1>3, <2>2, ServeAccepted
    <3>2. x.ent \in Conversation
      BY <3>1 DEF Wires
    <3>3. c.dev = r.dev /\ c.seq = x.seq /\ c.content = x.content
      OBVIOUS
    <3>4. \A e \in Conversation : accepted[e] \in Seq(Receipted)
      BY DEF Inv
    <3>5. ~Register!Used(c)
      <4> SUFFICES ASSUME NEW e \in Conversation, NEW n \in 1 .. Len(accepted[e]),
                          accepted[e][n].dev = c.dev, accepted[e][n].seq = c.seq
                   PROVE  FALSE
        BY DEF Register!Used
      <4>1. accepted[e][n] \in Receipted
        BY <3>4
      <4>2. PICK y \in receipts : y.dev = r.dev /\ y.wire.seq = x.seq
        BY <3>3, <4>1 DEF Receipted
      <4> QED BY <3>1, <4>2 DEF Receipts
    <3> HIDE DEF c, x
    <3>6. accepted'[x.ent][Len(accepted[x.ent]) + 1] = c
      BY <3>1, <3>2, <3>4 DEF Inv
    <3>7. Register!Newer(c, x.ent)
      BY <3>1, <3>3 DEF Register!Newer
    <3>8. Register!Take(x.ent)
      BY <3>1, <3>3, <3>5, <3>6, <3>7 DEF Register!Take
    <3> QED BY <3>2, <3>8
  <2> QED BY <2>1, <2>2
<1> QED BY <1>1, <1>2, <1>3, OtherSteps DEF Register!Next

\* The server, with every journal, network and restart around it, implements the
\* register it promises to be: changes one by one, each once, each newer than the last,
\* none by a revoked installation.
THEOREM Refinement == Spec => ImplementsRegister
  BY RegisterInit, RegisterNext, Invariance, PTL
     DEF Spec, ImplementsRegister, Register!Spec, Register!registers

--------------------------------------------------------------------------------
\* Counting.

LEMMA Minimum ==
  ASSUME NEW S, S \subseteq Nat, S # {}
  PROVE  \E n \in S : \A m \in S : n <= m
<1> DEFINE order == {ss \in Nat \X Nat : ss[1] < ss[2]}
<1>1. order = OpToRel(<, Nat)
  BY DEF OpToRel
<1>2. IsWellFoundedOn(order, Nat)
  BY <1>1, NatLessThanWellFounded
<1>3. PICK n \in S : \A m \in S : ~ (<<m, n>> \in order)
  <2> HIDE DEF order
  <2> QED BY <1>2, WFMin
<1>4. \A m \in S : n <= m
  <2> SUFFICES ASSUME NEW m \in S PROVE n <= m
    OBVIOUS
  <2>1. m \in Nat /\ n \in Nat
    OBVIOUS
  <2>2. m < n => <<m, n>> \in order
    BY <2>1
  <2> HIDE DEF order
  <2> QED BY <1>3, <2>1, <2>2
<1> QED BY <1>4

\* Induction up to a bound.
LEMMA Upwards ==
  ASSUME NEW N \in Nat, NEW Q, 0 \in Q, \A k \in 0 .. N - 1 : k \in Q => k + 1 \in Q
  PROVE  \A k \in 0 .. N : k \in Q
<1> DEFINE missing == {k \in 0 .. N : k \notin Q}
<1> SUFFICES ASSUME missing # {} PROVE FALSE
  OBVIOUS
<1>1. missing \subseteq Nat
  OBVIOUS
<1>2. PICK n \in missing : \A m \in missing : n <= m
  <2> HIDE DEF missing
  <2> QED BY <1>1, Minimum
<1>3. n # 0
  OBVIOUS
<1>4. n - 1 \in 0 .. N - 1
  BY <1>3
<1>5. n - 1 \in Q
  BY <1>2, <1>4
<1> QED BY <1>4, <1>5

\* Entries in the order of their numbers: ranks are taken once each.
Ordered(S) == IsFiniteSet(S) /\ (\A x \in S : x.seq \in Nat)
              /\ \A x, y \in S : x.seq = y.seq => x = y

LEMMA Ranks ==
  ASSUME NEW S, Ordered(S)
  PROVE  /\ Cardinality(S) \in Nat
         /\ \A x \in S : Cardinality(Before(S, x)) \in 0 .. Cardinality(S) - 1
         /\ \A x, y \in S : Cardinality(Before(S, x)) = Cardinality(Before(S, y)) => x = y
<1>0. Cardinality(S) \in Nat
  BY FS_CardinalityType DEF Ordered
<1>1. \A x \in S : IsFiniteSet(Before(S, x)) /\ Cardinality(Before(S, x)) \in Nat
  BY FS_Subset, FS_CardinalityType DEF Ordered, Before
<1>2. ASSUME NEW x \in S, NEW T \in SUBSET S, Before(S, x) \cup {x} \subseteq T
      PROVE  Cardinality(Before(S, x)) < Cardinality(T)
  <2>1. IsFiniteSet(T) /\ Cardinality(T) \in Nat
    BY FS_Subset, FS_CardinalityType DEF Ordered
  <2>2. x \notin Before(S, x)
    BY DEF Before, Ordered
  <2>3. /\ IsFiniteSet(Before(S, x) \cup {x})
        /\ Cardinality(Before(S, x) \cup {x}) = Cardinality(Before(S, x)) + 1
    BY <1>1, <2>2, FS_AddElement
  <2>4. Cardinality(Before(S, x) \cup {x}) <= Cardinality(T)
    BY <1>2, <2>1, FS_Subset
  <2> QED BY <1>1, <2>1, <2>3, <2>4
<1>3. \A x \in S : Cardinality(Before(S, x)) < Cardinality(S)
  <2> SUFFICES ASSUME NEW x \in S PROVE Cardinality(Before(S, x)) < Cardinality(S)
    OBVIOUS
  <2>1. Before(S, x) \cup {x} \subseteq S
    BY DEF Before
  <2> QED BY <1>2, <2>1
<1>4. ASSUME NEW x \in S, NEW y \in S, x.seq < y.seq
      PROVE  Cardinality(Before(S, x)) < Cardinality(Before(S, y))
  <2>1. Before(S, x) \cup {x} \subseteq Before(S, y)
    BY <1>4 DEF Before, Ordered
  <2>2. Before(S, y) \in SUBSET S
    BY DEF Before
  <2> QED BY <1>2, <2>1, <2>2
<1>5. ASSUME NEW x \in S, NEW y \in S, Cardinality(Before(S, x)) = Cardinality(Before(S, y))
      PROVE  x = y
  <2>1. x.seq \in Nat /\ y.seq \in Nat
    BY DEF Ordered
  <2>2. ~ (x.seq < y.seq) /\ ~ (y.seq < x.seq)
    BY <1>1, <1>4, <1>5
  <2> QED BY <2>1, <2>2 DEF Ordered
<1> QED BY <1>0, <1>1, <1>3, <1>5

LEMMA RankTaken ==
  ASSUME NEW S, Ordered(S), NEW k \in 0 .. Cardinality(S) - 1
  PROVE  \E x \in S : Cardinality(Before(S, x)) = k
<1> DEFINE n == Cardinality(S)
           others == 0 .. n - 1 \ {k}
           f == [x \in S |-> Cardinality(Before(S, x))]
<1> SUFFICES ASSUME \A x \in S : Cardinality(Before(S, x)) # k PROVE FALSE
  OBVIOUS
<1>1. n \in Nat /\ k \in 0 .. n - 1
  BY Ranks
<1>2. f \in [S -> others]
  BY Ranks
<1>3. \A x, y \in S : f[x] = f[y] => x = y
  BY Ranks
<1>4. IsFiniteSet(0 .. n - 1) /\ Cardinality(0 .. n - 1) = n
  BY <1>1, FS_Interval
<1>5. IsFiniteSet(others) /\ Cardinality(others) = n - 1
  BY <1>1, <1>4, FS_RemoveElement
<1>6. IsFiniteSet(S) /\ Cardinality(S) = n
  BY DEF Ordered
<1> HIDE DEF n, others, f
<1>7. Cardinality(others) < Cardinality(S)
  BY <1>1, <1>5, <1>6
<1> QED BY <1>2, <1>3, <1>5, <1>6, <1>7, FS_PigeonHole

\* InOrder lists a set, each of its members once.
LEMMA InOrderLists ==
  ASSUME NEW S, Ordered(S)
  PROVE  /\ Cardinality(S) \in Nat
         /\ Len(InOrder(S)) = Cardinality(S)
         /\ DOMAIN InOrder(S) = 1 .. Cardinality(S)
         /\ \A i \in 1 .. Cardinality(S) : InOrder(S)[i] \in S
         /\ \A i, j \in 1 .. Cardinality(S) : InOrder(S)[i] = InOrder(S)[j] => i = j
         /\ \A x \in S : \E i \in 1 .. Cardinality(S) : InOrder(S)[i] = x
<1> DEFINE n == Cardinality(S)
           At(i) == InOrder(S)[i]
<1>0. n \in Nat
  BY Ranks
<1>1. DOMAIN InOrder(S) = 1 .. n
  BY DEF InOrder
<1>2. ASSUME NEW i \in 1 .. n
      PROVE  At(i) \in S /\ Cardinality(Before(S, At(i))) = i - 1
  <2>1. i - 1 \in 0 .. n - 1
    BY <1>0
  <2>2. \E x \in S : Cardinality(Before(S, x)) = i - 1
    BY <2>1, RankTaken
  <2>3. At(i) = CHOOSE x \in S : Cardinality(Before(S, x)) = i - 1
    BY DEF InOrder
  <2> HIDE DEF At
  <2> QED BY <2>2, <2>3
<1>3. Len(InOrder(S)) = n
  <2>1. InOrder(S) \in Seq(S)
    <3>1. \A i \in 1 .. n : InOrder(S)[i] \in S
      BY <1>2
    <3>2. InOrder(S) = [i \in 1 .. n |-> InOrder(S)[i]]
      BY DEF InOrder
    <3> QED BY <1>0, <3>1, <3>2
  <2> QED BY <1>0, <1>1, <2>1
<1>4. ASSUME NEW i \in 1 .. n, NEW j \in 1 .. n, At(i) = At(j) PROVE i = j
  <2>1. i - 1 = j - 1
    BY <1>2, <1>4
  <2> QED BY <1>0, <2>1
<1>5. ASSUME NEW x \in S PROVE \E i \in 1 .. n : At(i) = x
  <2> DEFINE i == Cardinality(Before(S, x)) + 1
  <2>1. i \in 1 .. n /\ i - 1 = Cardinality(Before(S, x))
    BY <1>0, Ranks
  <2> HIDE DEF i
  <2>2. At(i) \in S /\ Cardinality(Before(S, At(i))) = Cardinality(Before(S, x))
    BY <1>2, <2>1
  <2>3. At(i) = x
    <3> HIDE DEF At
    <3> QED BY <2>2, Ranks
  <2> QED BY <2>1, <2>3
<1> QED BY <1>0, <1>1, <1>2, <1>3, <1>4, <1>5

--------------------------------------------------------------------------------
\* What is recursive in Applied, row by row.
LEMMA AppliedStepwise ==
  ASSUME NEW rows, Len(rows) \in Nat, NEW p
  PROVE  \E after : /\ DOMAIN after = 0 .. Len(rows)
                    /\ after[0] = p
                    /\ \A n \in 1 .. Len(rows) : after[n] = ApplyRow(rows[n], after[n - 1])
                    /\ Applied(rows, p) = after[Len(rows)]
<1> DEFINE N == Len(rows)
           Steps(m, g) == g = [n \in 0 .. m |-> IF n = 0 THEN p ELSE ApplyRow(rows[n], g[n - 1])]
           Q == {m \in 0 .. N : \E g : Steps(m, g)}
<1>1. 0 \in Q
  <2> DEFINE g == [n \in 0 .. 0 |-> p]
  <2>1. g = [n \in 0 .. 0 |-> IF n = 0 THEN p ELSE ApplyRow(rows[n], g[n - 1])]
    <3>1. \A n \in 0 .. 0 : n = 0
      OBVIOUS
    <3> QED BY <3>1
  <2>2. Steps(0, g)
    BY <2>1
  <2> HIDE DEF g, Steps
  <2> QED BY <2>2
<1>2. ASSUME NEW k \in 0 .. N - 1, k \in Q PROVE k + 1 \in Q
  <2>1. PICK g : Steps(k, g)
    BY <1>2
  <2> DEFINE h == [n \in 0 .. k + 1 |-> IF n = k + 1 THEN ApplyRow(rows[n], g[k]) ELSE g[n]]
  <2>2. \A n \in 0 .. k : h[n] = g[n] /\ g[n] = IF n = 0 THEN p ELSE ApplyRow(rows[n], g[n - 1])
    BY <2>1
  <2>3. h[k + 1] = ApplyRow(rows[k + 1], g[k])
    OBVIOUS
  <2>4. ASSUME NEW n \in 0 .. k + 1
        PROVE  h[n] = IF n = 0 THEN p ELSE ApplyRow(rows[n], h[n - 1])
    <3>1. CASE n = k + 1
      <4>1. n # 0 /\ n - 1 = k /\ k \in 0 .. k
        BY <3>1
      <4> HIDE DEF h
      <4> QED BY <2>2, <2>3, <3>1, <4>1
    <3>2. CASE n # k + 1
      <4>1. n \in 0 .. k
        BY <3>2
      <4>2. n # 0 => n - 1 \in 0 .. k
        BY <4>1
      <4> HIDE DEF h
      <4> QED BY <2>2, <4>1, <4>2
    <3> QED BY <3>1, <3>2
  <2>5. DOMAIN h = 0 .. k + 1 /\ h = [n \in 0 .. k + 1 |-> h[n]]
    OBVIOUS
  <2> HIDE DEF h
  <2>6. h = [n \in 0 .. k + 1 |-> IF n = 0 THEN p ELSE ApplyRow(rows[n], h[n - 1])]
    BY <2>4, <2>5
  <2>7. Steps(k + 1, h)
    BY <2>6
  <2> HIDE DEF Steps
  <2> QED BY <2>7
<1>3. N \in Q
  <2>1. \A k \in 0 .. N : k \in Q
    <3> HIDE DEF Q
    <3> QED BY <1>1, <1>2, Upwards
  <2> QED BY <2>1
<1> DEFINE after == CHOOSE g : Steps(N, g)
<1>4. Steps(N, after)
  <2> HIDE DEF Steps
  <2> QED BY <1>3
<1>5. Applied(rows, p) = after[N]
  BY DEF Applied
<1> HIDE DEF after
<1>6. /\ DOMAIN after = 0 .. N
      /\ \A n \in 0 .. N : after[n] = IF n = 0 THEN p ELSE ApplyRow(rows[n], after[n - 1])
  BY <1>4
<1>7. after[0] = p /\ \A n \in 1 .. N : after[n] = ApplyRow(rows[n], after[n - 1])
  BY <1>6
<1> QED BY <1>5, <1>6, <1>7

--------------------------------------------------------------------------------
\* The client's side: what journals, batches, requests, answers and beliefs have to do
\* with each other.

Statuses == Waiting \cup {"IN_FLIGHT", "CONFLICT", "FAILED"}
Entries == [seq: Nat, ent: Conversation, kind: Kinds, base: Nat, content: Contents,
            status: Statuses]
Rows == [seq: Nat, outcome: {"ACK", "CONFLICT"}, rev: Nat, state: Contents \cup {None}]
Requests == [dev: Device, waited: BOOLEAN, failed: BOOLEAN, results: SUBSET Rows,
             todo: Seq(Wires)]
Snapshots == [ent: Conversation, sequence: Nat, local: Contents \cup {None}, work: BOOLEAN,
              rev: Nat, state: Contents \cup {None}]
Verdicts == [fences: BOOLEAN, state: Contents \cup {None}]

\* x is, or stands for, the entry an installation recorded with that sequence number.
Matches(d, x) ==
  /\ x.seq \in 1 .. Len(recorded[d])
  /\ recorded[d][x.seq].ent = x.ent
  /\ recorded[d][x.seq].kind = x.kind

OneEach(S) == \A x, y \in S : x.seq = y.seq => x = y

\* What the server told of e at a revision.
Told(e, rev, state) ==
  /\ rev <= Len(accepted[e])
  /\ state = IF rev = 0 THEN None ELSE accepted[e][rev].content

\* Later changes of a conversation are newer.
Growing ==
  \A e \in Conversation : \A n \in 1 .. Len(accepted[e]) : \A m \in 1 .. n - 1 :
    accepted[e][m].content.rev < accepted[e][n].content.rev

LocalOK ==
  /\ binding \in [Device -> [Conversation -> Contents \cup {None}]]
  /\ work \in [Device -> [Conversation -> {"none", "on", "over"}]]
  /\ \A d \in Device, e \in Conversation : work[d][e] = "on" => binding[d][e] # None

\* The journal holds recorded entries.
JournalOK ==
  /\ recorded \in [Device -> Seq(Entries)]
  /\ journal \in [Device -> SUBSET Entries]
  /\ \A d \in Device :
       /\ IsFiniteSet(journal[d])
       /\ Cardinality(journal[d]) <= MaxEntries
       /\ OneEach(journal[d])
       /\ \A x \in journal[d] : Matches(d, x)

\* A batch holds recorded entries, and whatever is in flight is of the batch sent.
FlightOK ==
  /\ flight \in [Device -> [phase: {"idle", "chosen", "sent"}, batch: SUBSET Entries]]
  /\ \A d \in Device :
       /\ flight[d].phase = "idle" <=> flight[d].batch = {}
       /\ IsFiniteSet(flight[d].batch)
       /\ OneEach(flight[d].batch)
       /\ \A x \in flight[d].batch : Matches(d, x)
       /\ \A x \in journal[d] : x.status = "IN_FLIGHT" =>
            flight[d].phase = "sent" /\ \E y \in flight[d].batch : y.seq = x.seq

\* A receipt is of a recorded entry, its answer what the server told.
ReceiptsOK ==
  /\ receipts \subseteq [dev: Device, wire: Wires, answer: Answers]
  /\ \A y \in receipts :
       /\ Matches(y.dev, y.wire)
       /\ Told(y.wire.ent, y.answer.rev, y.answer.state)

\* What a request has still to ask is recorded, what it was told has a receipt.
Asked(r) ==
  /\ IsFiniteSet(r.results)
  /\ \A n \in 1 .. Len(r.todo) : Matches(r.dev, r.todo[n])
  /\ \A row \in r.results :
       \E y \in receipts : y.dev = r.dev /\ row = Row(y.wire.seq, y.answer)

\* The request an installation waits for covers its batch.
Covers(r, batch) ==
  \A x \in batch : \/ \E row \in r.results : row.seq = x.seq
                   \/ \E n \in 1 .. Len(r.todo) : r.todo[n].seq = x.seq

RequestsOK ==
  /\ requests \subseteq Requests
  /\ \A r \in requests :
       /\ Asked(r)
       /\ r.waited => /\ flight[r.dev].phase = "sent"
                      /\ r.failed \/ Covers(r, flight[r.dev].batch)
  /\ \A r, q \in requests : r.waited /\ q.waited /\ r.dev = q.dev => r = q

SnapshotOK ==
  /\ DOMAIN snapshot = Device
  /\ \A d \in Device : snapshot[d] # None =>
       /\ snapshot[d] \in Snapshots
       /\ Told(snapshot[d].ent, snapshot[d].rev, snapshot[d].state)

\* A belief about a conversation is one the server had.
Held(e, revision, state, judged) ==
  /\ revision <= Len(accepted[e])
  /\ state # None => \E n \in 1 .. revision : accepted[e][n].content = state
  /\ judged # None => \E n \in 1 .. Len(accepted[e]) : accepted[e][n].content = judged

BeliefOK ==
  /\ known \in [Device -> [Conversation -> Nat]]
  /\ truth \in [Device -> [Conversation -> Contents \cup {None}]]
  /\ verdict \in [Device -> [Conversation -> Verdicts]]
  /\ \A d \in Device, e \in Conversation :
       Held(e, known[d][e], truth[d][e], verdict[d][e].state)

ClientInv ==
  /\ LocalOK /\ JournalOK /\ FlightOK /\ ReceiptsOK /\ RequestsOK /\ SnapshotOK
  /\ BeliefOK /\ Growing

--------------------------------------------------------------------------------
\* One row of an answer.

Projections == [entries: SUBSET Entries, known: [Conversation -> Nat],
                truth: [Conversation -> Contents \cup {None}], verdict: [Conversation -> Verdicts]]

\* x is what an answer made of y.
Kin(x, y) ==
  /\ x.seq = y.seq /\ x.ent = y.ent /\ x.kind = y.kind
  /\ x.status = y.status \/ x.status = "CONFLICT"

\* What the entries become: the one the row is about is gone or in conflict, the others
\* stay what they were but for their base.
Settles(row, E, F) ==
  /\ F \subseteq Entries
  /\ OneEach(F)
  /\ \A x \in F : \E y \in E : Kin(x, y)
  /\ \A y \in E : y.seq # row.seq => \E x \in F : x.seq = y.seq
  /\ \A x \in F : x.seq = row.seq => x.status = "CONFLICT"
  /\ row.outcome # "ACK" => \E x \in F : x.seq = row.seq

\* What becomes of the beliefs.
Learns(row, e, p, q) ==
  /\ \A c \in Conversation \ {e} :
       q.known[c] = p.known[c] /\ q.truth[c] = p.truth[c] /\ q.verdict[c] = p.verdict[c]
  /\ q.known[e] \in {p.known[e], row.rev} /\ q.known[e] >= p.known[e]
  /\ \/ q.truth[e] = p.truth[e]
     \/ q.truth[e] = row.state /\ row.state # None /\ q.known[e] = row.rev
  /\ q.verdict[e].state \in {p.verdict[e].state, row.state}

LEMMA RebasedSettles ==
  ASSUME NEW E \in SUBSET Entries, OneEach(E), NEW live \in E, NEW row \in Rows,
         live.seq = row.seq, row.outcome = "ACK"
  PROVE  Settles(row, E, Rebased(E, live, row.rev))
<1> DEFINE cond(x) == /\ x.ent = live.ent /\ x.seq > live.seq
                      /\ x.status \in Waiting /\ x.base <= row.rev
           g(x) == IF cond(x) THEN [x EXCEPT !.base = row.rev] ELSE x
           F == Rebased(E, live, row.rev)
<1>1. F = {g(x) : x \in E \ {live}}
  BY DEF Rebased
<1>2. row.rev \in Nat
  BY DEF Rows
<1>3. \A x \in E : /\ g(x) \in Entries
                   /\ g(x).seq = x.seq /\ g(x).ent = x.ent /\ g(x).kind = x.kind
                   /\ g(x).status = x.status
  <2> SUFFICES ASSUME NEW x \in E
               PROVE  /\ g(x) \in Entries
                      /\ g(x).seq = x.seq /\ g(x).ent = x.ent /\ g(x).kind = x.kind
                      /\ g(x).status = x.status
    OBVIOUS
  <2>1. x \in Entries
    OBVIOUS
  <2>2. /\ [x EXCEPT !.base = row.rev] \in Entries
        /\ [x EXCEPT !.base = row.rev].seq = x.seq
        /\ [x EXCEPT !.base = row.rev].ent = x.ent
        /\ [x EXCEPT !.base = row.rev].kind = x.kind
        /\ [x EXCEPT !.base = row.rev].status = x.status
    BY <1>2, <2>1 DEF Entries
  <2> HIDE DEF cond
  <2> QED BY <2>1, <2>2
<1> HIDE DEF F, g
<1>4. \A x \in F : \E y \in E \ {live} : x = g(y)
  BY <1>1
<1>5. \A y \in E : y # live => y.seq # row.seq
  BY DEF OneEach
<1>6. OneEach(F)
  BY <1>3, <1>4 DEF OneEach
<1>7. \A y \in E : y.seq # row.seq => \E x \in F : x.seq = y.seq
  BY <1>1, <1>3
<1>8. F \subseteq Entries
  BY <1>3, <1>4
<1> QED BY <1>3, <1>4, <1>5, <1>6, <1>7, <1>8 DEF Settles, Kin, F

LEMMA ConflictSettles ==
  ASSUME NEW E \in SUBSET Entries, OneEach(E), NEW live \in E, NEW row, live.seq = row.seq
  PROVE  Settles(row, E, (E \ {live}) \cup {[live EXCEPT !.status = "CONFLICT"]})
<1> DEFINE c == [live EXCEPT !.status = "CONFLICT"]
<1>1. /\ c \in Entries
      /\ c.seq = live.seq /\ c.ent = live.ent /\ c.kind = live.kind /\ c.status = "CONFLICT"
  BY DEF Entries, Statuses
<1>2. \A y \in E \ {live} : y.seq # row.seq
  BY DEF OneEach
<1> HIDE DEF c
<1>3. OneEach((E \ {live}) \cup {c})
  BY <1>1, <1>2 DEF OneEach
<1> QED BY <1>1, <1>2, <1>3 DEF Settles, Kin, c

LEMMA LiveIs ==
  ASSUME NEW E, OneEach(E), NEW x \in E
  PROVE  Live(E, x.seq) = x
BY DEF Live, OneEach

LEMMA AcknowledgeRow ==
  ASSUME NEW p \in Projections, OneEach(p.entries), NEW live \in p.entries, NEW row \in Rows,
         live.seq = row.seq, row.outcome = "ACK", row.rev >= p.known[live.ent]
  PROVE  /\ Acknowledge(p, live, row) \in Projections
         /\ Settles(row, p.entries, Acknowledge(p, live, row).entries)
         /\ Learns(row, live.ent, p, Acknowledge(p, live, row))
<1> DEFINE e == live.ent
           q == Acknowledge(p, live, row)
           stale == StaleDelivery(p, live, row)
<1>1. /\ p.entries \in SUBSET Entries /\ live \in Entries
      /\ p.known \in [Conversation -> Nat]
      /\ p.truth \in [Conversation -> Contents \cup {None}]
      /\ p.verdict \in [Conversation -> Verdicts]
  BY DEF Projections
<1>2. e \in Conversation
  BY <1>1 DEF Entries
<1>3. row.rev \in Nat /\ row.state \in Contents \cup {None}
  BY DEF Rows
<1>4. /\ q.entries = Rebased(p.entries, live, row.rev)
      /\ q.known = [p.known EXCEPT ![e] = row.rev]
      /\ q.truth = IF row.state # None /\ ~stale THEN [p.truth EXCEPT ![e] = row.state] ELSE p.truth
      /\ q.verdict = IF ~stale THEN [p.verdict EXCEPT ![e] = [fences |-> FALSE, state |-> row.state]]
                     ELSE p.verdict
      /\ q = [entries |-> q.entries, known |-> q.known, truth |-> q.truth, verdict |-> q.verdict]
  BY DEF Acknowledge
<1>5. Settles(row, p.entries, q.entries)
  BY <1>1, <1>4, RebasedSettles
<1>6. q.entries \in SUBSET Entries
  BY <1>5 DEF Settles
<1>7. [fences |-> FALSE, state |-> row.state] \in Verdicts
  BY <1>3 DEF Verdicts
<1> HIDE DEF q, stale, e
<1>8. /\ q.known \in [Conversation -> Nat]
      /\ q.truth \in [Conversation -> Contents \cup {None}]
      /\ q.verdict \in [Conversation -> Verdicts]
  BY <1>1, <1>3, <1>4, <1>7
<1>9. q \in Projections
  BY <1>4, <1>6, <1>8 DEF Projections
<1>10. \A c \in Conversation \ {e} :
         q.known[c] = p.known[c] /\ q.truth[c] = p.truth[c] /\ q.verdict[c] = p.verdict[c]
  BY <1>1, <1>4
<1>11. q.known[e] = row.rev /\ row.rev >= p.known[e]
  BY <1>1, <1>2, <1>4 DEF e
<1>12. q.truth[e] = p.truth[e] \/ (q.truth[e] = row.state /\ row.state # None)
  BY <1>1, <1>2, <1>4
<1>13. q.verdict[e].state \in {p.verdict[e].state, row.state}
  BY <1>1, <1>2, <1>4
<1>14. Learns(row, e, p, q)
  BY <1>10, <1>11, <1>12, <1>13 DEF Learns
<1> QED BY <1>5, <1>9, <1>14 DEF q, e

LEMMA ConflictRow ==
  ASSUME NEW p \in Projections, OneEach(p.entries), NEW live \in p.entries, NEW row \in Rows,
         live.seq = row.seq
  PROVE  /\ Conflict(p, live, row) \in Projections
         /\ Settles(row, p.entries, Conflict(p, live, row).entries)
         /\ Learns(row, live.ent, p, Conflict(p, live, row))
<1> DEFINE e == live.ent
           q == Conflict(p, live, row)
<1>1. /\ p.entries \in SUBSET Entries /\ live \in Entries
      /\ p.known \in [Conversation -> Nat]
      /\ p.truth \in [Conversation -> Contents \cup {None}]
      /\ p.verdict \in [Conversation -> Verdicts]
      /\ p = [entries |-> p.entries, known |-> p.known, truth |-> p.truth, verdict |-> p.verdict]
  BY DEF Projections
<1>2. e \in Conversation
  BY <1>1 DEF Entries
<1>3. row.state \in Contents \cup {None}
  BY DEF Rows
<1>4. /\ q.entries = (p.entries \ {live}) \cup {[live EXCEPT !.status = "CONFLICT"]}
      /\ q.known = p.known
      /\ q.truth = p.truth
      /\ q.verdict = [p.verdict EXCEPT ![e] = [fences |-> TRUE, state |-> row.state]]
      /\ q = [entries |-> q.entries, known |-> q.known, truth |-> q.truth, verdict |-> q.verdict]
  <2> DEFINE F == (p.entries \ {live}) \cup {[live EXCEPT !.status = "CONFLICT"]}
             v == [p.verdict EXCEPT ![e] = [fences |-> TRUE, state |-> row.state]]
  <2>1. q = [p EXCEPT !.entries = F, !.verdict = v]
    BY DEF Conflict
  <2> HIDE DEF F, v, q
  <2>2. q = [entries |-> F, known |-> p.known, truth |-> p.truth, verdict |-> v]
    BY <2>1 DEF Projections
  <2> QED BY <2>2 DEF F, v
<1>5. Settles(row, p.entries, q.entries)
  BY <1>1, <1>4, ConflictSettles
<1>6. q.entries \in SUBSET Entries
  BY <1>5 DEF Settles
<1>7. [fences |-> TRUE, state |-> row.state] \in Verdicts
  BY <1>3 DEF Verdicts
<1> HIDE DEF q, e
<1>8. q \in Projections
  BY <1>1, <1>4, <1>6, <1>7 DEF Projections
<1>9. p.known[e] >= p.known[e]
  BY <1>1, <1>2
<1>10. Learns(row, e, p, q)
  BY <1>1, <1>2, <1>4, <1>9 DEF Learns
<1> QED BY <1>5, <1>8, <1>10 DEF q, e

LEMMA OutdatedRow ==
  ASSUME NEW p \in Projections, OneEach(p.entries), NEW live \in p.entries, NEW row \in Rows,
         live.seq = row.seq
  PROVE  /\ Outdated(p, live) \in Projections
         /\ Settles(row, p.entries, Outdated(p, live).entries)
         /\ Learns(row, live.ent, p, Outdated(p, live))
<1> DEFINE e == live.ent
           q == Outdated(p, live)
<1>1. /\ p.entries \in SUBSET Entries /\ live \in Entries
      /\ p.known \in [Conversation -> Nat]
      /\ p = [entries |-> p.entries, known |-> p.known, truth |-> p.truth, verdict |-> p.verdict]
  BY DEF Projections
<1>2. e \in Conversation
  BY <1>1 DEF Entries
<1>3. /\ q.entries = (p.entries \ {live}) \cup {[live EXCEPT !.status = "CONFLICT"]}
      /\ q.known = p.known /\ q.truth = p.truth /\ q.verdict = p.verdict
      /\ q = [entries |-> q.entries, known |-> p.known, truth |-> p.truth, verdict |-> p.verdict]
  BY <1>1 DEF Outdated
<1>4. Settles(row, p.entries, q.entries)
  BY <1>1, <1>3, ConflictSettles
<1>5. q.entries \in SUBSET Entries
  BY <1>4 DEF Settles
<1> HIDE DEF q, e
<1>6. q \in Projections
  BY <1>1, <1>3, <1>5 DEF Projections
<1>7. p.known[e] >= p.known[e]
  BY <1>1, <1>2
<1>8. Learns(row, e, p, q)
  BY <1>3, <1>7 DEF Learns
<1> QED BY <1>4, <1>6, <1>8 DEF q, e

LEMMA RowApplied ==
  ASSUME NEW p \in Projections, OneEach(p.entries), NEW live \in p.entries, NEW row \in Rows,
         live.seq = row.seq
  PROVE  /\ ApplyRow(row, p) \in Projections
         /\ Settles(row, p.entries, ApplyRow(row, p).entries)
         /\ Learns(row, live.ent, p, ApplyRow(row, p))
<1>1. Live(p.entries, row.seq) = live
  BY LiveIs
<1>2. ApplyRow(row, p) = IF row.rev < p.known[live.ent] THEN Outdated(p, live)
                         ELSE IF row.outcome = "ACK" THEN Acknowledge(p, live, row)
                         ELSE Conflict(p, live, row)
  BY <1>1 DEF ApplyRow
<1>3. ~ (row.rev < p.known[live.ent]) => row.rev >= p.known[live.ent]
  BY DEF Projections, Rows, Entries
<1> QED BY <1>2, <1>3, OutdatedRow, AcknowledgeRow, ConflictRow

--------------------------------------------------------------------------------
\* All rows of an answer.

\* What an installation believes only moves forward.
Forward(p, q, e) ==
  /\ q.known[e] >= p.known[e]
  /\ q.truth[e] # p.truth[e] /\ p.truth[e] # None =>
       q.truth[e] # None /\ q.truth[e].rev > p.truth[e].rev

HeldBy(p) == \A e \in Conversation : Held(e, p.known[e], p.truth[e], p.verdict[e].state)

LEMMA ToldIs ==
  ASSUME NEW e, NEW rev \in Nat, NEW state, Told(e, rev, state), state # None
  PROVE  rev \in 1 .. Len(accepted[e]) /\ accepted[e][rev].content = state
BY DEF Told

\* What is told at a revision that is not behind replaces only what is older.
LEMMA ToldForward ==
  ASSUME Inv, Growing, NEW e \in Conversation, NEW known0 \in Nat, NEW truth0, truth0 # None,
         NEW judged, Held(e, known0, truth0, judged),
         NEW rev \in Nat, NEW state, Told(e, rev, state), rev >= known0
  PROVE  state # None /\ (state # truth0 => state.rev > truth0.rev)
<1>1. PICK n \in 1 .. known0 : accepted[e][n].content = truth0
  BY DEF Held
<1>2. rev >= n /\ rev # 0 /\ n \in Nat
  BY <1>1
<1>3. rev <= Len(accepted[e]) /\ state = accepted[e][rev].content
  BY <1>2 DEF Told
<1>4. Len(accepted[e]) \in Nat /\ accepted[e] \in Seq(Receipted)
  BY EntityFacts
<1>5. rev \in 1 .. Len(accepted[e])
  BY <1>2, <1>3, <1>4
<1>6. state # None
  <2>1. accepted[e][rev] \in Receipted
    BY <1>4, <1>5
  <2>2. state \in Contents
    BY <1>3, <2>1 DEF Inv, Receipted, Wires
  <2> QED BY <2>2, NoBindingIsNone
<1>7. n # rev => n \in 1 .. rev - 1
  BY <1>1, <1>2
<1>8. n # rev => truth0.rev < state.rev
  BY <1>1, <1>3, <1>5, <1>7 DEF Growing
<1>9. ASSUME n # rev PROVE state.rev > truth0.rev
  <2>1. state.rev \in Nat /\ truth0.rev \in Nat
    <3>1. n \in 1 .. Len(accepted[e])
      BY <1>1, <1>2, <1>3, <1>4
    <3>2. accepted[e][rev] \in Receipted /\ accepted[e][n] \in Receipted
      BY <1>4, <1>5, <3>1
    <3>3. state \in Contents /\ truth0 \in Contents
      BY <1>1, <1>3, <3>2 DEF Inv, Receipted, Wires
    <3> QED BY <3>3 DEF Contents
  <2> QED BY <1>8, <1>9, <2>1
<1> QED BY <1>1, <1>3, <1>6, <1>9

LEMMA LearnsForward ==
  ASSUME Inv, Growing, NEW p \in Projections, NEW q \in Projections, HeldBy(p),
         NEW e \in Conversation, NEW row \in Rows, Told(e, row.rev, row.state),
         Learns(row, e, p, q)
  PROVE  HeldBy(q) /\ \A c \in Conversation : Forward(p, q, c)
<1>1. /\ \A c \in Conversation : p.known[c] \in Nat /\ q.known[c] \in Nat
      /\ row.rev \in Nat /\ Len(accepted[e]) \in Nat
  BY EntityFacts DEF Projections, Rows
<1>2. ASSUME NEW c \in Conversation \ {e}
      PROVE  Held(c, q.known[c], q.truth[c], q.verdict[c].state) /\ Forward(p, q, c)
  <2>1. q.known[c] = p.known[c] /\ q.truth[c] = p.truth[c] /\ q.verdict[c] = p.verdict[c]
    BY DEF Learns
  <2>2. q.known[c] >= p.known[c]
    BY <1>1, <2>1
  <2> QED BY <2>1, <2>2 DEF HeldBy, Forward
<1>3. Held(e, q.known[e], q.truth[e], q.verdict[e].state)
  <2>1. q.known[e] <= Len(accepted[e])
    BY DEF Learns, Told, HeldBy, Held
  <2>2. ASSUME q.truth[e] # None
        PROVE  \E n \in 1 .. q.known[e] : accepted[e][n].content = q.truth[e]
    <3>1. CASE q.truth[e] = p.truth[e]
      <4>1. PICK n \in 1 .. p.known[e] : accepted[e][n].content = p.truth[e]
        BY <2>2, <3>1 DEF HeldBy, Held
      <4>2. n \in 1 .. q.known[e]
        BY <1>1 DEF Learns
      <4> QED BY <3>1, <4>1, <4>2
    <3>2. CASE q.truth[e] = row.state /\ row.state # None /\ q.known[e] = row.rev
      <4>1. row.rev \in 1 .. Len(accepted[e]) /\ accepted[e][row.rev].content = row.state
        BY <1>1, <3>2, ToldIs
      <4>2. row.rev \in 1 .. q.known[e]
        BY <1>1, <3>2, <4>1
      <4> QED BY <3>2, <4>1, <4>2
    <3> QED BY <3>1, <3>2 DEF Learns
  <2>3. ASSUME q.verdict[e].state # None
        PROVE  \E n \in 1 .. Len(accepted[e]) : accepted[e][n].content = q.verdict[e].state
    <3>1. CASE q.verdict[e].state = p.verdict[e].state
      BY <2>3, <3>1 DEF HeldBy, Held
    <3>2. CASE q.verdict[e].state = row.state
      BY <1>1, <2>3, <3>2, ToldIs
    <3> QED BY <3>1, <3>2 DEF Learns
  <2> QED BY <2>1, <2>2, <2>3 DEF Held
<1>4. Forward(p, q, e)
  <2>1. q.known[e] >= p.known[e]
    BY DEF Learns
  <2>2. ASSUME q.truth[e] # p.truth[e], p.truth[e] # None
        PROVE  q.truth[e] # None /\ q.truth[e].rev > p.truth[e].rev
    <3>1. q.truth[e] = row.state /\ row.rev >= p.known[e]
      BY <2>1, <2>2 DEF Learns
    <3>2. Held(e, p.known[e], p.truth[e], p.verdict[e].state)
      BY DEF HeldBy
    <3>3. row.state # None /\ (row.state # p.truth[e] => row.state.rev > p.truth[e].rev)
      BY <1>1, <2>2, <3>1, <3>2, ToldForward
    <3> QED BY <2>2, <3>1, <3>3
  <2> QED BY <2>1, <2>2 DEF Forward
<1> QED BY <1>2, <1>3, <1>4 DEF HeldBy

LEMMA ForwardOn ==
  ASSUME NEW p \in Projections, NEW q \in Projections, NEW s \in Projections,
         NEW e \in Conversation, Forward(p, q, e), Forward(q, s, e)
  PROVE  Forward(p, s, e)
<1>1. /\ p.known[e] \in Nat /\ q.known[e] \in Nat /\ s.known[e] \in Nat
      /\ p.truth[e] \in Contents \cup {None} /\ q.truth[e] \in Contents \cup {None}
      /\ s.truth[e] \in Contents \cup {None}
  BY DEF Projections
<1>2. \A c \in Contents : c.rev \in Nat
  BY DEF Contents
<1> QED BY <1>1, <1>2 DEF Forward

\* What the entries are after the first k rows.
Sofar(rows, k, E, F) ==
  /\ F \subseteq Entries /\ OneEach(F)
  /\ \A x \in F : \E y \in E : Kin(x, y)
  /\ \A j \in 1 .. k : \A x \in F : x.seq = rows[j].seq => x.status = "CONFLICT"
  /\ \A j \in k + 1 .. Len(rows) : \E x \in F : x.seq = rows[j].seq
  /\ \A y \in E : \/ \E x \in F : x.seq = y.seq
                  \/ \E j \in 1 .. k : rows[j].seq = y.seq /\ rows[j].outcome = "ACK"

LEMMA SofarNext ==
  ASSUME NEW rows, Len(rows) \in Nat, NEW k \in 0 .. Len(rows) - 1, NEW E, NEW F, NEW G,
         \A i, j \in 1 .. Len(rows) : rows[i].seq = rows[j].seq => i = j,
         \A i \in 1 .. Len(rows) : rows[i].outcome \in {"ACK", "CONFLICT"},
         Sofar(rows, k, E, F), Settles(rows[k + 1], F, G)
  PROVE  Sofar(rows, k + 1, E, G)
<1>1. k + 1 \in 1 .. Len(rows) /\ k \in Nat
  OBVIOUS
<1>2. \A x \in G : \E y \in E : Kin(x, y)
  BY DEF Sofar, Settles, Kin
<1>3. ASSUME NEW j \in 1 .. k + 1, NEW x \in G, x.seq = rows[j].seq PROVE x.status = "CONFLICT"
  <2>1. CASE j = k + 1
    BY <1>3, <2>1 DEF Settles
  <2>2. CASE j # k + 1
    <3>1. j \in 1 .. k
      BY <1>1, <2>2
    <3>2. PICK y \in F : Kin(x, y)
      BY DEF Settles
    <3> QED BY <1>3, <3>1, <3>2 DEF Sofar, Kin
  <2> QED BY <2>1, <2>2
<1>4. ASSUME NEW j \in k + 2 .. Len(rows) PROVE \E x \in G : x.seq = rows[j].seq
  <2>1. j \in k + 1 .. Len(rows) /\ j \in 1 .. Len(rows) /\ j # k + 1
    BY <1>1
  <2>2. PICK y \in F : y.seq = rows[j].seq
    BY <2>1 DEF Sofar
  <2>3. y.seq # rows[k + 1].seq
    BY <1>1, <2>1, <2>2
  <2> QED BY <2>2, <2>3 DEF Settles
<1>5. ASSUME NEW y \in E
      PROVE  \/ \E x \in G : x.seq = y.seq
             \/ \E j \in 1 .. k + 1 : rows[j].seq = y.seq /\ rows[j].outcome = "ACK"
  <2>1. CASE \E j \in 1 .. k : rows[j].seq = y.seq /\ rows[j].outcome = "ACK"
    <3>1. \A j \in 1 .. k : j \in 1 .. k + 1
      BY <1>1
    <3> QED BY <2>1, <3>1
  <2>2. CASE \E x \in F : x.seq = y.seq
    <3>1. PICK x \in F : x.seq = y.seq
      BY <2>2
    <3>2. CASE x.seq # rows[k + 1].seq
      BY <3>1, <3>2 DEF Settles
    <3>3. CASE x.seq = rows[k + 1].seq
      <4>1. k + 1 \in 1 .. k + 1
        BY <1>1
      <4> QED BY <1>1, <3>1, <3>3, <4>1 DEF Settles
    <3> QED BY <3>2, <3>3
  <2> QED BY <2>1, <2>2 DEF Sofar
<1>6. k + 1 + 1 = k + 2
  BY <1>1
<1> QED BY <1>2, <1>3, <1>4, <1>5, <1>6 DEF Sofar, Settles

\* What a whole answer makes of a projection.
Taken(S, p, q) ==
  /\ q \in Projections
  /\ HeldBy(q)
  /\ \A e \in Conversation : Forward(p, q, e)
  /\ OneEach(q.entries)
  /\ \A x \in q.entries : \E y \in p.entries : Kin(x, y)
  /\ \A row \in S : \A x \in q.entries : x.seq = row.seq => x.status = "CONFLICT"
  /\ \A y \in p.entries : \/ \E x \in q.entries : x.seq = y.seq
                          \/ \E row \in S : row.seq = y.seq /\ row.outcome = "ACK"

LEMMA AnswerApplied ==
  ASSUME Inv, Growing, NEW p \in Projections, HeldBy(p), OneEach(p.entries),
         NEW S \in SUBSET Rows, IsFiniteSet(S), OneEach(S),
         \A row \in S : \E x \in p.entries : x.seq = row.seq /\ Told(x.ent, row.rev, row.state)
  PROVE  Taken(S, p, Applied(InOrder(S), p))
<1> DEFINE rows == InOrder(S)
           N == Len(rows)
<1>1. Ordered(S)
  BY DEF Ordered, OneEach, Rows
<1>2. /\ N \in Nat
      /\ \A i \in 1 .. N : rows[i] \in S
      /\ \A i, j \in 1 .. N : rows[i] = rows[j] => i = j
      /\ \A x \in S : \E i \in 1 .. N : rows[i] = x
  BY <1>1, InOrderLists
<1>3. PICK after : /\ DOMAIN after = 0 .. N
                   /\ after[0] = p
                   /\ \A n \in 1 .. N : after[n] = ApplyRow(rows[n], after[n - 1])
                   /\ Applied(rows, p) = after[N]
  <2> HIDE DEF rows
  <2> QED BY <1>2, AppliedStepwise
<1>4. \A i, j \in 1 .. N : rows[i].seq = rows[j].seq => i = j
  BY <1>2 DEF OneEach
<1>5. \A i \in 1 .. N : rows[i].outcome \in {"ACK", "CONFLICT"} /\ rows[i] \in Rows
  BY <1>2 DEF Rows
<1> HIDE DEF rows
<1> DEFINE Good(k) == /\ after[k] \in Projections
                      /\ HeldBy(after[k])
                      /\ \A e \in Conversation : Forward(p, after[k], e)
                      /\ Sofar(rows, k, p.entries, after[k].entries)
           Q == {k \in 0 .. N : Good(k)}
<1>6. 0 \in Q
  <2>1. \A e \in Conversation : Forward(p, p, e)
    BY DEF Forward, Projections
  <2>2. Sofar(rows, 0, p.entries, p.entries)
    <3>1. \A x \in p.entries : Kin(x, x)
      BY DEF Kin
    <3>2. \A j \in 0 + 1 .. N : \E x \in p.entries : x.seq = rows[j].seq
      BY <1>2
    <3>3. p.entries \subseteq Entries
      BY DEF Projections
    <3> QED BY <3>1, <3>2, <3>3 DEF Sofar
  <2>3. Good(0)
    BY <1>3, <2>1, <2>2
  <2> HIDE DEF Good
  <2> QED BY <1>2, <2>3
<1>7. ASSUME NEW k \in 0 .. N - 1, k \in Q PROVE k + 1 \in Q
  <2>1. Good(k)
    BY <1>7
  <2> DEFINE row == rows[k + 1]
  <2>2. k + 1 \in 1 .. N /\ k + 1 \in 0 .. N /\ k \in Nat /\ k + 1 \in k + 1 .. N
    BY <1>2
  <2>3. after[k + 1] = ApplyRow(row, after[k])
    <3>1. (k + 1) - 1 = k
      BY <2>2
    <3> QED BY <1>3, <2>2, <3>1
  <2>4. row \in S /\ row \in Rows
    BY <1>2, <1>5, <2>2
  <2> HIDE DEF row
  <2>5. PICK live \in after[k].entries : live.seq = row.seq
    BY <2>1, <2>2 DEF Sofar, row
  <2>6. OneEach(after[k].entries)
    BY <2>1 DEF Sofar
  <2>7. /\ after[k + 1] \in Projections
        /\ Settles(row, after[k].entries, after[k + 1].entries)
        /\ Learns(row, live.ent, after[k], after[k + 1])
    BY <2>1, <2>3, <2>4, <2>5, <2>6, RowApplied
  <2>8. live.ent \in Conversation
    BY <2>1, <2>5 DEF Projections, Entries
  <2>9. Told(live.ent, row.rev, row.state)
    <3>1. PICK y \in p.entries : Kin(live, y)
      BY <2>1, <2>5 DEF Sofar
    <3>2. PICK x \in p.entries : x.seq = row.seq /\ Told(x.ent, row.rev, row.state)
      BY <2>4
    <3>3. x = y
      BY <2>5, <3>1, <3>2 DEF OneEach, Kin
    <3> QED BY <3>1, <3>2, <3>3 DEF Kin
  <2>10. HeldBy(after[k + 1]) /\ \A e \in Conversation : Forward(after[k], after[k + 1], e)
    BY <2>1, <2>4, <2>7, <2>8, <2>9, LearnsForward
  <2>11. \A e \in Conversation : Forward(p, after[k + 1], e)
    BY <2>1, <2>7, <2>10, ForwardOn
  <2>12. Sofar(rows, k + 1, p.entries, after[k + 1].entries)
    BY <1>2, <1>4, <1>5, <2>1, <2>7, SofarNext DEF row
  <2>13. Good(k + 1)
    BY <2>7, <2>10, <2>11, <2>12
  <2> HIDE DEF Good
  <2> QED BY <2>2, <2>13
<1>8. Good(N)
  <2>1. \A k \in 0 .. N : k \in Q
    <3> HIDE DEF Q
    <3> QED BY <1>2, <1>6, <1>7, Upwards
  <2> HIDE DEF Good
  <2> QED BY <1>2, <2>1
<1> DEFINE q == after[N]
<1>9. Sofar(rows, N, p.entries, q.entries)
  BY <1>8
<1>10. \A row \in S : \A x \in q.entries : x.seq = row.seq => x.status = "CONFLICT"
  BY <1>2, <1>9 DEF Sofar
<1>11. \A y \in p.entries : \/ \E x \in q.entries : x.seq = y.seq
                            \/ \E row \in S : row.seq = y.seq /\ row.outcome = "ACK"
  BY <1>2, <1>9 DEF Sofar
<1>12. Taken(S, p, q)
  BY <1>8, <1>9, <1>10, <1>11 DEF Taken, Sofar
<1> QED BY <1>3, <1>12 DEF rows

--------------------------------------------------------------------------------
\* The journal.

LEMMA Fewer ==
  ASSUME NEW E, IsFiniteSet(E), NEW F, OneEach(F), \A x \in F : \E y \in E : x.seq = y.seq
  PROVE  IsFiniteSet(F) /\ Cardinality(F) <= Cardinality(E)
<1> DEFINE f == [x \in F |-> CHOOSE y \in E : x.seq = y.seq]
<1>1. \A x \in F : f[x] \in E /\ f[x].seq = x.seq
  OBVIOUS
<1>2. f \in [F -> E]
  BY <1>1
<1>3. \A x, y \in F : f[x] = f[y] => x = y
  <2> HIDE DEF f
  <2> QED BY <1>1 DEF OneEach
<1>4. f \in Injection(F, E)
  <2> HIDE DEF f
  <2> QED BY <1>2, <1>3 DEF Injection, IsInjective
<1> HIDE DEF f
<1> QED BY <1>4, FS_Injection

\* F is E with other statuses, or with entries missing.
Stems(F, E) ==
  /\ F \subseteq Entries
  /\ OneEach(F)
  /\ \A x \in F : \E y \in E : x.seq = y.seq /\ x.ent = y.ent /\ x.kind = y.kind

LEMMA JournalRewritten ==
  ASSUME JournalOK, NEW d \in Device, NEW F, Stems(F, journal[d]),
         journal' = [journal EXCEPT ![d] = F], recorded' = recorded
  PROVE  JournalOK'
<1>1. IsFiniteSet(F) /\ Cardinality(F) <= Cardinality(journal[d])
  BY Fewer DEF JournalOK, Stems
<1>2. Cardinality(F) <= MaxEntries
  <2>1. Cardinality(F) \in Nat /\ Cardinality(journal[d]) \in Nat
    BY <1>1, FS_CardinalityType DEF JournalOK
  <2> QED BY <1>1, <2>1, JournalBounds DEF JournalOK
<1>3. \A x \in F : Matches(d, x)
  BY DEF JournalOK, Stems, Matches
<1>4. journal'[d] = F /\ \A c \in Device : c # d => journal'[c] = journal[c]
  BY DEF JournalOK
<1>5. journal' \in [Device -> SUBSET Entries]
  BY DEF JournalOK, Stems
<1>6. \A c \in Device : /\ IsFiniteSet(journal'[c])
                        /\ Cardinality(journal'[c]) <= MaxEntries
                        /\ OneEach(journal'[c])
                        /\ \A x \in journal'[c] : Matches(c, x)'
  BY <1>1, <1>2, <1>3, <1>4 DEF JournalOK, Stems, Matches
<1>7. (\A c \in Device : OneEach(journal[c]))'
  BY <1>6 DEF OneEach
<1> QED BY <1>5, <1>6, <1>7 DEF JournalOK

\* A write that marks a batch, and one that recovers from a stopped worker.
LEMMA MarkedStems ==
  ASSUME NEW E \in SUBSET Entries, OneEach(E), NEW batch, NEW status \in Statuses
  PROVE  /\ Stems(Marked(E, batch, status), E)
         /\ \A x \in Marked(E, batch, status) :
              \E y \in E : /\ x.seq = y.seq
                           /\ x.status = IF \E b \in batch : b.seq = y.seq THEN status ELSE y.status
         /\ \A y \in E : \E x \in Marked(E, batch, status) : x.seq = y.seq
<1> DEFINE in(x) == \E b \in batch : b.seq = x.seq
           g(x) == IF in(x) THEN [x EXCEPT !.status = status] ELSE x
           F == Marked(E, batch, status)
<1>1. F = {g(x) : x \in E}
  BY DEF Marked
<1>2. \A x \in E : /\ g(x) \in Entries
                   /\ g(x).seq = x.seq /\ g(x).ent = x.ent /\ g(x).kind = x.kind
                   /\ g(x).status = IF in(x) THEN status ELSE x.status
  <2> SUFFICES ASSUME NEW x \in E
               PROVE  /\ g(x) \in Entries
                      /\ g(x).seq = x.seq /\ g(x).ent = x.ent /\ g(x).kind = x.kind
                      /\ g(x).status = IF in(x) THEN status ELSE x.status
    OBVIOUS
  <2>1. x \in Entries
    OBVIOUS
  <2>2. /\ [x EXCEPT !.status = status] \in Entries
        /\ [x EXCEPT !.status = status].seq = x.seq
        /\ [x EXCEPT !.status = status].ent = x.ent
        /\ [x EXCEPT !.status = status].kind = x.kind
        /\ [x EXCEPT !.status = status].status = status
    BY <2>1 DEF Entries
  <2> HIDE DEF in
  <2> QED BY <2>1, <2>2
<1> HIDE DEF F, g
<1>3. /\ \A x \in F : \E y \in E : x = g(y)
      /\ \A y \in E : g(y) \in F
  BY <1>1
<1>4. Stems(F, E)
  BY <1>2, <1>3 DEF Stems, OneEach
<1>5. \A x \in F : \E y \in E : /\ x.seq = y.seq
                                /\ x.status = IF in(y) THEN status ELSE y.status
  <2> HIDE DEF in
  <2> QED BY <1>2, <1>3
<1>6. \A y \in E : \E x \in F : x.seq = y.seq
  BY <1>2, <1>3
<1> QED BY <1>4, <1>5, <1>6 DEF F

LEMMA RecoveredStems ==
  ASSUME NEW E \in SUBSET Entries, OneEach(E)
  PROVE  /\ Stems(Recovered(E), E)
         /\ \A x \in Recovered(E) : x.status # "IN_FLIGHT"
         /\ \A y \in E : \E x \in Recovered(E) : x.seq = y.seq
<1> DEFINE g(x) == IF x.status = "IN_FLIGHT" THEN [x EXCEPT !.status = "RETRY_WAIT"] ELSE x
           F == Recovered(E)
<1>1. F = {g(x) : x \in E}
  BY DEF Recovered
<1>2. \A x \in E : /\ g(x) \in Entries
                   /\ g(x).seq = x.seq /\ g(x).ent = x.ent /\ g(x).kind = x.kind
                   /\ g(x).status # "IN_FLIGHT"
  <2> SUFFICES ASSUME NEW x \in E
               PROVE  /\ g(x) \in Entries
                      /\ g(x).seq = x.seq /\ g(x).ent = x.ent /\ g(x).kind = x.kind
                      /\ g(x).status # "IN_FLIGHT"
    OBVIOUS
  <2>1. x \in Entries
    OBVIOUS
  <2>2. /\ [x EXCEPT !.status = "RETRY_WAIT"] \in Entries
        /\ [x EXCEPT !.status = "RETRY_WAIT"].seq = x.seq
        /\ [x EXCEPT !.status = "RETRY_WAIT"].ent = x.ent
        /\ [x EXCEPT !.status = "RETRY_WAIT"].kind = x.kind
        /\ [x EXCEPT !.status = "RETRY_WAIT"].status = "RETRY_WAIT"
    BY <2>1 DEF Entries, Statuses, Waiting
  <2> QED BY <2>1, <2>2
<1> HIDE DEF F, g
<1>3. /\ \A x \in F : \E y \in E : x = g(y)
      /\ \A y \in E : g(y) \in F
  BY <1>1
<1>4. Stems(F, E)
  BY <1>2, <1>3 DEF Stems, OneEach
<1>5. (\A x \in F : x.status # "IN_FLIGHT") /\ \A y \in E : \E x \in F : x.seq = y.seq
  BY <1>2, <1>3
<1> QED BY <1>4, <1>5 DEF F

--------------------------------------------------------------------------------
\* Recording.

LEMMA MatchesStay ==
  ASSUME JournalOK, NEW d \in Device, NEW x \in Entries,
         recorded' = [recorded EXCEPT ![d] = Append(@, x)]
  PROVE  /\ recorded' \in [Device -> Seq(Entries)]
         /\ Len(recorded'[d]) = Len(recorded[d]) + 1
         /\ recorded'[d][Len(recorded[d]) + 1] = x
         /\ \A c \in Device : \A y : Matches(c, y) => Matches(c, y)'
<1>1. \A c \in Device : recorded[c] \in Seq(Entries) /\ Len(recorded[c]) \in Nat
  BY DEF JournalOK
<1>2. recorded'[d] = Append(recorded[d], x) /\ \A c \in Device : c # d => recorded'[c] = recorded[c]
  BY DEF JournalOK
<1>3. recorded' \in [Device -> Seq(Entries)]
  BY <1>1 DEF JournalOK
<1>4. /\ Len(recorded'[d]) = Len(recorded[d]) + 1
      /\ recorded'[d][Len(recorded[d]) + 1] = x
      /\ \A n \in 1 .. Len(recorded[d]) : recorded'[d][n] = recorded[d][n]
  BY <1>1, <1>2
<1>5. ASSUME NEW c \in Device, NEW y, Matches(c, y) PROVE Matches(c, y)'
  <2>1. y.seq \in 1 .. Len(recorded'[c]) /\ recorded'[c][y.seq] = recorded[c][y.seq]
    <3>1. CASE c = d
      BY <1>1, <1>4, <1>5, <3>1 DEF Matches
    <3>2. CASE c # d
      BY <1>2, <1>5, <3>2 DEF Matches
    <3> QED BY <3>1, <3>2
  <2> QED BY <1>5, <2>1 DEF Matches
<1> QED BY <1>3, <1>4, <1>5

\* What does not look at the journals is kept while entries are only added.
LEMMA OthersStay ==
  ASSUME ReceiptsOK, RequestsOK, SnapshotOK, Growing,
         UNCHANGED <<memory, backend, requests>>,
         \A c \in Device : \A y : Matches(c, y) => Matches(c, y)'
  PROVE  ReceiptsOK' /\ RequestsOK' /\ SnapshotOK' /\ Growing'
<1>1. ReceiptsOK'
  BY DEF ReceiptsOK, Told, backend
<1>2. RequestsOK'
  <2>1. \A r \in requests : Asked(r)'
    <3> SUFFICES ASSUME NEW r \in requests PROVE Asked(r)'
      OBVIOUS
    <3>1. r.dev \in Device /\ Asked(r)
      BY DEF RequestsOK, Requests
    <3> QED BY <3>1 DEF Asked, backend
  <2> QED BY <2>1 DEF RequestsOK, Covers, memory
<1>3. SnapshotOK'
  BY DEF SnapshotOK, Told, memory, backend
<1>4. Growing'
  BY DEF Growing, backend
<1> QED BY <1>1, <1>2, <1>3, <1>4

LEMMA BeliefsStay ==
  ASSUME BeliefOK, UNCHANGED <<belief, accepted>>
  PROVE  BeliefOK'
BY DEF BeliefOK, Held, belief

LEMMA RecordKeeps ==
  ASSUME ClientInv, NEW d \in Device, NEW e \in Conversation, NEW kind \in Kinds,
         NEW content \in Contents, Record(d, e, kind, content),
         UNCHANGED <<memory, backend, requests>>
  PROVE  /\ JournalOK' /\ FlightOK' /\ ReceiptsOK' /\ RequestsOK' /\ SnapshotOK'
         /\ BeliefOK' /\ Growing'
<1>1. BeliefOK'
  BY BeliefsStay DEF ClientInv, Record, belief, backend
<1>2. CASE UNCHANGED <<journal, recorded>>
  <2>1. \A c \in Device : \A y : Matches(c, y) => Matches(c, y)'
    BY <1>2 DEF Matches
  <2>2. JournalOK'
    BY <1>2 DEF ClientInv, JournalOK, Matches
  <2>3. FlightOK'
    BY <1>2 DEF ClientInv, FlightOK, Matches, memory
  <2> QED BY <1>1, <2>1, <2>2, <2>3, OthersStay DEF ClientInv
<1>3. ASSUME NEW entry, entry = NewEntry(d, e, kind, content),
             NEW next, next = Compacted(journal[d] \cup {entry}, e),
             Cardinality(next) <= MaxEntries,
             journal' = [journal EXCEPT ![d] = next],
             recorded' = [recorded EXCEPT ![d] = Append(@, entry)]
      PROVE  JournalOK' /\ FlightOK' /\ ReceiptsOK' /\ RequestsOK' /\ SnapshotOK' /\ Growing'
  <2>1. /\ recorded[d] \in Seq(Entries) /\ Len(recorded[d]) \in Nat
        /\ journal[d] \in SUBSET Entries /\ IsFiniteSet(journal[d])
        /\ OneEach(journal[d]) /\ \A x \in journal[d] : Matches(d, x)
    BY DEF ClientInv, JournalOK
  <2>2. known[d][e] \in Nat
    BY DEF ClientInv, BeliefOK
  <2>3. entry \in Entries /\ entry.seq = Len(recorded[d]) + 1
        /\ entry.ent = e /\ entry.kind = kind /\ entry.status = "PENDING"
    BY <1>3, <2>1, <2>2 DEF NewEntry, Entries, Statuses, Waiting
  <2>4. next \subseteq journal[d] \cup {entry}
    BY <1>3 DEF Compacted
  <2>5. /\ recorded' \in [Device -> Seq(Entries)]
        /\ Len(recorded'[d]) = Len(recorded[d]) + 1
        /\ recorded'[d][Len(recorded[d]) + 1] = entry
        /\ \A c \in Device : \A y : Matches(c, y) => Matches(c, y)'
    BY <1>3, <2>3, MatchesStay DEF ClientInv
  <2>6. Matches(d, entry)'
    BY <2>1, <2>3, <2>5 DEF Matches
  <2>7. \A x \in next : Matches(d, x)'
    BY <2>1, <2>4, <2>5, <2>6
  <2>8. OneEach(next)
    <3>1. \A x \in journal[d] : x.seq # entry.seq
      BY <2>1, <2>3 DEF Matches
    <3> QED BY <2>1, <2>4, <3>1 DEF OneEach
  <2>9. IsFiniteSet(next)
    <3>1. IsFiniteSet(journal[d] \cup {entry})
      BY <2>1, FS_AddElement
    <3> QED BY <2>4, <3>1, FS_Subset
  <2>10. journal'[d] = next /\ (\A c \in Device : c # d => journal'[c] = journal[c])
         /\ journal' \in [Device -> SUBSET Entries]
    BY <1>3, <2>1, <2>3, <2>4 DEF ClientInv, JournalOK
  <2>11. JournalOK'
    <3>1. ASSUME NEW c \in Device
          PROVE  /\ IsFiniteSet(journal'[c])
                 /\ Cardinality(journal'[c]) <= MaxEntries
                 /\ OneEach(journal'[c])
                 /\ \A x \in journal'[c] : Matches(c, x)'
      <4>1. CASE c = d
        BY <1>3, <2>7, <2>8, <2>9, <2>10, <4>1
      <4>2. CASE c # d
        BY <2>5, <2>10, <4>2 DEF ClientInv, JournalOK
      <4> QED BY <4>1, <4>2
    <3>2. (\A c \in Device : OneEach(journal[c]))'
      BY <3>1 DEF OneEach
    <3> QED BY <2>5, <2>10, <3>1, <3>2 DEF JournalOK
  <2>12. FlightOK'
    <3>1. \A c \in Device : \A x \in journal'[c] : x.status = "IN_FLIGHT" => x \in journal[c]
      BY <2>3, <2>4, <2>10
    <3> QED BY <2>5, <3>1 DEF ClientInv, FlightOK, memory, OneEach
  <2> QED BY <2>5, <2>11, <2>12, OthersStay DEF ClientInv
<1> QED BY <1>1, <1>2, <1>3 DEF Record

LEMMA BindKeeps ==
  ASSUME ClientInv, NEW d \in Device, NEW e \in Conversation, NEW s \in Shop, Bind(d, e, s)
  PROVE  ClientInv'
<1> DEFINE old == binding[d][e]
           new == [rev |-> IF old = None THEN 1 ELSE old.rev + 1,
                   id |-> IF old = None THEN d ELSE old.id, store |-> s, fin |-> FALSE]
<1>1. old \in Contents \cup {None}
  BY DEF ClientInv, LocalOK
<1>2. new \in Contents
  BY <1>1 DEF Contents
<1>3. /\ binding' = [binding EXCEPT ![d][e] = new]
      /\ work' = [work EXCEPT ![d][e] = "on"]
      /\ Record(d, e, "BINDING_UPSERT", new)
      /\ UNCHANGED <<memory, backend, requests>>
  BY DEF Bind
<1> HIDE DEF new
<1>4. LocalOK'
  <2>1. binding' \in [Device -> [Conversation -> Contents \cup {None}]]
        /\ work' \in [Device -> [Conversation -> {"none", "on", "over"}]]
    BY <1>2, <1>3 DEF ClientInv, LocalOK
  <2>2. ASSUME NEW c \in Device, NEW f \in Conversation, work'[c][f] = "on"
        PROVE  binding'[c][f] # None
    <3>1. CASE c = d /\ f = e
      BY <1>2, <1>3, <3>1, NoBindingIsNone DEF ClientInv, LocalOK
    <3>2. CASE ~ (c = d /\ f = e)
      BY <1>3, <2>2, <3>2 DEF ClientInv, LocalOK
    <3> QED BY <3>1, <3>2
  <2> QED BY <2>1, <2>2 DEF LocalOK
<1>5. "BINDING_UPSERT" \in Kinds
  BY DEF Kinds, Explicit
<1> QED BY <1>2, <1>3, <1>4, <1>5, RecordKeeps DEF ClientInv

LEMMA FinishKeeps ==
  ASSUME ClientInv, NEW d \in Device, NEW e \in Conversation, Finish(d, e)
  PROVE  ClientInv'
<1> DEFINE new == [binding[d][e] EXCEPT !.rev = @ + 1, !.fin = TRUE]
<1>1. /\ work[d][e] = "on"
      /\ work' = [work EXCEPT ![d][e] = "over"]
      /\ Record(d, e, "FINISH", new)
      /\ UNCHANGED <<binding, memory, backend, requests>>
  BY DEF Finish
<1>2. binding[d][e] \in Contents
  BY <1>1 DEF ClientInv, LocalOK
<1>3. new \in Contents
  <2>1. \A c \in Contents : [c EXCEPT !.rev = @ + 1, !.fin = TRUE] \in Contents
    <3> SUFFICES ASSUME NEW c \in Contents
                 PROVE  [c EXCEPT !.rev = @ + 1, !.fin = TRUE] \in Contents
      OBVIOUS
    <3>1. PICK n \in Nat : n = c.rev + 1
      BY DEF Contents
    <3>2. [c EXCEPT !.rev = @ + 1, !.fin = TRUE] = [c EXCEPT !.rev = n, !.fin = TRUE]
      BY <3>1
    <3>3. [c EXCEPT !.rev = n, !.fin = TRUE] \in Contents
      BY DEF Contents
    <3> QED BY <3>2, <3>3
  <2> QED BY <1>2, <2>1
<1> HIDE DEF new
<1>4. LocalOK'
  BY <1>1 DEF ClientInv, LocalOK
<1>5. "FINISH" \in Kinds
  BY DEF Kinds, Explicit
<1> QED BY <1>1, <1>3, <1>4, <1>5, RecordKeeps DEF ClientInv

LEMMA DeliverKeeps ==
  ASSUME ClientInv, NEW d \in Device, NEW e \in Conversation, Deliver(d, e)
  PROVE  ClientInv'
<1>1. /\ work[d][e] = "on"
      /\ Record(d, e, "DELIVERY_MARKER", binding[d][e])
      /\ UNCHANGED <<local, memory, backend, requests>>
  BY DEF Deliver
<1>2. binding[d][e] \in Contents
  BY <1>1 DEF ClientInv, LocalOK
<1>3. LocalOK'
  BY <1>1 DEF ClientInv, LocalOK, local
<1>4. "DELIVERY_MARKER" \in Kinds
  BY DEF Kinds
<1> QED BY <1>1, <1>2, <1>3, <1>4, RecordKeeps DEF ClientInv

--------------------------------------------------------------------------------
\* Sending.

LEMMA OldestDue ==
  ASSUME NEW S \in SUBSET Entries, S # {}
  PROVE  Older(S, MaxBatch) # {}
<1> DEFINE numbers == {x.seq : x \in S}
<1>1. numbers \subseteq Nat /\ numbers # {}
  BY DEF Entries
<1>2. PICK n \in numbers : \A m \in numbers : n <= m
  <2> HIDE DEF numbers
  <2> QED BY <1>1, Minimum
<1>3. PICK x \in S : x.seq = n
  BY <1>2
<1>4. Before(S, x) = {}
  <2>1. ASSUME NEW y \in S PROVE ~ (y.seq < x.seq)
    <3>1. y.seq \in numbers
      OBVIOUS
    <3>2. n \in Nat /\ y.seq \in Nat
      BY <1>1
    <3> HIDE DEF numbers
    <3>3. n <= y.seq
      BY <1>2, <3>1
    <3> QED BY <1>3, <3>2, <3>3
  <2> QED BY <2>1 DEF Before
<1>5. Cardinality(Before(S, x)) = 0
  BY <1>4, FS_EmptySet
<1> QED BY <1>5, JournalBounds DEF Older

LEMMA SelectKeeps ==
  ASSUME ClientInv, NEW d \in Device, Select(d)
  PROVE  ClientInv'
<1>1. PICK due \in SUBSET journal[d] :
        due # {} /\ flight' = [flight EXCEPT ![d] = [phase |-> "chosen", batch |-> Older(due, MaxBatch)]]
  BY DEF Select
<1>2. /\ flight[d].phase = "idle"
      /\ UNCHANGED <<local, client, snapshot, backend, requests>>
  BY DEF Select
<1> DEFINE batch == Older(due, MaxBatch)
<1>3. batch \subseteq journal[d] /\ batch # {} /\ journal[d] \in SUBSET Entries
  BY <1>1, OldestDue DEF ClientInv, JournalOK, Older
<1>4. IsFiniteSet(batch) /\ OneEach(batch) /\ \A x \in batch : Matches(d, x)
  BY <1>3, FS_Subset DEF ClientInv, JournalOK, OneEach
<1>5. flight' = [flight EXCEPT ![d] = [phase |-> "chosen", batch |-> batch]]
  BY <1>1
<1> HIDE DEF batch
<1>6. /\ flight'[d].phase = "chosen" /\ flight'[d].batch = batch
      /\ \A c \in Device : c # d => flight'[c] = flight[c]
      /\ flight' \in [Device -> [phase: {"idle", "chosen", "sent"}, batch: SUBSET Entries]]
  BY <1>3, <1>5 DEF ClientInv, FlightOK
<1>7. JournalOK' /\ LocalOK' /\ ReceiptsOK' /\ SnapshotOK' /\ Growing' /\ BeliefOK'
  <2>1. UNCHANGED <<binding, work, journal, recorded, known, truth, verdict, snapshot, server,
                    receipts, active, accepted, requests>>
    BY <1>2 DEF local, client, belief, backend
  <2>2. JournalOK' /\ LocalOK'
    BY <2>1 DEF ClientInv, JournalOK, LocalOK, Matches
  <2>3. ReceiptsOK' /\ SnapshotOK' /\ Growing' /\ BeliefOK'
    BY <2>1 DEF ClientInv, ReceiptsOK, SnapshotOK, Growing, BeliefOK, Held, Told, Matches
  <2> QED BY <2>2, <2>3
<1>8. FlightOK'
  <2>1. journal' = journal /\ recorded' = recorded
    BY <1>2 DEF client
  <2>2. ASSUME NEW c \in Device
        PROVE  /\ flight'[c].phase = "idle" <=> flight'[c].batch = {}
               /\ IsFiniteSet(flight'[c].batch)
               /\ OneEach(flight'[c].batch)
               /\ \A x \in flight'[c].batch : Matches(c, x)
               /\ \A x \in journal[c] : x.status = "IN_FLIGHT" =>
                    flight'[c].phase = "sent" /\ \E y \in flight'[c].batch : y.seq = x.seq
    <3>1. CASE c = d
      <4>1. \A x \in journal[d] : x.status # "IN_FLIGHT"
        BY <1>2 DEF ClientInv, FlightOK
      <4> QED BY <1>3, <1>4, <1>6, <3>1, <4>1
    <3>2. CASE c # d
      BY <1>6, <3>2 DEF ClientInv, FlightOK
    <3> QED BY <3>1, <3>2
  <2> QED BY <1>6, <2>1, <2>2 DEF FlightOK, Matches, OneEach
<1>9. RequestsOK'
  <2>1. UNCHANGED <<requests, receipts, recorded>>
    BY <1>2 DEF client, backend
  <2>2. \A r \in requests : r.dev \in Device /\ (r.waited => r.dev # d)
    BY <1>2 DEF ClientInv, RequestsOK, Requests
  <2>3. \A r \in requests : r.waited => flight'[r.dev] = flight[r.dev]
    BY <1>6, <2>2
  <2> QED BY <2>1, <2>3 DEF ClientInv, RequestsOK, Asked, Covers, Matches
<1> QED BY <1>7, <1>8, <1>9 DEF ClientInv

\* The request made of a batch asks for all of it.
LEMMA BatchRequest ==
  ASSUME NEW d \in Device, NEW S \in SUBSET Entries, IsFiniteSet(S), OneEach(S),
         \A x \in S : Matches(d, x),
         NEW r, r = [dev |-> d, waited |-> TRUE, failed |-> FALSE, results |-> {},
                     todo |-> [i \in 1 .. Cardinality(S) |-> Wire(InOrder(S)[i])]]
  PROVE  r \in Requests /\ Asked(r) /\ Covers(r, S)
<1> DEFINE N == Cardinality(S)
           todo == [i \in 1 .. N |-> Wire(InOrder(S)[i])]
<1>1. Ordered(S)
  BY DEF Ordered, OneEach, Entries
<1>2. /\ N \in Nat
      /\ \A i \in 1 .. N : InOrder(S)[i] \in S
      /\ \A x \in S : \E i \in 1 .. N : InOrder(S)[i] = x
  BY <1>1, InOrderLists
<1>3. \A x \in S : /\ Wire(x) \in Wires
                   /\ Wire(x).seq = x.seq
                   /\ Matches(d, Wire(x))
  BY DEF Wire, Wires, Entries, Matches
<1>4. \A i \in 1 .. N : todo[i] = Wire(InOrder(S)[i])
  OBVIOUS
<1>5. todo \in Seq(Wires) /\ Len(todo) = N
  <2>1. \A i \in 1 .. N : Wire(InOrder(S)[i]) \in Wires
    BY <1>2, <1>3
  <2>2. todo \in [1 .. N -> Wires]
    BY <2>1
  <2> HIDE DEF todo, N
  <2> QED BY <1>2, <2>2
<1>6. r.todo = todo /\ r.results = {} /\ r.dev = d
  OBVIOUS
<1> HIDE DEF todo, N
<1>7. r \in Requests
  BY <1>5, <1>6 DEF Requests
<1>8. Asked(r)
  <2>1. IsFiniteSet(r.results)
    BY <1>6, FS_EmptySet
  <2>2. \A i \in 1 .. N : Matches(d, todo[i])
    BY <1>2, <1>3, <1>4
  <2> QED BY <1>5, <1>6, <2>1, <2>2 DEF Asked
<1>9. Covers(r, S)
  <2>1. ASSUME NEW x \in S PROVE \E n \in 1 .. Len(r.todo) : r.todo[n].seq = x.seq
    <3>1. PICK i \in 1 .. N : InOrder(S)[i] = x
      BY <1>2
    <3>2. todo[i].seq = x.seq /\ Len(r.todo) = N
      BY <1>3, <1>4, <1>5, <1>6, <3>1
    <3> QED BY <1>6, <3>1, <3>2
  <2> QED BY <2>1 DEF Covers
<1> QED BY <1>7, <1>8, <1>9

LEMMA SendKeeps ==
  ASSUME ClientInv, NEW d \in Device, Send(d)
  PROVE  ClientInv'
<1> DEFINE batch == flight[d].batch
<1>1. PICK q : /\ q = [dev |-> d, waited |-> TRUE, failed |-> FALSE, results |-> {},
                       todo |-> [i \in 1 .. Cardinality(batch) |-> Wire(InOrder(batch)[i])]]
               /\ requests' = requests \cup {q}
  BY DEF Send
<1>2. /\ flight[d].phase = "chosen"
      /\ journal' = [journal EXCEPT ![d] = Marked(@, batch, "IN_FLIGHT")]
      /\ flight' = [flight EXCEPT ![d].phase = "sent"]
      /\ UNCHANGED <<local, recorded, belief, snapshot, backend>>
  BY DEF Send
<1>3. /\ journal[d] \in SUBSET Entries /\ OneEach(journal[d])
      /\ batch \in SUBSET Entries /\ batch # {} /\ IsFiniteSet(batch) /\ OneEach(batch)
      /\ \A x \in batch : Matches(d, x)
  BY <1>2 DEF ClientInv, JournalOK, FlightOK
<1>4. PICK F : F = Marked(journal[d], batch, "IN_FLIGHT")
  OBVIOUS
<1>5. /\ Stems(F, journal[d])
      /\ \A x \in F : \E y \in journal[d] :
           /\ x.seq = y.seq
           /\ x.status = IF \E b \in batch : b.seq = y.seq THEN "IN_FLIGHT" ELSE y.status
  BY <1>3, <1>4, MarkedStems DEF Statuses
<1>6. journal' = [journal EXCEPT ![d] = F]
  BY <1>2, <1>4
<1>7. JournalOK'
  BY <1>2, <1>5, <1>6, JournalRewritten DEF ClientInv
<1>8. /\ flight'[d].phase = "sent" /\ flight'[d].batch = batch
      /\ \A c \in Device : c # d => flight'[c] = flight[c]
      /\ flight' \in [Device -> [phase: {"idle", "chosen", "sent"}, batch: SUBSET Entries]]
  BY <1>2 DEF ClientInv, FlightOK
<1>9. journal'[d] = F /\ \A c \in Device : c # d => journal'[c] = journal[c]
  BY <1>6 DEF ClientInv, JournalOK
<1> HIDE DEF batch
<1>10. FlightOK'
  <2>1. \A x \in F : x.status = "IN_FLIGHT" => \E y \in batch : y.seq = x.seq
    <3>1. \A x \in journal[d] : x.status # "IN_FLIGHT"
      BY <1>2 DEF ClientInv, FlightOK
    <3> QED BY <1>5, <3>1
  <2>2. recorded' = recorded
    BY <1>2
  <2>3. ASSUME NEW c \in Device
        PROVE  /\ flight'[c].phase = "idle" <=> flight'[c].batch = {}
               /\ IsFiniteSet(flight'[c].batch)
               /\ OneEach(flight'[c].batch)
               /\ \A x \in flight'[c].batch : Matches(c, x)
               /\ \A x \in journal'[c] : x.status = "IN_FLIGHT" =>
                    flight'[c].phase = "sent" /\ \E y \in flight'[c].batch : y.seq = x.seq
    <3>1. CASE c = d
      BY <1>3, <1>8, <1>9, <2>1, <3>1
    <3>2. CASE c # d
      BY <1>8, <1>9, <3>2 DEF ClientInv, FlightOK
    <3> QED BY <3>1, <3>2
  <2> QED BY <1>8, <2>2, <2>3 DEF FlightOK, Matches, OneEach
<1>11. RequestsOK'
  <2>1. UNCHANGED <<receipts, recorded>>
    BY <1>2 DEF backend
  <2>2. q \in Requests /\ Asked(q) /\ Covers(q, batch)
    BY <1>1, <1>3, BatchRequest DEF batch
  <2>3. q.dev = d /\ q.waited
    BY <1>1
  <2>4. \A r \in requests : r.dev \in Device /\ (r.waited => r.dev # d)
    BY <1>2 DEF ClientInv, RequestsOK, Requests
  <2>5. \A r \in requests : r.waited => flight'[r.dev] = flight[r.dev]
    BY <1>8, <2>4
  <2>0. requests' = requests \cup {q}
    BY <1>1
  <2>6. \A r \in requests' : Asked(r)
    BY <2>0, <2>2 DEF ClientInv, RequestsOK
  <2>7. \A r \in requests' : r.waited => /\ flight'[r.dev].phase = "sent"
                                         /\ r.failed \/ Covers(r, flight'[r.dev].batch)
    <3>1. \A r \in requests : r.waited => /\ flight'[r.dev].phase = "sent"
                                          /\ r.failed \/ Covers(r, flight'[r.dev].batch)
      BY <2>5 DEF ClientInv, RequestsOK
    <3>2. flight'[q.dev].phase = "sent" /\ Covers(q, flight'[q.dev].batch)
      BY <1>8, <2>2, <2>3
    <3> QED BY <2>0, <3>1, <3>2
  <2>8. \A r, s \in requests' : r.waited /\ s.waited /\ r.dev = s.dev => r = s
    BY <2>0, <2>3, <2>4 DEF ClientInv, RequestsOK
  <2>9. requests' \subseteq Requests
    BY <2>0, <2>2 DEF ClientInv, RequestsOK
  <2> QED BY <2>1, <2>6, <2>7, <2>8, <2>9 DEF RequestsOK, Asked, Covers, Matches
<1>12. LocalOK' /\ ReceiptsOK' /\ SnapshotOK' /\ Growing' /\ BeliefOK'
  <2>1. UNCHANGED <<binding, work, recorded, known, truth, verdict, snapshot, receipts, accepted>>
    BY <1>2 DEF local, belief, backend
  <2> QED BY <2>1 DEF ClientInv, LocalOK, ReceiptsOK, SnapshotOK, Growing, BeliefOK, Held, Told,
                      Matches
<1> QED BY <1>7, <1>10, <1>11, <1>12 DEF ClientInv

--------------------------------------------------------------------------------
\* Serving.

LEMMA RowIs ==
  ASSUME NEW n \in Nat, NEW a \in Answers
  PROVE  Row(n, a) \in Rows /\ Row(n, a).seq = n /\ Row(n, a).outcome = a.outcome
BY DEF Row, Rows, Answers

\* The request r goes on as next.
LEMMA ReplaceKeeps ==
  ASSUME RequestsOK, NEW r \in requests, NEW next \in Requests, Replace(r, next),
         next.dev = r.dev, next.waited = r.waited, Asked(next)',
         next.waited => next.failed \/ Covers(next, flight[r.dev].batch),
         receipts \subseteq receipts', UNCHANGED <<flight, recorded>>
  PROVE  RequestsOK'
<1> DEFINE less == [next EXCEPT !.results = {}]
<1>1. /\ less \in Requests /\ less.results = {} /\ less.dev = next.dev
      /\ less.waited = next.waited /\ less.todo = next.todo
  BY DEF Requests
<1>2. \A x \in requests' : \/ x \in requests /\ x # r
                           \/ x = next
                           \/ x = less /\ ~ next.waited
  BY DEF Replace
<1> HIDE DEF less
<1>3. \A x \in requests : Asked(x)'
  BY DEF RequestsOK, Asked, Matches
<1>4. \A x \in requests' : Asked(x)'
  <2>1. Asked(less)'
    <3>1. IsFiniteSet({})
      BY FS_EmptySet
    <3> QED BY <1>1, <3>1 DEF Asked
  <2> QED BY <1>2, <1>3, <2>1
<1>5. \A x \in requests' : x \in Requests
  BY <1>1, <1>2 DEF RequestsOK
<1>6. flight[r.dev].phase = "sent" \/ ~ r.waited
  BY DEF RequestsOK
<1>7. \A x \in requests' : x.waited => /\ flight'[x.dev].phase = "sent"
                                       /\ x.failed \/ Covers(x, flight'[x.dev].batch)
  BY <1>1, <1>2, <1>6 DEF RequestsOK
<1>8. \A x, y \in requests' : x.waited /\ y.waited /\ x.dev = y.dev => x = y
  BY <1>1, <1>2 DEF RequestsOK
<1> QED BY <1>4, <1>5, <1>7, <1>8 DEF RequestsOK, Covers

\* A request with its first entry answered.
LEMMA OneServed ==
  ASSUME RequestsOK, NEW r \in requests, r.todo # <<>>, NEW a \in Answers,
         NEW y \in receipts', y.dev = r.dev, y.wire.seq = Head(r.todo).seq, y.answer = a,
         NEW next, next = [r EXCEPT !.todo = Tail(@), !.results = @ \cup {Row(Head(r.todo).seq, a)}],
         receipts \subseteq receipts', UNCHANGED <<flight, recorded>>
  PROVE  /\ next \in Requests
         /\ next.dev = r.dev /\ next.waited = r.waited /\ Asked(next)'
         /\ next.waited => next.failed \/ Covers(next, flight[r.dev].batch)
<1>1. r \in Requests /\ Asked(r) /\ (r.waited => r.failed \/ Covers(r, flight[r.dev].batch))
  BY DEF RequestsOK
<1>2. r.todo \in Seq(Wires) /\ r.results \in SUBSET Rows
  BY <1>1 DEF Requests
<1> DEFINE x == Head(r.todo)
           row == Row(x.seq, a)
<1>3. /\ x = r.todo[1] /\ x \in Wires /\ Tail(r.todo) \in Seq(Wires)
      /\ Len(r.todo) \in Nat \ {0} /\ Len(Tail(r.todo)) = Len(r.todo) - 1
      /\ \A n \in 1 .. Len(r.todo) - 1 : Tail(r.todo)[n] = r.todo[n + 1]
  BY <1>2
<1>4. row \in Rows /\ row.seq = x.seq
  BY <1>3, RowIs DEF Wires
<1>5. /\ next.todo = Tail(r.todo) /\ next.results = r.results \cup {row}
      /\ next.dev = r.dev /\ next.waited = r.waited /\ next.failed = r.failed
      /\ next \in Requests
  BY <1>1, <1>2, <1>3, <1>4 DEF Requests
<1>6. row = Row(y.wire.seq, y.answer)
  OBVIOUS
<1> HIDE DEF x, row
<1>7. Asked(next)'
  <2>1. IsFiniteSet(next.results)
    BY <1>1, <1>5, FS_AddElement DEF Asked
  <2>2. \A n \in 1 .. Len(next.todo) : Matches(next.dev, next.todo[n])
    <3> SUFFICES ASSUME NEW n \in 1 .. Len(r.todo) - 1 PROVE Matches(r.dev, r.todo[n + 1])
      BY <1>3, <1>5
    <3>1. n + 1 \in 1 .. Len(r.todo)
      BY <1>3
    <3> QED BY <1>1, <3>1 DEF Asked
  <2>3. \A w \in next.results : \E z \in receipts' : z.dev = next.dev /\ w = Row(z.wire.seq, z.answer)
    BY <1>1, <1>5, <1>6 DEF Asked
  <2> QED BY <2>1, <2>2, <2>3 DEF Asked, Matches
<1>8. ASSUME r.waited, ~ r.failed PROVE Covers(next, flight[r.dev].batch)
  <2> SUFFICES ASSUME NEW z \in flight[r.dev].batch
               PROVE  \/ \E w \in next.results : w.seq = z.seq
                      \/ \E n \in 1 .. Len(next.todo) : next.todo[n].seq = z.seq
    BY DEF Covers
  <2>1. CASE \E w \in r.results : w.seq = z.seq
    BY <1>5, <2>1
  <2>2. CASE \E n \in 1 .. Len(r.todo) : r.todo[n].seq = z.seq
    <3>1. PICK n \in 1 .. Len(r.todo) : r.todo[n].seq = z.seq
      BY <2>2
    <3>2. CASE n = 1
      BY <1>3, <1>4, <1>5, <3>1, <3>2
    <3>3. CASE n # 1
      <4>1. n - 1 \in 1 .. Len(r.todo) - 1 /\ (n - 1) + 1 = n
        BY <1>3, <3>3
      <4> QED BY <1>3, <1>5, <3>1, <4>1
    <3> QED BY <3>2, <3>3
  <2> QED BY <1>1, <1>8, <2>1, <2>2 DEF Covers
<1> QED BY <1>1, <1>5, <1>7, <1>8

LEMMA RefusedKeeps ==
  ASSUME ClientInv, NEW r \in requests, ServeRefused(r)
  PROVE  ClientInv'
<1>1. PICK next : next = [r EXCEPT !.todo = <<>>, !.failed = TRUE]
  OBVIOUS
<1>2. Replace(r, next) /\ UNCHANGED <<local, client, memory, backend>>
  BY <1>1 DEF ServeRefused
<1>3. r \in Requests /\ Asked(r)
  BY DEF ClientInv, RequestsOK
<1>4. /\ next \in Requests /\ next.dev = r.dev /\ next.waited = r.waited
      /\ next.todo = <<>> /\ next.failed /\ next.results = r.results
  <2>1. /\ next.dev = r.dev /\ next.waited = r.waited
        /\ next.todo = <<>> /\ next.results = r.results
    BY <1>1, <1>3 DEF Requests
  <2>2. next.failed
    BY <1>1, <1>3 DEF Requests
  <2>3. <<>> \in Seq(Wires)
    OBVIOUS
  <2>4. next \in Requests
    BY <1>1, <1>3, <2>3 DEF Requests
  <2> QED BY <2>1, <2>2, <2>4
<1>5. UNCHANGED <<binding, work, journal, recorded, known, truth, verdict, flight, snapshot, server,
                  receipts, accepted>>
  BY <1>2 DEF local, client, belief, memory, backend
<1>6. Asked(next)'
  BY <1>3, <1>4, <1>5 DEF Asked
<1>7. RequestsOK'
  BY <1>2, <1>4, <1>5, <1>6, ReplaceKeeps DEF ClientInv
<1>8. LocalOK' /\ JournalOK' /\ FlightOK'
  BY <1>5 DEF ClientInv, LocalOK, JournalOK, FlightOK, Matches
<1>9. ReceiptsOK' /\ SnapshotOK' /\ BeliefOK' /\ Growing'
  BY <1>5 DEF ClientInv, ReceiptsOK, SnapshotOK, BeliefOK, Growing, Held, Told, Matches
<1> QED BY <1>7, <1>8, <1>9 DEF ClientInv

LEMMA RepeatedKeeps ==
  ASSUME ClientInv, NEW r \in requests, ServeRepeated(r)
  PROVE  ClientInv'
<1>1. PICK y \in Receipts(r, Head(r.todo)) :
        /\ y.wire = Head(r.todo)
        /\ Replace(r, [r EXCEPT !.todo = Tail(@), !.results = @ \cup {Row(y.wire.seq, y.answer)}])
  BY DEF ServeRepeated
<1>2. r.todo # <<>> /\ UNCHANGED <<local, client, memory, backend>>
  BY DEF ServeRepeated
<1>3. UNCHANGED <<binding, work, journal, recorded, known, truth, verdict, flight, snapshot, server,
                  receipts, accepted>>
  BY <1>2 DEF local, client, belief, memory, backend
<1>4. y \in receipts' /\ y.dev = r.dev /\ y.answer \in Answers
  BY <1>1, <1>3 DEF Receipts, ClientInv, ReceiptsOK
<1>5. PICK next : next = [r EXCEPT !.todo = Tail(@), !.results = @ \cup {Row(Head(r.todo).seq, y.answer)}]
  OBVIOUS
<1>6. Replace(r, next)
  BY <1>1, <1>5
<1>7. RequestsOK'
  BY <1>1, <1>2, <1>3, <1>4, <1>5, <1>6, OneServed, ReplaceKeeps DEF ClientInv
<1>8. LocalOK' /\ JournalOK' /\ FlightOK'
  BY <1>3 DEF ClientInv, LocalOK, JournalOK, FlightOK, Matches
<1>9. ReceiptsOK' /\ SnapshotOK' /\ BeliefOK' /\ Growing'
  BY <1>3 DEF ClientInv, ReceiptsOK, SnapshotOK, BeliefOK, Growing, Held, Told, Matches
<1> QED BY <1>7, <1>8, <1>9 DEF ClientInv

\* The log has only grown.
LogExtends ==
  \A e \in Conversation :
    /\ Len(accepted[e]) \in Nat /\ Len(accepted'[e]) \in Nat
    /\ Len(accepted[e]) <= Len(accepted'[e])
    /\ \A n \in 1 .. Len(accepted[e]) : accepted'[e][n] = accepted[e][n]

LEMMA ToldStays ==
  ASSUME LogExtends
  PROVE  /\ \A e \in Conversation : \A rev \in Nat : \A state : Told(e, rev, state) => Told(e, rev, state)'
         /\ \A e \in Conversation : \A rev \in Nat : \A state, judged :
              Held(e, rev, state, judged) => Held(e, rev, state, judged)'
<1> SUFFICES ASSUME NEW e \in Conversation, NEW rev \in Nat, NEW state, NEW judged
             PROVE  /\ Told(e, rev, state) => Told(e, rev, state)'
                    /\ Held(e, rev, state, judged) => Held(e, rev, state, judged)'
  OBVIOUS
<1>1. /\ Len(accepted[e]) \in Nat /\ Len(accepted'[e]) \in Nat
      /\ Len(accepted[e]) <= Len(accepted'[e])
      /\ \A n \in 1 .. Len(accepted[e]) : accepted'[e][n] = accepted[e][n]
  BY DEF LogExtends
<1>2. Told(e, rev, state) => Told(e, rev, state)'
  BY <1>1 DEF Told
<1>3. ASSUME Held(e, rev, state, judged) PROVE Held(e, rev, state, judged)'
  <2>1. rev <= Len(accepted[e]) /\ rev <= Len(accepted'[e])
    BY <1>1, <1>3 DEF Held
  <2>2. ASSUME state # None PROVE \E n \in 1 .. rev : accepted'[e][n].content = state
    <3>1. PICK n \in 1 .. rev : accepted[e][n].content = state
      BY <1>3, <2>2 DEF Held
    <3>2. n \in 1 .. Len(accepted[e])
      BY <1>1, <2>1
    <3> QED BY <1>1, <3>1, <3>2
  <2>3. ASSUME judged # None
        PROVE  \E n \in 1 .. Len(accepted'[e]) : accepted'[e][n].content = judged
    <3>1. PICK n \in 1 .. Len(accepted[e]) : accepted[e][n].content = judged
      BY <1>3, <2>3 DEF Held
    <3>2. n \in 1 .. Len(accepted'[e])
      BY <1>1
    <3> QED BY <1>1, <3>1, <3>2
  <2> QED BY <2>1, <2>2, <2>3 DEF Held
<1> QED BY <1>2, <1>3

LEMMA AnswerTyped ==
  ASSUME NEW state \in Contents \cup {None}, NEW revision \in Nat, NEW x \in Wires
  PROVE  /\ Answer(state, revision, x) \in Answers
         /\ Accepted(state, revision, x) => Answer(state, revision, x).outcome = "ACK"
BY DEF Answer, Answers, Wires

\* What the service of a new entry does to the log, and what it answers.
LEMMA NewAnswer ==
  ASSUME Inv, Growing, NEW r \in requests, ServeNew(r),
         NEW x, x = Head(r.todo),
         NEW a, a = Answer(server[x.ent].state, server[x.ent].rev, x)
  PROVE  /\ x \in Wires /\ r.todo # <<>>
         /\ a \in Answers
         /\ receipts' = receipts \cup {[dev |-> r.dev, wire |-> x, answer |-> a]}
         /\ LogExtends
         /\ Growing'
         /\ Told(x.ent, a.rev, a.state)'
<1>a. PICK e : e = x.ent
  OBVIOUS
<1>b. PICK c : c = [dev |-> r.dev, seq |-> x.seq, content |-> x.content]
  OBVIOUS
<1>c. PICK state, rev : state = server[e].state /\ rev = server[e].rev
  OBVIOUS
<1>1. /\ x \in Wires /\ r.todo # <<>>
      /\ receipts' = receipts \cup {[dev |-> r.dev, wire |-> x, answer |-> a]}
      /\ accepted' = IF Accepted(state, rev, x)
                     THEN [accepted EXCEPT ![e] = Append(@, c)] ELSE accepted
      /\ a = Answer(state, rev, x)
  BY <1>a, <1>b, <1>c DEF ServeNew
<1>2. e \in Conversation
  BY <1>a, <1>1 DEF Wires
<1>3. /\ rev = Len(accepted[e]) /\ rev \in Nat
      /\ state \in Contents \cup {None}
      /\ state = IF accepted[e] = <<>> THEN None ELSE accepted[e][Len(accepted[e])].content
      /\ accepted[e] \in Seq(Receipted)
  BY <1>c, <1>2, EntityFacts
<1>4. a \in Answers
  BY <1>1, <1>3, AnswerTyped
<1>5. \A f \in Conversation : accepted[f] \in Seq(Receipted) /\ Len(accepted[f]) \in Nat
  BY EntityFacts
<1>6. CASE Accepted(state, rev, x)
  <2>1. a.rev = Len(accepted[e]) + 1 /\ a.state = x.content
    <3>1. a = Answer(state, rev, x) /\ x \in Wires
      BY <1>1
    <3>2. Answer(state, rev, x).rev = rev + 1 /\ Answer(state, rev, x).state = x.content
      BY <1>3, <1>6, <3>1, AcceptedIsNewer
    <3> QED BY <1>3, <3>1, <3>2
  <2>2. /\ accepted'[e] = Append(accepted[e], c)
        /\ \A f \in Conversation : f # e => accepted'[f] = accepted[f]
    BY <1>1, <1>2, <1>6 DEF Inv
  <2>4. c.content = x.content
    BY <1>b
  <2>5. accepted[e] # <<>> => x.content.rev > accepted[e][Len(accepted[e])].content.rev
    BY <1>a, <1>c, <1>6, ServeAccepted
  <2>6. /\ Len(accepted'[e]) = Len(accepted[e]) + 1
        /\ accepted'[e][Len(accepted[e]) + 1] = c
        /\ \A n \in 1 .. Len(accepted[e]) : accepted'[e][n] = accepted[e][n]
    <3>1. PICK S : accepted[e] \in Seq(S) /\ c \in S
      <4>1. accepted[e] \in Seq(Receipted \cup {c})
        BY <1>3
      <4> QED BY <4>1
    <3>2. PICK s : s = accepted[e]
      OBVIOUS
    <3>3. /\ Len(Append(s, c)) = Len(s) + 1
          /\ Append(s, c)[Len(s) + 1] = c
          /\ \A n \in 1 .. Len(s) : Append(s, c)[n] = s[n]
      BY <3>1, <3>2
    <3> QED BY <2>2, <3>2, <3>3
  <2>7. LogExtends
    <3> SUFFICES ASSUME NEW f \in Conversation
                 PROVE  /\ Len(accepted[f]) \in Nat /\ Len(accepted'[f]) \in Nat
                        /\ Len(accepted[f]) <= Len(accepted'[f])
                        /\ \A n \in 1 .. Len(accepted[f]) : accepted'[f][n] = accepted[f][n]
      BY DEF LogExtends
    <3>1. Len(accepted[f]) \in Nat
      BY <1>5
    <3>2. CASE f # e
      <4>1. accepted'[f] = accepted[f]
        BY <2>2, <3>2
      <4> QED BY <3>1, <4>1
    <3>3. CASE f = e
      <4>1. PICK k : k = Len(accepted[f])
        OBVIOUS
      <4>2. Len(accepted'[f]) = k + 1 /\ k \in Nat
        BY <2>6, <3>1, <3>3, <4>1
      <4> QED BY <2>6, <3>3, <4>1, <4>2
    <3> QED BY <3>2, <3>3
  <2>8. Told(e, a.rev, a.state)'
    <3>1. a.rev # 0 /\ a.rev = Len(accepted'[e])
      BY <1>3, <2>1, <2>6
    <3>2. a.state = accepted'[e][a.rev].content
      BY <2>1, <2>4, <2>6
    <3>3. Len(accepted'[e]) \in Nat
      BY <1>3, <2>6
    <3>4. PICK n, z : n = a.rev /\ z = a.state
      OBVIOUS
    <3>5. n # 0 /\ n = Len(accepted'[e]) /\ z = accepted'[e][n].content
      BY <3>1, <3>2, <3>4
    <3>6. Told(e, n, z)'
      BY <3>3, <3>5 DEF Told
    <3> QED BY <3>4, <3>6
  <2>9. Growing'
    <3> SUFFICES ASSUME NEW f \in Conversation, NEW n \in 1 .. Len(accepted'[f]), NEW m \in 1 .. n - 1
                 PROVE  accepted'[f][m].content.rev < accepted'[f][n].content.rev
      BY DEF Growing
    <3>1. CASE f # e
      BY <2>2, <3>1 DEF Growing
    <3>2. CASE f = e /\ n \in 1 .. Len(accepted[e])
      <4>1. m \in 1 .. Len(accepted[e])
        BY <1>3, <3>2
      <4> QED BY <1>2, <2>6, <3>2, <4>1 DEF Growing
    <3>3. CASE f = e /\ n = Len(accepted[e]) + 1
      <4> DEFINE last == Len(accepted[e])
      <4>1. m \in 1 .. last /\ last \in 1 .. last
        BY <1>3, <3>3
      <4>2. accepted[e] # <<>>
        BY <4>1
      <4>3. /\ accepted'[e][n].content = x.content
            /\ accepted'[e][m] = accepted[e][m]
        BY <2>4, <2>6, <3>3, <4>1
      <4>4. /\ accepted[e][m].content.rev \in Nat /\ accepted[e][last].content.rev \in Nat
            /\ x.content.rev \in Nat
        <5>1. accepted[e][m] \in Receipted /\ accepted[e][last] \in Receipted
          BY <1>3, <4>1
        <5>2. \A z \in Receipted : z.content \in Contents
          BY DEF Inv, Receipted, Wires
        <5>3. \A z \in Contents : z.rev \in Nat
          BY DEF Contents
        <5>4. x.content \in Contents
          BY <1>1 DEF Wires
        <5> QED BY <5>1, <5>2, <5>3, <5>4
      <4>5. m # last => accepted[e][m].content.rev < accepted[e][last].content.rev
        <5>1. m # last => m \in 1 .. last - 1
          BY <1>3, <4>1
        <5> QED BY <1>2, <4>1, <5>1 DEF Growing
      <4> HIDE DEF last
      <4>6. accepted[e][m].content.rev < x.content.rev
        BY <2>5, <4>2, <4>4, <4>5 DEF last
      <4> QED BY <3>3, <4>3, <4>6
    <3>4. f = e => n \in 1 .. Len(accepted[e]) \/ n = Len(accepted[e]) + 1
      BY <1>3, <2>6
    <3> QED BY <3>1, <3>2, <3>3, <3>4
  <2> QED BY <1>1, <1>4, <2>7, <2>8, <2>9, <1>a
<1>7. CASE ~ Accepted(state, rev, x)
  <2>1. a.rev = rev /\ a.state = state
    BY <1>1, <1>7, NotAcceptedKeeps
  <2>2. accepted' = accepted
    BY <1>1, <1>7
  <2>3. accepted[e] = <<>> <=> Len(accepted[e]) = 0
    BY <1>3
  <2>4. Told(e, rev, state)
    BY <1>3, <2>3 DEF Told
  <2>5. LogExtends
    BY <1>5, <2>2 DEF LogExtends
  <2>6. Growing' /\ Told(e, rev, state)'
    BY <2>2, <2>4 DEF Growing, Told
  <2> QED BY <1>1, <1>4, <2>1, <2>5, <2>6, <1>a
<1> QED BY <1>6, <1>7

LEMMA NewKeeps ==
  ASSUME ClientInv, Inv, NEW r \in requests, ServeNew(r)
  PROVE  ClientInv'
<1>1. PICK x : x = Head(r.todo)
  OBVIOUS
<1>2. PICK a : a = Answer(server[x.ent].state, server[x.ent].rev, x)
  OBVIOUS
<1>3. /\ x \in Wires /\ r.todo # <<>>
      /\ a \in Answers
      /\ receipts' = receipts \cup {[dev |-> r.dev, wire |-> x, answer |-> a]}
      /\ LogExtends
      /\ Growing'
      /\ Told(x.ent, a.rev, a.state)'
  BY <1>1, <1>2, NewAnswer DEF ClientInv
<1>4. PICK y : y = [dev |-> r.dev, wire |-> x, answer |-> a]
  OBVIOUS
<1>5. PICK next : next = [r EXCEPT !.todo = Tail(@), !.results = @ \cup {Row(x.seq, a)}]
  OBVIOUS
<1>6. Replace(r, next) /\ UNCHANGED <<local, client, memory>>
  BY <1>1, <1>2, <1>5 DEF ServeNew
<1>7. UNCHANGED <<binding, work, journal, recorded, known, truth, verdict, flight, snapshot>>
  BY <1>6 DEF local, client, belief, memory
<1>8. receipts' = receipts \cup {y} /\ y.dev = r.dev /\ y.wire = x /\ y.answer = a
  BY <1>3, <1>4
<1>9. RequestsOK'
  BY <1>1, <1>3, <1>5, <1>6, <1>7, <1>8, OneServed, ReplaceKeeps DEF ClientInv
<1>10. ReceiptsOK'
  <2>1. r \in Requests /\ Asked(r)
    BY DEF ClientInv, RequestsOK
  <2>2. r.dev \in Device /\ Matches(r.dev, x)
    <3>1. r.todo \in Seq(Wires)
      BY <2>1 DEF Requests
    <3>2. 1 \in 1 .. Len(r.todo) /\ x = r.todo[1]
      BY <1>1, <1>3, <3>1
    <3> QED BY <2>1, <3>2 DEF Asked, Requests
  <2>3. y \in [dev: Device, wire: Wires, answer: Answers]
    BY <1>3, <1>4, <2>2
  <2>4. \A z \in receipts : Matches(z.dev, z.wire)' /\ Told(z.wire.ent, z.answer.rev, z.answer.state)'
    <3> SUFFICES ASSUME NEW z \in receipts
                 PROVE  Matches(z.dev, z.wire)' /\ Told(z.wire.ent, z.answer.rev, z.answer.state)'
      OBVIOUS
    <3>1. Matches(z.dev, z.wire) /\ Told(z.wire.ent, z.answer.rev, z.answer.state)
      BY DEF ClientInv, ReceiptsOK
    <3>2. z.wire.ent \in Conversation /\ z.answer.rev \in Nat
      BY DEF ClientInv, ReceiptsOK, Wires, Answers
    <3> QED BY <1>3, <1>7, <3>1, <3>2, ToldStays DEF Matches
  <2>5. Matches(y.dev, y.wire)' /\ Told(y.wire.ent, y.answer.rev, y.answer.state)'
    BY <1>3, <1>7, <1>8, <2>2 DEF Matches
  <2> QED BY <1>8, <2>3, <2>4, <2>5 DEF ReceiptsOK, ClientInv
<1>11. LocalOK' /\ JournalOK' /\ FlightOK'
  BY <1>7 DEF ClientInv, LocalOK, JournalOK, FlightOK, Matches
<1>12. SnapshotOK'
  <2> SUFFICES ASSUME NEW d \in Device, snapshot[d] # None
               PROVE  snapshot[d] \in Snapshots /\ Told(snapshot[d].ent, snapshot[d].rev, snapshot[d].state)'
    BY <1>7 DEF ClientInv, SnapshotOK, Told
  <2>1. snapshot[d] \in Snapshots /\ Told(snapshot[d].ent, snapshot[d].rev, snapshot[d].state)
    BY DEF ClientInv, SnapshotOK
  <2>2. PICK s \in Snapshots : s = snapshot[d]
    BY <2>1
  <2>3. s.ent \in Conversation /\ s.rev \in Nat
    BY DEF Snapshots
  <2>4. Told(s.ent, s.rev, s.state)'
    BY <1>3, <2>1, <2>2, <2>3, ToldStays
  <2> QED BY <1>7, <2>2, <2>4 DEF Told
<1>13. BeliefOK'
  <2> SUFFICES ASSUME NEW d \in Device, NEW e \in Conversation
               PROVE  Held(e, known[d][e], truth[d][e], verdict[d][e].state)'
    BY <1>7 DEF ClientInv, BeliefOK
  <2>1. known[d][e] \in Nat /\ Held(e, known[d][e], truth[d][e], verdict[d][e].state)
    BY DEF ClientInv, BeliefOK
  <2>2. PICK k, t, v : k = known[d][e] /\ t = truth[d][e] /\ v = verdict[d][e].state
    BY <2>1
  <2>3. Held(e, k, t, v)'
    BY <1>3, <2>1, <2>2, ToldStays
  <2> QED BY <1>7, <2>2, <2>3 DEF Held
<1> QED BY <1>3, <1>9, <1>10, <1>11, <1>12, <1>13 DEF ClientInv

--------------------------------------------------------------------------------
\* The end of a batch.

\* Requests that go on without the installation.
LEMMA RequestsLeft ==
  ASSUME RequestsOK, FlightOK, NEW d \in Device, flight' = [flight EXCEPT ![d] = Idle],
         UNCHANGED <<recorded, receipts>>,
         \A x \in requests' : /\ x \in Requests /\ Asked(x)
                              /\ x.waited => x \in requests /\ x.dev # d
  PROVE  RequestsOK'
<1>1. \A c \in Device : c # d => flight'[c] = flight[c]
  BY DEF FlightOK
<1>2. \A x \in requests' : Asked(x)'
  BY DEF Asked, Matches
<1>3. ASSUME NEW x \in requests', x.waited
      PROVE  flight'[x.dev].phase = "sent" /\ (x.failed \/ Covers(x, flight'[x.dev].batch))
  <2>1. x \in requests /\ x.dev \in Device /\ x.dev # d
    BY <1>3 DEF Requests
  <2>2. flight[x.dev].phase = "sent" /\ (x.failed \/ Covers(x, flight[x.dev].batch))
    BY <1>3, <2>1 DEF RequestsOK
  <2> QED BY <1>1, <2>1, <2>2
<1>4. \A x, y \in requests' : x.waited /\ y.waited /\ x.dev = y.dev => x = y
  BY DEF RequestsOK
<1> QED BY <1>2, <1>3, <1>4 DEF RequestsOK, Covers

LEMMA FlightLanded ==
  ASSUME FlightOK, JournalOK, NEW d \in Device, NEW F,
         journal' = [journal EXCEPT ![d] = F], flight' = [flight EXCEPT ![d] = Idle],
         recorded' = recorded, \A x \in F : x.status # "IN_FLIGHT"
  PROVE  FlightOK'
<1>1. /\ flight'[d] = Idle /\ journal'[d] = F
      /\ \A c \in Device : c # d => flight'[c] = flight[c] /\ journal'[c] = journal[c]
  BY DEF FlightOK, JournalOK
<1>2. Idle \in [phase: {"idle", "chosen", "sent"}, batch: SUBSET Entries]
  BY DEF Idle
<1>3. flight' \in [Device -> [phase: {"idle", "chosen", "sent"}, batch: SUBSET Entries]]
  BY <1>2 DEF FlightOK
<1>4. ASSUME NEW c \in Device
      PROVE  /\ flight'[c].phase = "idle" <=> flight'[c].batch = {}
             /\ IsFiniteSet(flight'[c].batch)
             /\ OneEach(flight'[c].batch)
             /\ \A x \in flight'[c].batch : Matches(c, x)
             /\ \A x \in journal'[c] : x.status = "IN_FLIGHT" =>
                  flight'[c].phase = "sent" /\ \E y \in flight'[c].batch : y.seq = x.seq
  <2>1. CASE c = d
    BY <1>1, <2>1, FS_EmptySet DEF Idle, OneEach
  <2>2. CASE c # d
    BY <1>1, <2>2 DEF FlightOK
  <2> QED BY <2>1, <2>2
<1> QED BY <1>3, <1>4 DEF FlightOK, OneEach, Matches

LEMMA ForgottenAsked ==
  ASSUME RequestsOK, NEW d \in Device,
         requests' \in {Forgotten(d), {r \in requests : r.dev # d}}
  PROVE  \A x \in requests' : /\ x \in Requests /\ Asked(x)
                              /\ x.waited => x \in requests /\ x.dev # d
<1> SUFFICES ASSUME NEW x \in requests'
             PROVE  /\ x \in Requests /\ Asked(x)
                    /\ x.waited => x \in requests /\ x.dev # d
  OBVIOUS
<1>1. CASE x \in requests /\ x.dev # d
  BY <1>1 DEF RequestsOK
<1>2. ASSUME NEW r \in requests, x = [r EXCEPT !.waited = FALSE, !.results = {}]
      PROVE  /\ x \in Requests /\ Asked(x)
             /\ x.waited => x \in requests /\ x.dev # d
  <2>1. r \in Requests /\ Asked(r)
    BY DEF RequestsOK
  <2>2. x.results = {} /\ x.dev = r.dev /\ x.todo = r.todo
    BY <1>2, <2>1 DEF Requests
  <2>3. ~ x.waited
    BY <1>2, <2>1 DEF Requests
  <2>4. x \in Requests
    BY <1>2, <2>1 DEF Requests
  <2>5. Asked(x)
    BY <2>1, <2>2, FS_EmptySet DEF Asked
  <2> QED BY <2>3, <2>4, <2>5
<1> QED BY <1>1, <1>2 DEF Forgotten

\* The journal after a batch is over.
LEMMA LandedKeeps ==
  ASSUME ClientInv, NEW d \in Device, NEW F, Stems(F, journal[d]),
         \A x \in F : x.status # "IN_FLIGHT",
         journal' = [journal EXCEPT ![d] = F], flight' = [flight EXCEPT ![d] = Idle],
         UNCHANGED <<local, recorded, backend>>, SnapshotOK', BeliefOK',
         \A x \in requests' : /\ x \in Requests /\ Asked(x)
                              /\ x.waited => x \in requests /\ x.dev # d
  PROVE  ClientInv'
<1>1. UNCHANGED <<binding, work, recorded, server, receipts, accepted>>
  BY DEF local, backend
<1>2. JournalOK'
  BY JournalRewritten DEF ClientInv
<1>3. FlightOK'
  BY FlightLanded DEF ClientInv
<1>4. RequestsOK'
  BY <1>1, RequestsLeft DEF ClientInv
<1>5. LocalOK' /\ ReceiptsOK' /\ Growing'
  BY <1>1 DEF ClientInv, LocalOK, ReceiptsOK, Growing, Told, Matches
<1> QED BY <1>2, <1>3, <1>4, <1>5 DEF ClientInv

\* Whatever is in flight is marked with its batch.
LEMMA NoneInFlight ==
  ASSUME ClientInv, NEW d \in Device, NEW status \in Statuses, status # "IN_FLIGHT"
  PROVE  /\ Stems(Marked(journal[d], flight[d].batch, status), journal[d])
         /\ \A x \in Marked(journal[d], flight[d].batch, status) : x.status # "IN_FLIGHT"
<1>1. journal[d] \in SUBSET Entries /\ OneEach(journal[d])
  BY DEF ClientInv, JournalOK
<1>2. \A y \in journal[d] : y.status = "IN_FLIGHT" => \E b \in flight[d].batch : b.seq = y.seq
  BY DEF ClientInv, FlightOK
<1> DEFINE F == Marked(journal[d], flight[d].batch, status)
<1>3. /\ Stems(F, journal[d])
      /\ \A x \in F : \E y \in journal[d] :
           x.status = IF \E b \in flight[d].batch : b.seq = y.seq THEN status ELSE y.status
  BY <1>1, MarkedStems
<1> HIDE DEF F
<1>4. \A x \in F : x.status # "IN_FLIGHT"
  BY <1>2, <1>3
<1> QED BY <1>3, <1>4 DEF F

LEMMA FailKeeps ==
  ASSUME ClientInv, NEW d \in Device, FailBatch(d)
  PROVE  ClientInv'
<1>1. PICK r \in requests :
        /\ Answered(d, r)
        /\ journal' = [journal EXCEPT ![d] = Marked(@, flight[d].batch, "FAILED")]
        /\ UNCHANGED <<local, recorded, belief, snapshot, backend>>
  BY DEF FailBatch
<1>2. /\ r.dev = d /\ r.waited
      /\ flight' = [flight EXCEPT ![d] = Idle] /\ requests' = requests \ {r}
  BY <1>1 DEF Answered
<1>3. \A x \in requests' : /\ x \in Requests /\ Asked(x)
                           /\ x.waited => x \in requests /\ x.dev # d
  BY <1>2 DEF ClientInv, RequestsOK
<1>4. PICK F : F = Marked(journal[d], flight[d].batch, "FAILED")
  OBVIOUS
<1>5. journal' = [journal EXCEPT ![d] = F]
  BY <1>1, <1>4 DEF ClientInv, JournalOK
<1>6. Stems(F, journal[d]) /\ \A x \in F : x.status # "IN_FLIGHT"
  BY <1>4, NoneInFlight DEF Statuses
<1>7. BeliefOK' /\ SnapshotOK'
  BY <1>1, BeliefsStay DEF ClientInv, SnapshotOK, Told, backend
<1> QED BY <1>1, <1>2, <1>3, <1>5, <1>6, <1>7, LandedKeeps

LEMMA LoseKeeps ==
  ASSUME ClientInv, NEW d \in Device, LoseAnswer(d)
  PROVE  ClientInv'
<1>1. /\ journal' = [journal EXCEPT ![d] = Marked(@, flight[d].batch, "RETRY_WAIT")]
      /\ flight' = [flight EXCEPT ![d] = Idle]
      /\ requests' \in {Forgotten(d), {r \in requests : r.dev # d}}
      /\ UNCHANGED <<local, recorded, belief, snapshot, backend>>
  BY DEF LoseAnswer
<1>2. \A x \in requests' : /\ x \in Requests /\ Asked(x)
                           /\ x.waited => x \in requests /\ x.dev # d
  BY <1>1, ForgottenAsked DEF ClientInv
<1>3. PICK F : F = Marked(journal[d], flight[d].batch, "RETRY_WAIT")
  OBVIOUS
<1>4. journal' = [journal EXCEPT ![d] = F]
  BY <1>1, <1>3 DEF ClientInv, JournalOK
<1>5. Stems(F, journal[d]) /\ \A x \in F : x.status # "IN_FLIGHT"
  BY <1>3, NoneInFlight DEF Statuses, Waiting
<1>6. BeliefOK' /\ SnapshotOK'
  BY <1>1, BeliefsStay DEF ClientInv, SnapshotOK, Told, backend
<1> QED BY <1>1, <1>2, <1>4, <1>5, <1>6, LandedKeeps

LEMMA RestartKeeps ==
  ASSUME ClientInv, NEW d \in Device, Restart(d)
  PROVE  ClientInv'
<1>1. /\ journal' = [journal EXCEPT ![d] = Recovered(@)]
      /\ flight' = [flight EXCEPT ![d] = Idle]
      /\ snapshot' = [snapshot EXCEPT ![d] = None]
      /\ requests' \in {Forgotten(d), {r \in requests : r.dev # d}}
      /\ UNCHANGED <<local, recorded, belief, backend>>
  BY DEF Restart
<1>2. \A x \in requests' : /\ x \in Requests /\ Asked(x)
                           /\ x.waited => x \in requests /\ x.dev # d
  BY <1>1, ForgottenAsked DEF ClientInv
<1>3. PICK F : F = Recovered(journal[d])
  OBVIOUS
<1>4. journal' = [journal EXCEPT ![d] = F]
  BY <1>1, <1>3 DEF ClientInv, JournalOK
<1>5. Stems(F, journal[d]) /\ \A x \in F : x.status # "IN_FLIGHT"
  BY <1>3, RecoveredStems DEF ClientInv, JournalOK
<1>6. SnapshotOK'
  BY <1>1 DEF ClientInv, SnapshotOK, Told, backend
<1>7. BeliefOK'
  BY <1>1, BeliefsStay DEF ClientInv, backend
<1> QED BY <1>1, <1>2, <1>4, <1>5, <1>6, <1>7, LandedKeeps

\* What an answer says of an entry of the journal is what the server told of its
\* conversation.
LEMMA RowTold ==
  ASSUME ClientInv, OneReceiptPerRequest, NEW d \in Device, NEW r \in requests, r.dev = d,
         Valid(d, r)
  PROVE  /\ r.results \in SUBSET Rows /\ IsFiniteSet(r.results) /\ OneEach(r.results)
         /\ \A row \in r.results : \E y \in receipts :
              /\ y.dev = d /\ y.wire.seq = row.seq /\ y.answer.outcome = row.outcome
              /\ y.wire.seq \in Nat
         /\ \A row \in r.results : \E x \in journal[d] :
              x.seq = row.seq /\ Told(x.ent, row.rev, row.state)
<1>1. r \in Requests /\ Asked(r)
  BY DEF ClientInv, RequestsOK
<1>2. r.results \in SUBSET Rows /\ IsFiniteSet(r.results)
  BY <1>1 DEF Requests, Asked
<1>3. ASSUME NEW row \in r.results
      PROVE  \E y \in receipts : y.dev = d /\ row = Row(y.wire.seq, y.answer) /\ y.wire.seq = row.seq
                                 /\ y.answer.outcome = row.outcome /\ y.wire.seq \in Nat
  <2>1. PICK y \in receipts : y.dev = d /\ row = Row(y.wire.seq, y.answer)
    BY <1>1 DEF Asked
  <2>2. y.wire.seq = row.seq /\ y.answer.outcome = row.outcome
    BY <2>1 DEF Row
  <2>3. y.wire.seq \in Nat
    BY DEF ClientInv, ReceiptsOK, Wires
  <2> QED BY <2>1, <2>2, <2>3
<1>4. OneEach(r.results)
  <2> SUFFICES ASSUME NEW w \in r.results, NEW z \in r.results, w.seq = z.seq PROVE w = z
    BY DEF OneEach
  <2>1. PICK a \in receipts : a.dev = d /\ w = Row(a.wire.seq, a.answer) /\ a.wire.seq = w.seq
    BY <1>3
  <2>2. PICK b \in receipts : b.dev = d /\ z = Row(b.wire.seq, b.answer) /\ b.wire.seq = z.seq
    BY <1>3
  <2>3. a = b
    BY <2>1, <2>2 DEF OneReceiptPerRequest
  <2> QED BY <2>1, <2>2, <2>3
<1>5. ASSUME NEW row \in r.results
      PROVE  \E x \in journal[d] : x.seq = row.seq /\ Told(x.ent, row.rev, row.state)
  <2>1. PICK y \in receipts : y.dev = d /\ row = Row(y.wire.seq, y.answer) /\ y.wire.seq = row.seq
    BY <1>3
  <2>2. PICK x \in journal[d] : x.seq = row.seq
    BY DEF Valid
  <2>3. Matches(d, x) /\ Matches(d, y.wire) /\ Told(y.wire.ent, y.answer.rev, y.answer.state)
    BY <2>1 DEF ClientInv, JournalOK, ReceiptsOK
  <2>4. x.ent = y.wire.ent
    BY <2>1, <2>2, <2>3 DEF Matches
  <2>5. row.rev = y.answer.rev /\ row.state = y.answer.state
    BY <2>1 DEF Row
  <2> QED BY <2>2, <2>3, <2>4, <2>5
<1> QED BY <1>2, <1>3, <1>4, <1>5

\* An answer, applied.
LEMMA AnswerTaken ==
  ASSUME ClientInv, Inv, OneReceiptPerRequest, NEW d \in Device, NEW r \in requests,
         Answered(d, r), Valid(d, r)
  PROVE  /\ Projection(d) \in Projections
         /\ Taken(r.results, Projection(d), Applied(InOrder(r.results), Projection(d)))
<1> DEFINE p == Projection(d)
<1>1. p \in Projections
  <2>1. journal[d] \in SUBSET Entries
    BY DEF ClientInv, JournalOK
  <2>2. /\ known[d] \in [Conversation -> Nat]
        /\ truth[d] \in [Conversation -> Contents \cup {None}]
        /\ verdict[d] \in [Conversation -> Verdicts]
    BY DEF ClientInv, BeliefOK
  <2> QED BY <2>1, <2>2 DEF Projection, Projections
<1>2. /\ p.entries = journal[d] /\ p.known = known[d] /\ p.truth = truth[d]
      /\ p.verdict = verdict[d]
  BY DEF Projection
<1>3. r.dev = d
  BY DEF Answered
<1> HIDE DEF p
<1>4. HeldBy(p)
  BY <1>2 DEF HeldBy, ClientInv, BeliefOK
<1>5. OneEach(p.entries)
  BY <1>2 DEF ClientInv, JournalOK
<1>6. /\ r.results \in SUBSET Rows /\ IsFiniteSet(r.results) /\ OneEach(r.results)
      /\ \A row \in r.results : \E x \in p.entries :
           x.seq = row.seq /\ Told(x.ent, row.rev, row.state)
  BY <1>2, <1>3, RowTold
<1>7. Taken(r.results, p, Applied(InOrder(r.results), p))
  BY <1>1, <1>4, <1>5, <1>6, AnswerApplied DEF ClientInv
<1> QED BY <1>1, <1>7 DEF p

LEMMA ApplyKeeps ==
  ASSUME ClientInv, Inv, OneReceiptPerRequest, NEW d \in Device, ApplyAnswer(d)
  PROVE  ClientInv'
<1>1. PICK r \in requests :
        /\ Answered(d, r)
        /\ Valid(d, r)
        /\ LET p == Applied(InOrder(r.results), Projection(d))
           IN /\ journal' = [journal EXCEPT ![d] = p.entries]
              /\ known' = [known EXCEPT ![d] = p.known]
              /\ truth' = [truth EXCEPT ![d] = p.truth]
              /\ verdict' = [verdict EXCEPT ![d] = p.verdict]
        /\ UNCHANGED <<local, recorded, snapshot, backend>>
  BY DEF ApplyAnswer
<1>2. PICK p : p = Projection(d)
  OBVIOUS
<1>3. PICK q : q = Applied(InOrder(r.results), p)
  OBVIOUS
<1>4. p \in Projections /\ Taken(r.results, p, q)
  BY <1>1, <1>2, <1>3, AnswerTaken
<1>5. /\ journal' = [journal EXCEPT ![d] = q.entries]
      /\ known' = [known EXCEPT ![d] = q.known]
      /\ truth' = [truth EXCEPT ![d] = q.truth]
      /\ verdict' = [verdict EXCEPT ![d] = q.verdict]
      /\ p.entries = journal[d]
  BY <1>1, <1>2, <1>3 DEF Projection
<1>6. /\ r.dev = d /\ r.waited /\ r.todo = <<>>
      /\ flight' = [flight EXCEPT ![d] = Idle] /\ requests' = requests \ {r}
  BY <1>1 DEF Answered
<1>7. \A x \in requests' : /\ x \in Requests /\ Asked(x)
                           /\ x.waited => x \in requests /\ x.dev # d
  BY <1>6 DEF ClientInv, RequestsOK
<1>8. Stems(q.entries, journal[d])
  BY <1>4, <1>5 DEF Taken, Stems, Kin, Projections
<1>9. \A x \in q.entries : x.status # "IN_FLIGHT"
  <2> SUFFICES ASSUME NEW x \in q.entries, x.status = "IN_FLIGHT" PROVE FALSE
    OBVIOUS
  <2>1. PICK y \in journal[d] : Kin(x, y)
    BY <1>4, <1>5 DEF Taken
  <2>2. PICK b \in flight[d].batch : b.seq = y.seq
    BY <2>1 DEF Kin, ClientInv, FlightOK
  <2>3. Covers(r, flight[d].batch)
    BY <1>1, <1>6 DEF Valid, ClientInv, RequestsOK
  <2>4. PICK row \in r.results : row.seq = b.seq
    BY <1>6, <2>3 DEF Covers
  <2>5. x.status = "CONFLICT"
    BY <1>4, <2>1, <2>2, <2>4 DEF Taken, Kin
  <2> QED BY <2>5
<1>10. BeliefOK'
  <2>1. /\ known'[d] = q.known /\ truth'[d] = q.truth /\ verdict'[d] = q.verdict
        /\ \A c \in Device : c # d => known'[c] = known[c] /\ truth'[c] = truth[c] /\ verdict'[c] = verdict[c]
    BY <1>5 DEF ClientInv, BeliefOK
  <2>2. q \in Projections /\ HeldBy(q)
    BY <1>4 DEF Taken
  <2>3. /\ q.known \in [Conversation -> Nat]
        /\ q.truth \in [Conversation -> Contents \cup {None}]
        /\ q.verdict \in [Conversation -> Verdicts]
    BY <2>2 DEF Projections
  <2>4. /\ known' \in [Device -> [Conversation -> Nat]]
        /\ truth' \in [Device -> [Conversation -> Contents \cup {None}]]
        /\ verdict' \in [Device -> [Conversation -> Verdicts]]
    BY <1>5, <2>3 DEF ClientInv, BeliefOK
  <2>5. accepted' = accepted
    BY <1>1 DEF backend
  <2>6. \A c \in Device, e \in Conversation :
          Held(e, known[c][e], truth[c][e], verdict[c][e].state)'
    <3> SUFFICES ASSUME NEW c \in Device, NEW e \in Conversation
                 PROVE  Held(e, known[c][e], truth[c][e], verdict[c][e].state)'
      OBVIOUS
    <3>1. PICK k, t, v : k = known'[c][e] /\ t = truth'[c][e] /\ v = verdict'[c][e].state
      OBVIOUS
    <3>2. Held(e, k, t, v)
      <4>1. CASE c = d
        BY <2>1, <2>2, <3>1, <4>1 DEF HeldBy
      <4>2. CASE c # d
        BY <2>1, <3>1, <4>2 DEF ClientInv, BeliefOK
      <4> QED BY <4>1, <4>2
    <3> QED BY <2>5, <3>1, <3>2 DEF Held
  <2> QED BY <2>4, <2>6 DEF BeliefOK
<1>11. SnapshotOK'
  BY <1>1 DEF ClientInv, SnapshotOK, Told, backend
<1>12. PICK F : F = q.entries
  OBVIOUS
<1> QED BY <1>1, <1>5, <1>6, <1>7, <1>8, <1>9, <1>10, <1>11, <1>12, LandedKeeps

--------------------------------------------------------------------------------
\* Snapshots and revocations.

\* What a step leaves alone when it touches only the snapshots.
LEMMA SnapshotsOnly ==
  ASSUME ClientInv, UNCHANGED <<local, client, flight, backend, requests>>
  PROVE  /\ LocalOK' /\ JournalOK' /\ FlightOK' /\ ReceiptsOK' /\ RequestsOK'
         /\ BeliefOK' /\ Growing'
<1>1. UNCHANGED <<binding, work, journal, recorded, flight, server, receipts, accepted, requests>>
  BY DEF local, client, backend
<1>2. LocalOK' /\ JournalOK' /\ FlightOK'
  BY <1>1 DEF ClientInv, LocalOK, JournalOK, FlightOK, Matches
<1>3. ReceiptsOK' /\ RequestsOK' /\ Growing'
  BY <1>1 DEF ClientInv, ReceiptsOK, RequestsOK, Growing, Told, Matches, Asked, Covers
<1>4. BeliefOK'
  BY BeliefsStay DEF ClientInv, client, backend
<1> QED BY <1>2, <1>3, <1>4

LEMMA ReadKeeps ==
  ASSUME ClientInv, Inv, NEW d \in Device, NEW e \in Conversation, ReadSnapshot(d, e)
  PROVE  ClientInv'
<1>1. PICK s : s = [ent |-> e, sequence |-> Len(recorded[d]), local |-> binding[d][e],
                    work |-> work[d][e] # "none", rev |-> server[e].rev, state |-> server[e].state]
  OBVIOUS
<1>2. /\ snapshot' = [snapshot EXCEPT ![d] = s]
      /\ UNCHANGED <<local, client, flight, backend, requests>>
  BY <1>1 DEF ReadSnapshot
<1>3. /\ Len(recorded[d]) \in Nat
      /\ binding[d][e] \in Contents \cup {None}
      /\ server[e].rev \in Nat /\ server[e].state \in Contents \cup {None}
  BY EntityFacts DEF ClientInv, JournalOK, LocalOK
<1>4. s \in Snapshots
  BY <1>1, <1>3 DEF Snapshots
<1>5. Told(s.ent, s.rev, s.state)
  <2>1. /\ server[e].rev = Len(accepted[e]) /\ accepted[e] \in Seq(Receipted)
        /\ server[e].state = IF accepted[e] = <<>> THEN None
                             ELSE accepted[e][Len(accepted[e])].content
    BY EntityFacts
  <2>2. s.ent = e /\ s.rev = Len(accepted[e]) /\ s.state = server[e].state
    BY <1>1, <2>1
  <2>3. Len(accepted[e]) \in Nat /\ (accepted[e] = <<>> <=> Len(accepted[e]) = 0)
    BY <2>1
  <2> QED BY <2>1, <2>2, <2>3 DEF Told
<1>6. SnapshotOK'
  <2>1. accepted' = accepted
    BY <1>2 DEF backend
  <2>2. /\ DOMAIN snapshot' = Device
        /\ snapshot'[d] = s /\ \A c \in Device : c # d => snapshot'[c] = snapshot[c]
    BY <1>2 DEF ClientInv, SnapshotOK
  <2> QED BY <1>4, <1>5, <2>1, <2>2 DEF ClientInv, SnapshotOK, Told
<1> QED BY <1>2, <1>6, SnapshotsOnly DEF ClientInv

LEMMA DropKeeps ==
  ASSUME ClientInv, NEW d \in Device, DropSnapshot(d)
  PROVE  ClientInv'
<1>1. /\ snapshot' = [snapshot EXCEPT ![d] = None]
      /\ UNCHANGED <<local, client, flight, backend, requests>>
  BY DEF DropSnapshot
<1>2. SnapshotOK'
  BY <1>1 DEF ClientInv, SnapshotOK, Told, backend
<1> QED BY <1>1, <1>2, SnapshotsOnly DEF ClientInv

LEMMA RevokeKeeps ==
  ASSUME ClientInv, NEW d \in Device, Revoke(d)
  PROVE  ClientInv'
<1>1. UNCHANGED <<local, client, memory, server, receipts, accepted, requests>>
  BY DEF Revoke
<1>2. UNCHANGED <<binding, work, journal, recorded, flight, snapshot, server, receipts, accepted,
                  requests>>
  BY <1>1 DEF local, client, memory
<1>3. LocalOK' /\ JournalOK' /\ FlightOK'
  BY <1>2 DEF ClientInv, LocalOK, JournalOK, FlightOK, Matches
<1>4. ReceiptsOK' /\ RequestsOK' /\ Growing'
  BY <1>2 DEF ClientInv, ReceiptsOK, RequestsOK, Growing, Told, Matches, Asked, Covers
<1>5. SnapshotOK'
  BY <1>2 DEF ClientInv, SnapshotOK, Told
<1>6. BeliefOK'
  BY <1>1, BeliefsStay DEF ClientInv, client
<1> QED BY <1>3, <1>4, <1>5, <1>6 DEF ClientInv

\* A snapshot that is applied becomes the belief, or the step changes nothing of it.
LEMMA SnapshotApplied ==
  ASSUME ClientInv, NEW d \in Device, ApplySnapshot(d)
  PROVE  \/ UNCHANGED <<known, truth, verdict>>
         \/ \E s \in Snapshots, f \in BOOLEAN :
              /\ Told(s.ent, s.rev, s.state) /\ s.rev >= known[d][s.ent]
              /\ known' = [known EXCEPT ![d][s.ent] = s.rev]
              /\ truth' = [truth EXCEPT ![d][s.ent] = s.state]
              /\ verdict' = [verdict EXCEPT ![d][s.ent] = [fences |-> f, state |-> s.state]]
<1>1. PICK s \in Snapshots : s = snapshot[d] /\ Told(s.ent, s.rev, s.state)
  BY DEF ApplySnapshot, ClientInv, SnapshotOK
<1>2. CASE UNCHANGED <<known, truth, verdict>>
  BY <1>2
<1>3. CASE /\ known' = [known EXCEPT ![d][s.ent] = s.rev]
           /\ truth' = [truth EXCEPT ![d][s.ent] = s.state]
           /\ verdict' = [verdict EXCEPT ![d][s.ent] =
                [fences |-> SnapshotFences(s.local, s.work, s.state), state |-> s.state]]
  <2>1. SnapshotFences(s.local, s.work, s.state) \in BOOLEAN
    BY DEF SnapshotFences
  <2>2. ~ (s.rev < known[d][s.ent])
    BY <1>1 DEF ApplySnapshot, SnapshotStale
  <2>3. s.rev \in Nat /\ known[d][s.ent] \in Nat
    BY <1>1 DEF Snapshots, ClientInv, BeliefOK
  <2>4. PICK f \in BOOLEAN : f = SnapshotFences(s.local, s.work, s.state)
    BY <2>1
  <2>5. s.rev >= known[d][s.ent]
    BY <2>2, <2>3
  <2>6. verdict' = [verdict EXCEPT ![d][s.ent] = [fences |-> f, state |-> s.state]]
    BY <1>3, <2>4
  <2> QED BY <1>1, <1>3, <2>5, <2>6
<1> QED BY <1>1, <1>2, <1>3 DEF ApplySnapshot, belief

LEMMA AdoptKeeps ==
  ASSUME ClientInv, NEW d \in Device, ApplySnapshot(d)
  PROVE  ClientInv'
<1>1. PICK s \in Snapshots : s = snapshot[d] /\ Told(s.ent, s.rev, s.state)
  BY DEF ApplySnapshot, ClientInv, SnapshotOK
<1>2. /\ snapshot' = [snapshot EXCEPT ![d] = None]
      /\ UNCHANGED <<work, journal, recorded, flight, backend, requests>>
      /\ \/ binding' = binding
         \/ /\ s.state # None
            /\ binding' = [binding EXCEPT ![d][s.ent] = [s.state EXCEPT !.fin = FALSE]]
  BY <1>1 DEF ApplySnapshot
<1>3. UNCHANGED <<server, receipts, accepted>>
  BY <1>2 DEF backend
<1>4. LocalOK'
  <2>1. CASE binding' = binding
    BY <1>2, <2>1 DEF ClientInv, LocalOK
  <2>2. CASE /\ s.state # None
             /\ binding' = [binding EXCEPT ![d][s.ent] = [s.state EXCEPT !.fin = FALSE]]
    <3>1. PICK c : c = [s.state EXCEPT !.fin = FALSE]
      OBVIOUS
    <3>2. s.state \in Contents /\ s.ent \in Conversation
      BY <2>2 DEF Snapshots
    <3>3. c \in Contents /\ c # None
      BY <3>1, <3>2, NoBindingIsNone DEF Contents
    <3>4. binding' = [binding EXCEPT ![d][s.ent] = c]
      BY <2>2, <3>1
    <3>5. binding' \in [Device -> [Conversation -> Contents \cup {None}]]
      BY <3>2, <3>3, <3>4 DEF ClientInv, LocalOK
    <3>6. \A a \in Device, e \in Conversation : work[a][e] = "on" => binding'[a][e] # None
      BY <3>2, <3>3, <3>4 DEF ClientInv, LocalOK
    <3> QED BY <1>2, <3>5, <3>6 DEF ClientInv, LocalOK
  <2> QED BY <1>2, <2>1, <2>2
<1>5. JournalOK' /\ FlightOK'
  BY <1>2 DEF ClientInv, JournalOK, FlightOK, Matches
<1>6. ReceiptsOK' /\ RequestsOK' /\ Growing'
  BY <1>2, <1>3 DEF ClientInv, ReceiptsOK, RequestsOK, Growing, Told, Matches, Asked, Covers
<1>7. SnapshotOK'
  BY <1>2, <1>3 DEF ClientInv, SnapshotOK, Told
<1>8. BeliefOK'
  <2>1. CASE UNCHANGED <<known, truth, verdict>>
    BY <1>3, <2>1, BeliefsStay DEF ClientInv, belief
  <2>2. ASSUME NEW z \in Snapshots, NEW f \in BOOLEAN,
               Told(z.ent, z.rev, z.state), z.rev >= known[d][z.ent],
               known' = [known EXCEPT ![d][z.ent] = z.rev],
               truth' = [truth EXCEPT ![d][z.ent] = z.state],
               verdict' = [verdict EXCEPT ![d][z.ent] = [fences |-> f, state |-> z.state]]
        PROVE  BeliefOK'
    <3>1. z.ent \in Conversation /\ z.rev \in Nat /\ z.state \in Contents \cup {None}
      BY DEF Snapshots
    <3>2. PICK v : v = [fences |-> f, state |-> z.state]
      OBVIOUS
    <3>3. v \in Verdicts /\ v.state = z.state
      BY <3>1, <3>2 DEF Verdicts
    <3>4. /\ known' \in [Device -> [Conversation -> Nat]]
          /\ truth' \in [Device -> [Conversation -> Contents \cup {None}]]
          /\ verdict' \in [Device -> [Conversation -> Verdicts]]
      BY <2>2, <3>1, <3>2, <3>3 DEF ClientInv, BeliefOK
    <3>5. ASSUME NEW c \in Device, NEW e \in Conversation
          PROVE  Held(e, known[c][e], truth[c][e], verdict[c][e].state)'
      <4>1. CASE c = d /\ e = z.ent
        <5>1. known'[c][e] = z.rev /\ truth'[c][e] = z.state /\ verdict'[c][e] = v
          BY <2>2, <3>1, <3>2, <4>1 DEF ClientInv, BeliefOK
        <5>2. z.rev <= Len(accepted[e])
          BY <2>2, <4>1 DEF Told
        <5>3. z.state # None => z.rev \in 1 .. z.rev /\ z.rev \in 1 .. Len(accepted[e])
                                /\ accepted[e][z.rev].content = z.state
          <6>1. z.state # None => z.rev \in 1 .. Len(accepted[e])
                                  /\ accepted[e][z.rev].content = z.state
            BY <2>2, <3>1, <4>1, ToldIs
          <6> QED BY <3>1, <6>1
        <5> QED BY <1>3, <3>3, <5>1, <5>2, <5>3 DEF Held
      <4>2. CASE ~ (c = d /\ e = z.ent)
        <5>1. /\ known'[c][e] = known[c][e] /\ truth'[c][e] = truth[c][e]
              /\ verdict'[c][e] = verdict[c][e]
          BY <2>2, <3>1, <3>2, <4>2 DEF ClientInv, BeliefOK
        <5>2. Held(e, known[c][e], truth[c][e], verdict[c][e].state)
          BY DEF ClientInv, BeliefOK
        <5> QED BY <1>3, <5>1, <5>2 DEF Held
      <4> QED BY <4>1, <4>2
    <3> QED BY <3>4, <3>5 DEF BeliefOK
  <2> QED BY <2>1, <2>2, SnapshotApplied
<1> QED BY <1>4, <1>5, <1>6, <1>7, <1>8 DEF ClientInv

--------------------------------------------------------------------------------
LEMMA ClientInit == Init => ClientInv
<1> SUFFICES ASSUME Init PROVE ClientInv
  OBVIOUS
<1>1. LocalOK
  BY DEF Init, LocalOK
<1>2. JournalOK
  <2>1. IsFiniteSet({}) /\ Cardinality({}) <= MaxEntries
    BY FS_EmptySet, JournalBounds
  <2>2. recorded \in [Device -> Seq(Entries)] /\ journal \in [Device -> SUBSET Entries]
    BY DEF Init
  <2> QED BY <2>1, <2>2 DEF Init, JournalOK, OneEach
<1>3. FlightOK
  <2>1. Idle \in [phase: {"idle", "chosen", "sent"}, batch: SUBSET Entries]
    BY DEF Idle
  <2>2. flight \in [Device -> [phase: {"idle", "chosen", "sent"}, batch: SUBSET Entries]]
    BY <2>1 DEF Init
  <2>3. \A d \in Device : flight[d].phase = "idle" /\ flight[d].batch = {} /\ journal[d] = {}
    BY DEF Init, Idle
  <2> QED BY <2>2, <2>3, FS_EmptySet DEF FlightOK, OneEach
<1>4. ReceiptsOK /\ RequestsOK
  BY DEF Init, ReceiptsOK, RequestsOK
<1>5. SnapshotOK
  BY DEF Init, SnapshotOK
<1>6. BeliefOK
  <2>1. [fences |-> FALSE, state |-> None] \in Verdicts
    BY DEF Verdicts
  <2>2. /\ known \in [Device -> [Conversation -> Nat]]
        /\ truth \in [Device -> [Conversation -> Contents \cup {None}]]
        /\ verdict \in [Device -> [Conversation -> Verdicts]]
    BY <2>1 DEF Init
  <2>3. \A d \in Device, e \in Conversation :
          /\ known[d][e] = 0 /\ truth[d][e] = None /\ verdict[d][e].state = None
          /\ Len(accepted[e]) = 0
    BY DEF Init
  <2> QED BY <2>2, <2>3 DEF BeliefOK, Held
<1>7. Growing
  BY DEF Init, Growing
<1> QED BY <1>1, <1>2, <1>3, <1>4, <1>5, <1>6, <1>7 DEF ClientInv

LEMMA ClientNext ==
  ASSUME ClientInv, Inv, OneReceiptPerRequest, [Next]_vars
  PROVE  ClientInv'
<1>1. CASE UNCHANGED vars
  <2>1. UNCHANGED <<local, client, flight, backend, requests, snapshot>>
    BY <1>1 DEF vars, memory
  <2>2. SnapshotOK'
    BY <2>1 DEF ClientInv, SnapshotOK, Told, backend
  <2> QED BY <2>1, <2>2, SnapshotsOnly DEF ClientInv
<1>2. ASSUME NEW d \in Device, NEW e \in Conversation,
             (\E s \in Shop : Bind(d, e, s)) \/ Finish(d, e) \/ Deliver(d, e) \/ ReadSnapshot(d, e)
      PROVE  ClientInv'
  BY <1>2, BindKeeps, FinishKeeps, DeliverKeeps, ReadKeeps
<1>3. ASSUME NEW d \in Device, Serve(d) PROVE ClientInv'
  BY <1>3, RefusedKeeps, RepeatedKeeps, NewKeeps DEF Serve
<1>4. ASSUME NEW d \in Device, Select(d) \/ Send(d) PROVE ClientInv'
  BY <1>4, SelectKeeps, SendKeeps
<1>5. ASSUME NEW d \in Device, ApplyAnswer(d) \/ FailBatch(d) PROVE ClientInv'
  BY <1>5, ApplyKeeps, FailKeeps
<1>6. ASSUME NEW d \in Device, LoseAnswer(d) \/ Restart(d) \/ Revoke(d) PROVE ClientInv'
  BY <1>6, LoseKeeps, RestartKeeps, RevokeKeeps
<1>7. ASSUME NEW d \in Device, DropSnapshot(d) \/ ApplySnapshot(d) PROVE ClientInv'
  BY <1>7, DropKeeps, AdoptKeeps
<1> QED BY <1>1, <1>2, <1>3, <1>4, <1>5, <1>6, <1>7 DEF Next

\* In every reachable state the journals hold entries that were recorded, whatever is in
\* flight is of the batch its installation waits for, the request it waits for covers
\* that batch, and what it believes, or is about to, the server told it.
THEOREM ClientInvariance == Spec => []ClientInv
  BY ClientInit, ClientNext, Invariance, ReceiptIsFinal, PTL DEF Spec

--------------------------------------------------------------------------------
LEMMA ActiveNext == active \subseteq Device /\ Inv /\ [Next]_vars => (active \subseteq Device)'
<1> SUFFICES ASSUME active \subseteq Device, Inv, [Next]_vars PROVE active' \subseteq Device
  OBVIOUS
<1>1. ASSUME NEW r \in requests, ServeNew(r) PROVE active' = active
  BY <1>1 DEF ServeNew
<1>2. ASSUME NEW d \in Device, Revoke(d) PROVE active' \subseteq active
  BY <1>2 DEF Revoke
<1> QED BY <1>1, <1>2, OtherSteps DEF backend

LEMMA TypeFollows ==
  ASSUME ClientInv, Inv, active \subseteq Device
  PROVE  TypeOK
<1>1. ASSUME NEW x \in Entries PROVE Wire(x) \in Wires /\ x.status \in Statuses
  BY DEF Entries, Wire, Wires
<1>2. ASSUME NEW d \in Device
      PROVE  /\ \A x \in journal[d] :
                  /\ Wire(x) \in Wires
                  /\ x.status \in Waiting \cup {"IN_FLIGHT", "CONFLICT", "FAILED"}
                  /\ x.status = "IN_FLIGHT" => flight[d].phase = "sent"
             /\ Cardinality(journal[d]) <= MaxEntries
             /\ flight[d].phase \in {"idle", "chosen", "sent"}
             /\ flight[d].phase = "idle" <=> flight[d].batch = {}
             /\ \A n \in 1 .. Len(recorded[d]) : Wire(recorded[d][n]) \in Wires
  <2>1. journal[d] \subseteq Entries /\ recorded[d] \in Seq(Entries)
    BY DEF ClientInv, JournalOK
  <2>2. \A x \in journal[d] : Wire(x) \in Wires /\ x.status \in Waiting \cup {"IN_FLIGHT", "CONFLICT", "FAILED"}
    BY <1>1, <2>1 DEF Statuses
  <2>3. \A n \in 1 .. Len(recorded[d]) : Wire(recorded[d][n]) \in Wires
    BY <1>1, <2>1
  <2>4. /\ \A x \in journal[d] : x.status = "IN_FLIGHT" => flight[d].phase = "sent"
        /\ flight[d].phase \in {"idle", "chosen", "sent"}
        /\ flight[d].phase = "idle" <=> flight[d].batch = {}
    BY DEF ClientInv, FlightOK
  <2>5. Cardinality(journal[d]) <= MaxEntries
    BY DEF ClientInv, JournalOK
  <2> QED BY <2>2, <2>3, <2>4, <2>5
<1>3. server \in [Conversation -> [rev: Nat, state: Contents \cup {None}]]
  <2>1. \A e \in Conversation : EntityOf(accepted[e]) \in [rev: Nat, state: Contents \cup {None}]
    <3> SUFFICES ASSUME NEW e \in Conversation
                 PROVE  EntityOf(accepted[e]) \in [rev: Nat, state: Contents \cup {None}]
      OBVIOUS
    <3>1. /\ server[e].rev \in Nat /\ server[e].state \in Contents \cup {None}
          /\ server[e] = EntityOf(accepted[e])
      BY EntityFacts DEF Inv
    <3> QED BY <3>1 DEF EntityOf
  <2> QED BY <2>1 DEF Inv
<1>4. /\ binding \in [Device -> [Conversation -> Contents \cup {None}]]
      /\ work \in [Device -> [Conversation -> {"none", "on", "over"}]]
  BY DEF ClientInv, LocalOK
<1>5. /\ known \in [Device -> [Conversation -> Nat]]
      /\ truth \in [Device -> [Conversation -> Contents \cup {None}]]
      /\ verdict \in [Device -> [Conversation -> [fences: BOOLEAN, state: Contents \cup {None}]]]
  BY DEF ClientInv, BeliefOK, Verdicts
<1>6. receipts \subseteq [dev: Device, wire: Wires, answer: Answers]
  BY DEF ClientInv, ReceiptsOK
<1> QED BY <1>2, <1>3, <1>4, <1>5, <1>6 DEF TypeOK

\* Every variable has the form of the code's records; an entry is in flight only while
\* its worker waits for the answer, and no journal outgrows MAX_ENTRIES.
THEOREM TypeCorrect == Spec => []TypeOK
<1>1. Init => active \subseteq Device
  BY DEF Init
<1>2. ClientInv /\ Inv /\ active \subseteq Device => TypeOK
  BY TypeFollows
<1>3. Spec => [](active \subseteq Device)
  BY <1>1, ActiveNext, Invariance, PTL DEF Spec
<1> QED BY <1>2, <1>3, ClientInvariance, Invariance, PTL

--------------------------------------------------------------------------------
\* What an installation believes of a conversation, and the state that fences its
\* actions, are states the server had, at the latest at the revision believed.
THEOREM BeliefServed == Spec => []BeliefWasServed
<1>1. ASSUME ClientInv, Inv PROVE BeliefWasServed
  <2> SUFFICES ASSUME NEW d \in Device, NEW e \in Conversation
               PROVE  /\ known[d][e] <= server[e].rev
                      /\ truth[d][e] # None =>
                           \E n \in 1 .. known[d][e] : accepted[e][n].content = truth[d][e]
                      /\ verdict[d][e].state # None =>
                           \E n \in 1 .. Len(accepted[e]) : accepted[e][n].content = verdict[d][e].state
    BY DEF BeliefWasServed
  <2>1. Held(e, known[d][e], truth[d][e], verdict[d][e].state)
    BY <1>1 DEF ClientInv, BeliefOK
  <2>2. server[e].rev = Len(accepted[e])
    BY <1>1, EntityFacts
  <2> QED BY <2>1, <2>2 DEF Held
<1> QED BY <1>1, ClientInvariance, Invariance, PTL

LEMMA BeliefMoves ==
  ASSUME ClientInv, Inv, OneReceiptPerRequest, [Next]_vars,
         NEW d \in Device, NEW e \in Conversation
  PROVE  /\ known'[d][e] >= known[d][e]
         /\ truth'[d][e] # truth[d][e] /\ truth[d][e] # None =>
              truth'[d][e] # None /\ truth'[d][e].rev > truth[d][e].rev
<1> DEFINE Goal == /\ known'[d][e] >= known[d][e]
                   /\ truth'[d][e] # truth[d][e] /\ truth[d][e] # None =>
                        truth'[d][e] # None /\ truth'[d][e].rev > truth[d][e].rev
<1>1. ASSUME UNCHANGED <<known, truth>> PROVE Goal
  <2>1. known[d][e] \in Nat
    BY DEF ClientInv, BeliefOK
  <2> QED BY <1>1, <2>1
<1>2. ASSUME NEW c \in Device, ApplyAnswer(c) PROVE Goal
  <2>1. PICK r \in requests :
          /\ Answered(c, r)
          /\ Valid(c, r)
          /\ LET p == Applied(InOrder(r.results), Projection(c))
             IN known' = [known EXCEPT ![c] = p.known] /\ truth' = [truth EXCEPT ![c] = p.truth]
    BY <1>2 DEF ApplyAnswer
  <2>2. PICK p : p = Projection(c)
    OBVIOUS
  <2>3. PICK q : q = Applied(InOrder(r.results), p)
    OBVIOUS
  <2>4. Taken(r.results, p, q)
    BY <2>1, <2>2, <2>3, AnswerTaken
  <2>5. known' = [known EXCEPT ![c] = q.known] /\ truth' = [truth EXCEPT ![c] = q.truth]
    BY <2>1, <2>2, <2>3
  <2>6. p.known = known[c] /\ p.truth = truth[c]
    BY <2>2 DEF Projection
  <2>7. CASE c = d
    <3>1. known'[d] = q.known /\ truth'[d] = q.truth
      BY <2>5, <2>7 DEF ClientInv, BeliefOK
    <3> QED BY <2>4, <2>6, <2>7, <3>1 DEF Taken, Forward
  <2>8. CASE c # d
    <3>1. known'[d] = known[d] /\ truth'[d] = truth[d] /\ known[d][e] \in Nat
      BY <2>5, <2>8 DEF ClientInv, BeliefOK
    <3> QED BY <3>1
  <2> HIDE DEF Goal
  <2> QED BY <2>7, <2>8
<1>3. ASSUME NEW c \in Device, ApplySnapshot(c) PROVE Goal
  <2>1. CASE UNCHANGED <<known, truth, verdict>>
    BY <1>1, <2>1
  <2>2. ASSUME NEW s \in Snapshots, Told(s.ent, s.rev, s.state), s.rev >= known[c][s.ent],
               known' = [known EXCEPT ![c][s.ent] = s.rev],
               truth' = [truth EXCEPT ![c][s.ent] = s.state]
        PROVE  Goal
    <3>1. s.ent \in Conversation /\ s.rev \in Nat
      BY DEF Snapshots
    <3>2. CASE c = d /\ s.ent = e
      <4>1. known'[d][e] = s.rev /\ truth'[d][e] = s.state
        BY <2>2, <3>1, <3>2 DEF ClientInv, BeliefOK
      <4>2. Held(e, known[d][e], truth[d][e], verdict[d][e].state) /\ known[d][e] \in Nat
        BY DEF ClientInv, BeliefOK
      <4>3. ASSUME truth[d][e] # None
            PROVE  s.state # None /\ (s.state # truth[d][e] => s.state.rev > truth[d][e].rev)
        <5>1. PICK k, t, v : k = known[d][e] /\ t = truth[d][e] /\ v = verdict[d][e].state
          OBVIOUS
        <5>2. Growing
          BY DEF ClientInv
        <5> QED BY <2>2, <3>1, <3>2, <4>2, <4>3, <5>1, <5>2, ToldForward
      <4> QED BY <2>2, <3>2, <4>1, <4>3
    <3>3. CASE ~ (c = d /\ s.ent = e)
      <4>1. known'[d][e] = known[d][e] /\ truth'[d][e] = truth[d][e] /\ known[d][e] \in Nat
        BY <2>2, <3>1, <3>3 DEF ClientInv, BeliefOK
      <4> QED BY <4>1
    <3> HIDE DEF Goal
    <3> QED BY <3>2, <3>3
  <2> HIDE DEF Goal
  <2> QED BY <1>3, <2>1, <2>2, SnapshotApplied
<1>4. ASSUME NEW c \in Device, Serve(c) PROVE Goal
  <2>1. UNCHANGED <<known, truth>>
    BY <1>4 DEF Serve, ServeRefused, ServeRepeated, ServeNew, client, belief
  <2> HIDE DEF Goal
  <2> QED BY <1>1, <2>1
<1>5. ASSUME NEW c \in Device, Select(c) \/ Send(c) \/ FailBatch(c) \/ LoseAnswer(c) \/ Restart(c)
      PROVE  Goal
  <2>1. UNCHANGED <<known, truth>>
    BY <1>5 DEF Select, Send, FailBatch, LoseAnswer, Restart, client, belief
  <2> HIDE DEF Goal
  <2> QED BY <1>1, <2>1
<1>6. ASSUME NEW c \in Device, Revoke(c) \/ DropSnapshot(c) PROVE Goal
  <2>1. UNCHANGED <<known, truth>>
    BY <1>6 DEF Revoke, DropSnapshot, client, belief
  <2> HIDE DEF Goal
  <2> QED BY <1>1, <2>1
<1>7. ASSUME NEW c \in Device, NEW f \in Conversation,
             (\E s \in Shop : Bind(c, f, s)) \/ Finish(c, f) \/ Deliver(c, f) \/ ReadSnapshot(c, f)
      PROVE  Goal
  <2>1. UNCHANGED <<known, truth>>
    BY <1>7 DEF Bind, Finish, Deliver, ReadSnapshot, Record, client, belief
  <2> HIDE DEF Goal
  <2> QED BY <1>1, <2>1
<1>8. ASSUME UNCHANGED vars PROVE Goal
  <2>1. UNCHANGED <<known, truth>>
    BY <1>8 DEF vars, client, belief
  <2> HIDE DEF Goal
  <2> QED BY <1>1, <2>1
<1> HIDE DEF Goal
<1>9. Goal
  BY <1>1, <1>2, <1>3, <1>4, <1>5, <1>6, <1>7, <1>8 DEF Next
<1> QED BY <1>9 DEF Goal

\* The belief of an installation only moves forward, though answers, repeated answers
\* and snapshots reach it in any order.
THEOREM BeliefMovesForward == Spec => BeliefForward
<1>1. ClientInv /\ Inv /\ OneReceiptPerRequest /\ [Next]_vars
        => [\A d \in Device, e \in Conversation :
              /\ known'[d][e] >= known[d][e]
              /\ truth'[d][e] # truth[d][e] /\ truth[d][e] # None =>
                   truth'[d][e] # None /\ truth'[d][e].rev > truth[d][e].rev]_vars
  BY BeliefMoves
<1> QED BY <1>1, ClientInvariance, Invariance, ReceiptIsFinal, PTL DEF Spec, BeliefForward

--------------------------------------------------------------------------------
\* The latest change.

Below == \A d \in Device : Cardinality(journal[d]) < MaxEntries

\* A later explicit change of its conversation took the place of a recorded one, or it
\* is in the journal, or the server acknowledged it.
Followed(d, n) ==
  \E m \in 1 .. Len(recorded[d]) :
    m > n /\ recorded[d][m].ent = recorded[d][n].ent /\ recorded[d][m].kind \in Explicit
Acknowledged(d, n) ==
  \E y \in receipts : y.dev = d /\ y.wire.seq = n /\ y.answer.outcome = "ACK"
Kept(d, n) ==
  \/ Followed(d, n)
  \/ \E x \in journal[d] : x.seq = n
  \/ Acknowledged(d, n)

AllKept ==
  \A d \in Device : \A n \in 1 .. Len(recorded[d]) : recorded[d][n].kind \in Explicit => Kept(d, n)

LEMMA LatestIs == AllKept => LatestChangeKept
<1> SUFFICES ASSUME AllKept, NEW d \in Device, NEW e \in Conversation,
                    NEW n \in 1 .. Len(recorded[d]),
                    recorded[d][n].ent = e, recorded[d][n].kind \in Explicit
             PROVE  \/ \E m \in 1 .. Len(recorded[d]) :
                         recorded[d][m].ent = e /\ recorded[d][m].kind \in Explicit /\ m > n
                    \/ \E x \in journal[d] : x.seq = n
                    \/ \E y \in receipts : y.dev = d /\ y.wire.seq = n /\ y.answer.outcome = "ACK"
  BY DEF LatestChangeKept
<1> QED BY DEF AllKept, Kept, Followed, Acknowledged

\* A step that records nothing, and takes only what is acknowledged from the journals.
LEMMA KeptOn ==
  ASSUME AllKept, recorded' = recorded, receipts \subseteq receipts',
         \A d \in Device : \A y \in journal[d] :
           (\E x \in journal'[d] : x.seq = y.seq) \/ Acknowledged(d, y.seq)'
  PROVE  AllKept'
<1> SUFFICES ASSUME NEW d \in Device, NEW n \in 1 .. Len(recorded[d]),
                    recorded[d][n].kind \in Explicit
             PROVE  Kept(d, n)'
  BY DEF AllKept
<1>1. Kept(d, n)
  BY DEF AllKept
<1>2. CASE Followed(d, n)
  BY <1>2 DEF Kept, Followed
<1>3. CASE \E x \in journal[d] : x.seq = n
  BY <1>3 DEF Kept
<1>4. CASE Acknowledged(d, n)
  BY <1>4 DEF Kept, Acknowledged
<1> QED BY <1>1, <1>2, <1>3, <1>4 DEF Kept

LEMMA JournalStays ==
  ASSUME AllKept, UNCHANGED <<journal, recorded>>, receipts \subseteq receipts'
  PROVE  AllKept'
BY KeptOn

LEMMA JournalMarked ==
  ASSUME AllKept, ClientInv, NEW d \in Device, NEW F,
         journal' = [journal EXCEPT ![d] = F],
         \A y \in journal[d] : \E x \in F : x.seq = y.seq,
         UNCHANGED <<recorded, receipts>>
  PROVE  AllKept'
<1>1. journal'[d] = F /\ \A c \in Device : c # d => journal'[c] = journal[c]
  BY DEF ClientInv, JournalOK
<1>2. \A c \in Device : \A y \in journal[c] : \E x \in journal'[c] : x.seq = y.seq
  BY <1>1
<1> QED BY <1>2, KeptOn

\* Recording, below the limit: a change gives way only to a later one of its kind.
LEMMA RecordedKept ==
  ASSUME AllKept, ClientInv, Below, NEW d \in Device, NEW e, NEW kind, NEW content,
         Record(d, e, kind, content), receipts' = receipts
  PROVE  AllKept'
<1>1. CASE UNCHANGED <<journal, recorded>>
  BY <1>1, JournalStays
<1>2. ASSUME NEW entry, entry = NewEntry(d, e, kind, content),
             NEW next, next = Compacted(journal[d] \cup {entry}, e),
             journal' = [journal EXCEPT ![d] = next],
             recorded' = [recorded EXCEPT ![d] = Append(@, entry)]
      PROVE  AllKept'
  <2>1. /\ recorded[d] \in Seq(Entries) /\ Len(recorded[d]) \in Nat
        /\ IsFiniteSet(journal[d]) /\ \A x \in journal[d] : Matches(d, x)
    BY DEF ClientInv, JournalOK
  <2>2. /\ entry.seq = Len(recorded[d]) + 1 /\ entry.ent = e /\ entry.kind = kind
        /\ entry.status = "PENDING"
    BY <1>2 DEF NewEntry
  <2>3. /\ journal'[d] = next /\ recorded'[d] = Append(recorded[d], entry)
        /\ \A c \in Device : c # d => journal'[c] = journal[c] /\ recorded'[c] = recorded[c]
    BY <1>2 DEF ClientInv, JournalOK
  <2>4. /\ Len(recorded'[d]) = Len(recorded[d]) + 1
        /\ recorded'[d][Len(recorded[d]) + 1] = entry
        /\ \A n \in 1 .. Len(recorded[d]) : recorded'[d][n] = recorded[d][n]
    <3>1. PICK s : s = recorded[d] /\ s \in Seq(Entries \cup {entry})
      BY <2>1
    <3>2. /\ Len(Append(s, entry)) = Len(s) + 1
          /\ Append(s, entry)[Len(s) + 1] = entry
          /\ \A n \in 1 .. Len(s) : Append(s, entry)[n] = s[n]
      BY <3>1
    <3> QED BY <2>3, <3>1, <3>2
  <2>5. next = (journal[d] \cup {entry}) \ Superseded(journal[d] \cup {entry}, e)
    <3> DEFINE entries == journal[d] \cup {entry}
               kept == entries \ Superseded(entries, e)
               removable == {x \in kept : x.status \in Waiting \cup {"FAILED"}}
    <3>1. IsFiniteSet(entries) /\ Cardinality(entries) <= Cardinality(journal[d]) + 1
      <4>1. /\ IsFiniteSet(entries)
            /\ Cardinality(entries) = IF entry \in journal[d] THEN Cardinality(journal[d])
                                      ELSE Cardinality(journal[d]) + 1
        BY <2>1, FS_AddElement
      <4>2. Cardinality(journal[d]) \in Nat
        BY <2>1, FS_CardinalityType
      <4> QED BY <4>1, <4>2
    <3>2. IsFiniteSet(kept) /\ Cardinality(kept) <= Cardinality(entries)
      BY <3>1, FS_Subset
    <3>3. /\ Cardinality(journal[d]) \in Nat /\ Cardinality(entries) \in Nat
          /\ Cardinality(kept) \in Nat
      BY <2>1, <3>1, <3>2, FS_CardinalityType
    <3>4. Cardinality(journal[d]) < MaxEntries
      BY DEF Below
    <3> HIDE DEF kept, entries
    <3>5. ~ (Cardinality(kept) > MaxEntries)
      BY <3>1, <3>2, <3>3, <3>4, JournalBounds
    <3>6. IsFiniteSet(removable)
      BY <3>2, FS_Subset
    <3>7. \A x \in removable : ~ (Cardinality(Before(removable, x)) < 0)
      <4> SUFFICES ASSUME NEW x \in removable PROVE ~ (Cardinality(Before(removable, x)) < 0)
        OBVIOUS
      <4> HIDE DEF removable
      <4>1. Before(removable, x) \subseteq removable
        BY DEF Before
      <4>2. Cardinality(Before(removable, x)) \in Nat
        BY <3>6, <4>1, FS_Subset, FS_CardinalityType
      <4> QED BY <4>2
    <3>8. Older(removable, 0) = {}
      BY <3>7 DEF Older
    <3>9. next = kept \ Older(removable, IF Cardinality(kept) > MaxEntries
                                         THEN Cardinality(kept) - MaxEntries ELSE 0)
      BY <1>2 DEF Compacted, kept, entries
    <3> HIDE DEF removable
    <3>10. next = kept
      BY <3>5, <3>8, <3>9
    <3> QED BY <3>10 DEF kept, entries
  <2>6. \A y \in journal[d] \cup {entry} :
          /\ y.seq \in 1 .. Len(recorded'[d])
          /\ recorded'[d][y.seq].ent = y.ent /\ recorded'[d][y.seq].kind = y.kind
    BY <2>1, <2>2, <2>4 DEF Matches
  <2>7. ASSUME NEW x \in journal[d] \cup {entry}, x.kind \in Explicit
        PROVE  Kept(d, x.seq)'
    <3>1. CASE x \in next
      BY <2>3, <3>1 DEF Kept
    <3>2. CASE x \notin next
      <4>1. PICK y \in journal[d] \cup {entry} :
              y.ent = x.ent /\ y.seq > x.seq /\ y.kind \in Explicit
        BY <2>5, <2>7, <3>2 DEF Superseded, Explicit
      <4>2. /\ y.seq \in 1 .. Len(recorded'[d]) /\ y.seq > x.seq
            /\ recorded'[d][y.seq].ent = recorded'[d][x.seq].ent
            /\ recorded'[d][y.seq].kind \in Explicit
        BY <2>6, <4>1
      <4>3. PICK n : n = x.seq
        OBVIOUS
      <4>4. Followed(d, n)'
        BY <4>2, <4>3 DEF Followed
      <4> QED BY <4>3, <4>4 DEF Kept
    <3> QED BY <3>1, <3>2
  <2>8. ASSUME NEW c \in Device, NEW n \in 1 .. Len(recorded'[c]), recorded'[c][n].kind \in Explicit
        PROVE  Kept(c, n)'
    <3>1. CASE c # d
      <4>1. Kept(c, n)
        BY <2>3, <2>8, <3>1 DEF AllKept
      <4> QED BY <2>3, <3>1, <4>1 DEF Kept, Followed, Acknowledged
    <3>2. CASE c = d /\ n = Len(recorded[d]) + 1
      <4>1. entry.kind \in Explicit /\ entry.seq = n
        BY <2>2, <2>4, <2>8, <3>2
      <4>2. PICK m : m = entry.seq
        OBVIOUS
      <4> QED BY <2>7, <3>2, <4>1
    <3>3. CASE c = d /\ n \in 1 .. Len(recorded[d])
      <4>1. Kept(d, n) /\ recorded'[d][n] = recorded[d][n]
        BY <2>4, <2>8, <3>3 DEF AllKept
      <4>2. CASE Followed(d, n)
        <5>1. PICK m \in 1 .. Len(recorded[d]) :
                m > n /\ recorded[d][m].ent = recorded[d][n].ent /\ recorded[d][m].kind \in Explicit
          BY <4>2 DEF Followed
        <5>2. m \in 1 .. Len(recorded'[d]) /\ recorded'[d][m] = recorded[d][m]
          BY <2>1, <2>4
        <5> QED BY <3>3, <4>1, <5>1, <5>2 DEF Kept, Followed
      <4>3. CASE \E x \in journal[d] : x.seq = n
        <5>1. PICK x \in journal[d] : x.seq = n
          BY <4>3
        <5>2. x.kind \in Explicit
          BY <2>1, <2>8, <3>3, <4>1, <5>1 DEF Matches
        <5> QED BY <2>7, <3>3, <5>1, <5>2
      <4>4. CASE Acknowledged(d, n)
        BY <3>3, <4>4 DEF Kept, Acknowledged
      <4> QED BY <4>1, <4>2, <4>3, <4>4 DEF Kept
    <3> QED BY <2>1, <2>4, <2>8, <3>1, <3>2, <3>3
  <2> QED BY <2>8 DEF AllKept
<1> QED BY <1>1, <1>2 DEF Record

LEMMA AnswerKept ==
  ASSUME AllKept, ClientInv, Inv, OneReceiptPerRequest, NEW d \in Device, ApplyAnswer(d)
  PROVE  AllKept'
<1>1. PICK r \in requests :
        /\ Answered(d, r)
        /\ Valid(d, r)
        /\ journal' = [journal EXCEPT ![d] = Applied(InOrder(r.results), Projection(d)).entries]
        /\ UNCHANGED <<recorded, backend>>
  BY DEF ApplyAnswer
<1>2. PICK p : p = Projection(d)
  OBVIOUS
<1>3. PICK q : q = Applied(InOrder(r.results), p)
  OBVIOUS
<1>4. Taken(r.results, p, q)
  BY <1>1, <1>2, <1>3, AnswerTaken
<1>5. p.entries = journal[d] /\ receipts' = receipts
  BY <1>1, <1>2 DEF Projection, backend
<1>6. journal'[d] = q.entries /\ \A c \in Device : c # d => journal'[c] = journal[c]
  BY <1>1, <1>2, <1>3 DEF ClientInv, JournalOK
<1>7. ASSUME NEW y \in journal[d], \A x \in journal'[d] : x.seq # y.seq
      PROVE  Acknowledged(d, y.seq)'
  <2>1. PICK row \in r.results : row.seq = y.seq /\ row.outcome = "ACK"
    BY <1>4, <1>5, <1>6, <1>7 DEF Taken
  <2>2. r.dev = d
    BY <1>1 DEF Answered
  <2>3. PICK z \in receipts : z.dev = d /\ z.wire.seq = row.seq /\ z.answer.outcome = row.outcome
    BY <1>1, <2>2, RowTold
  <2>4. PICK n : n = y.seq
    OBVIOUS
  <2>5. Acknowledged(d, n)'
    BY <1>5, <2>1, <2>3, <2>4 DEF Acknowledged
  <2> QED BY <2>4, <2>5
<1>8. \A c \in Device : \A y \in journal[c] :
        (\E x \in journal'[c] : x.seq = y.seq) \/ Acknowledged(c, y.seq)'
  BY <1>6, <1>7
<1> QED BY <1>1, <1>5, <1>8, KeptOn

LEMMA KeptNext ==
  ASSUME AllKept, ClientInv, Inv, OneReceiptPerRequest, Below, [Next]_vars
  PROVE  AllKept'
<1>1. ASSUME NEW d \in Device, NEW e \in Conversation,
             (\E s \in Shop : Bind(d, e, s)) \/ Finish(d, e) \/ Deliver(d, e)
      PROVE  AllKept'
  <2>1. receipts' = receipts /\ \E kind, content : Record(d, e, kind, content)
    BY <1>1 DEF Bind, Finish, Deliver, backend
  <2> QED BY <2>1, RecordedKept
<1>2. ASSUME NEW d \in Device, NEW e \in Conversation, ReadSnapshot(d, e) PROVE AllKept'
  BY <1>2, JournalStays DEF ReadSnapshot, client, backend
<1>3. ASSUME NEW d \in Device, Select(d) \/ Revoke(d) \/ DropSnapshot(d) \/ ApplySnapshot(d)
      PROVE  AllKept'
  <2>1. UNCHANGED <<journal, recorded, receipts>>
    BY <1>3 DEF Select, Revoke, DropSnapshot, ApplySnapshot, client, backend
  <2> QED BY <2>1, JournalStays
<1>4. ASSUME NEW d \in Device, Serve(d) PROVE AllKept'
  <2>1. UNCHANGED <<journal, recorded>> /\ receipts \subseteq receipts'
    BY <1>4 DEF Serve, ServeRefused, ServeRepeated, ServeNew, client, backend
  <2> QED BY <2>1, JournalStays
<1>5. ASSUME NEW d \in Device, Send(d) \/ FailBatch(d) \/ LoseAnswer(d) PROVE AllKept'
  <2>1. \E status \in Statuses :
          journal' = [journal EXCEPT ![d] = Marked(@, flight[d].batch, status)]
    BY <1>5 DEF Send, FailBatch, LoseAnswer, Statuses, Waiting
  <2>2. UNCHANGED <<recorded, receipts>>
    BY <1>5 DEF Send, FailBatch, LoseAnswer, backend
  <2>3. PICK status \in Statuses :
          journal' = [journal EXCEPT ![d] = Marked(journal[d], flight[d].batch, status)]
    BY <2>1 DEF ClientInv, JournalOK
  <2>4. \A y \in journal[d] : \E x \in Marked(journal[d], flight[d].batch, status) : x.seq = y.seq
    BY MarkedStems DEF ClientInv, JournalOK
  <2> QED BY <2>2, <2>3, <2>4, JournalMarked
<1>6. ASSUME NEW d \in Device, Restart(d) PROVE AllKept'
  <2>1. journal' = [journal EXCEPT ![d] = Recovered(journal[d])] /\ UNCHANGED <<recorded, receipts>>
    BY <1>6 DEF Restart, backend, ClientInv, JournalOK
  <2>2. \A y \in journal[d] : \E x \in Recovered(journal[d]) : x.seq = y.seq
    BY RecoveredStems DEF ClientInv, JournalOK
  <2> QED BY <2>1, <2>2, JournalMarked
<1>7. ASSUME NEW d \in Device, ApplyAnswer(d) PROVE AllKept'
  BY <1>7, AnswerKept
<1>8. CASE UNCHANGED vars
  BY <1>8, JournalStays DEF vars, client, backend
<1> QED BY <1>1, <1>2, <1>3, <1>4, <1>5, <1>6, <1>7, <1>8 DEF Next

\* While no journal has reached its limit, the latest explicit change of an installation
\* in a conversation is never lost between its journal and the server, whatever was
\* compacted, repeated, answered late or lost on the way. (At the limit the journal
\* drops its oldest waiting or failed entry, and a latest change may be it.)
THEOREM LatestKept == Spec /\ []Below => []LatestChangeKept
<1>1. Init => AllKept
  BY DEF Init, AllKept
<1>2. AllKept /\ ClientInv /\ Inv /\ OneReceiptPerRequest /\ Below /\ [Next]_vars => AllKept'
  BY KeptNext
<1>3. Spec /\ []Below => []AllKept
  BY <1>1, <1>2, ClientInvariance, Invariance, ReceiptIsFinal, PTL DEF Spec
<1> QED BY <1>3, LatestIs, PTL

================================================================================
