-------------------------- MODULE TokenRotationProofs --------------------------
(***************************************************************************)
(* Proofs about TokenRotation, for any sessions, tokens and keys.           *)
(*                                                                         *)
(* The invariant says what the record of the client and the rows of the     *)
(* server have to do with each other: a replacement was made for a key that *)
(* was drawn for the token it replaces (Linked), and is what the server     *)
(* answered (Answered); the key drawn for the token on record is the one on *)
(* record, unless that token was left behind (Kept); the client has not     *)
(* gone on to a token while it holds the one before it (Forward); and a     *)
(* reuse is only found where a token was left behind or a window has closed *)
(* (Judged).                                                                *)
(***************************************************************************)
EXTENDS TokenRotation, TLAPS

Linked ==
  /\ \A k \in Keys : drawn[k] # None => token[drawn[k]] # None
  /\ disk.token # None => token[disk.token] # None
  /\ disk.rotation # None => drawn[disk.rotation.key] = disk.rotation.token
  /\ \A t \in Tokens : token[t] # None /\ token[t].next # None =>
       /\ token[t].next # t /\ token[token[t].next] # None
       /\ token[token[t].next].session = token[t].session
       /\ token[token[t].next].key \in Keys
       /\ drawn[token[token[t].next].key] = t

Answered ==
  \A k \in Keys : flight[k] # None /\ flight[k].answer \in Tokens =>
    token[drawn[k]].next = flight[k].answer

Kept ==
  /\ \A k \in Keys : disk.token # None /\ drawn[k] = disk.token /\ disk.token \notin left =>
       Reusable(disk.rotation) /\ disk.rotation.key = k
  /\ \A j, k \in Keys : drawn[k] # None /\ drawn[j] = drawn[k] /\ j # k => drawn[k] \in left

Forward ==
  \A k \in Keys, t \in Tokens :
    drawn[k] # None /\ token[t] # None /\ token[t].next = drawn[k] => disk.token # t

Judged ==
  /\ \A t \in Tokens : token[t] # None /\ token[t].reused =>
       token[t].next # None /\ (t \in left \/ token[token[t].next].age # "new")
  /\ \A s \in Sessions : session[s] = "COMPROMISED" =>
       \E t \in Tokens : token[t] # None /\ token[t].session = s /\ token[t].reused

Inv == TypeOK /\ Linked /\ Answered /\ Kept /\ Forward /\ Judged

--------------------------------------------------------------------------------
\* An id that is said to be new is one, and was not used.
LEMMA NewToken ==
  ASSUME TypeOK, More(token)
  PROVE  New(token) \in Tokens /\ token[New(token)] = None
BY DEF TypeOK, More, New

LEMMA NewKey ==
  ASSUME TypeOK, More(drawn)
  PROVE  New(drawn) \in Keys /\ drawn[New(drawn)] = None
BY DEF TypeOK, More, New

\* None is nothing else.
LEMMA Nones ==
  /\ None \notin Tokens /\ None \notin Keys /\ None \notin Records
  /\ None \notin Rotations /\ None \notin Flights
  /\ None # "refused" /\ None # "busy"
BY RotationNone DEF Answers

LEMMA InitInv == Init => Inv
<1> SUFFICES ASSUME Init PROVE Inv
  OBVIOUS
<1>1. TypeOK
  BY RotationBound DEF Init, TypeOK, Empty, NoFlights
<1>2. Linked /\ Answered /\ Kept /\ Forward /\ Judged
  BY Nones DEF Init, Linked, Answered, Kept, Forward, Judged, Empty, NoFlights
<1> QED BY <1>1, <1>2 DEF Inv

--------------------------------------------------------------------------------
\* The client

\* What the stop of the worker leaves of the requests has its type.
LEMMA StoppedTypes ==
  ASSUME TypeOK, Stopped
  PROVE  /\ awake' \in BOOLEAN /\ flight' \in [Keys -> Flights \cup {None}] /\ stray' \in [Keys -> Nat]
         /\ \A k \in Keys : flight'[k] = None
         /\ \A k \in Keys : stray'[k] > 0 => drawn[k] # None
<1>1. awake' \in BOOLEAN /\ flight' \in [Keys -> Flights \cup {None}]
  BY DEF Stopped, NoFlights
<1>2. \A k \in Keys : flight'[k] = None
  BY DEF Stopped, NoFlights
<1>3. \A k \in Keys : stray[k] \in Nat /\ stray[k] + 1 \in Nat
  BY DEF TypeOK
<1>4. stray' \in [Keys -> Nat]
  BY <1>3 DEF Stopped, Strays
<1>5. \A k \in Keys : stray'[k] > 0 => flight[k] # None \/ stray[k] > 0
  BY DEF Stopped, Strays
<1> QED BY <1>1, <1>2, <1>4, <1>5 DEF TypeOK

LEMMA TroubleTypes ==
  ASSUME TypeOK, Trouble \/ UNCHANGED troubles
  PROVE  troubles' \in 0 .. MaxTroubles
BY RotationBound DEF TypeOK, Trouble

\* Steps that change neither the rows, nor the record, nor what was drawn.
LEMMA OnlyFlights ==
  ASSUME Inv, UNCHANGED <<session, token, disk, drawn, left>>, TypeOK', Answered'
  PROVE  Inv'
BY DEF Inv, Linked, Kept, Forward, Judged, Reusable

LEMMA FailKeeps ==
  ASSUME Inv, NEW k \in Keys, Fail(k)
  PROVE  Inv'
<1> DEFINE repeated == [flight[k] EXCEPT !.again = FALSE]
<1>0. repeated \in Flights
  <2>1. flight[k] \in Flights
    BY DEF Inv, TypeOK, Fail
  <2> QED BY <2>1 DEF Flights
<1>1. flight' \in [Keys -> Flights \cup {None}]
  <2>1. flight' = [flight EXCEPT ![k] = repeated] \/ flight' = [flight EXCEPT ![k] = None]
    BY DEF Fail, Ended
  <2> HIDE DEF repeated
  <2> QED BY <1>0, <2>1 DEF Inv, TypeOK
<1>2. TypeOK'
  BY <1>1, TroubleTypes DEF Inv, TypeOK, Fail, Ended, server, client
<1>3. Answered'
  BY Nones DEF Inv, TypeOK, Fail, Ended, server, client, Answered, Flights, Answers
<1> QED BY <1>2, <1>3, OnlyFlights DEF Fail, server, client

LEMMA StopKeeps ==
  ASSUME Inv, Stop
  PROVE  Inv'
<1>1. TypeOK'
  BY StoppedTypes, TroubleTypes DEF Inv, TypeOK, Stop, server
<1>2. Answered'
  BY StoppedTypes DEF Inv, Stop, Answered
<1> QED BY <1>1, <1>2, OnlyFlights DEF Stop, server

\* The record is emptied: nothing is held any more.
LEMMA Emptied ==
  ASSUME Inv, UNCHANGED <<session, token, drawn, left>>, TypeOK', Answered',
         disk'.token = None, disk'.rotation = None
  PROVE  Inv'
<1>1. Linked'
  BY DEF Inv, Linked
<1>2. Kept' /\ Judged'
  BY DEF Inv, Kept, Judged
<1>3. Forward'
  BY Nones DEF Inv, Forward
<1> QED BY <1>1, <1>2, <1>3 DEF Inv

LEMMA WipedKeeps ==
  ASSUME Inv, Wiped, UNCHANGED <<session, token, drawn, left>>
  PROVE  Inv'
<1>1. TypeOK'
  BY StoppedTypes, TroubleTypes DEF Inv, TypeOK, Wiped, Empty
<1>2. Answered'
  BY StoppedTypes DEF Inv, Wiped, Answered
<1> QED BY <1>1, <1>2, Emptied DEF Wiped, Empty

LEMMA SignOutKeeps ==
  ASSUME Inv, SignOut
  PROVE  Inv'
<1>1. CASE Wiped
  BY <1>1, WipedKeeps DEF SignOut, server
<1>2. CASE disk' = SignedOut /\ UNCHANGED <<awake, flight, stray, troubles>>
  <2>1. TypeOK'
    BY <1>2 DEF Inv, TypeOK, SignOut, SignedOut, server
  <2>2. Answered'
    BY <1>2 DEF Inv, Answered, SignOut, server
  <2> QED BY <1>2, <2>1, <2>2, Emptied DEF SignOut, SignedOut, server
<1> QED BY <1>1, <1>2 DEF SignOut

\* The generation changes under the token: its rotation is left behind.
LEMMA TurnedKeeps ==
  ASSUME Inv, UNCHANGED <<session, token, drawn, flight, stray>>,
         awake' \in BOOLEAN, Trouble, disk.token # None,
         NEW rotation \in {disk.rotation, None},
         disk' = [disk EXCEPT !.generation = @ + 1, !.rotation = rotation],
         left' = LeftBehind
  PROVE  Inv'
<1>1. /\ disk'.token = disk.token /\ disk'.rotation = rotation
      /\ disk'.generation = disk.generation + 1
      /\ left \subseteq left' /\ left' \subseteq Tokens
  BY DEF Inv, TypeOK, LeftBehind
<1>2. TypeOK'
  <2>1. disk' \in [generation : Nat, token : Tokens \cup {None}, rotation : Rotations \cup {None}]
    <3>1. /\ disk.generation + 1 \in Nat /\ rotation \in Rotations \cup {None}
          /\ disk.token \in Tokens \cup {None}
      BY DEF Inv, TypeOK
    <3>2. disk' = [generation |-> disk.generation + 1, token |-> disk.token, rotation |-> rotation]
      BY DEF Inv, TypeOK
    <3> QED BY <3>1, <3>2
  <2>2. disk'.rotation # None => disk'.rotation.token = disk'.token
    BY <1>1 DEF Inv, TypeOK
  <2>3. troubles' \in 0 .. MaxTroubles
    BY TroubleTypes DEF Inv
  <2> QED BY <1>1, <2>1, <2>2, <2>3 DEF Inv, TypeOK
<1>3. Linked' /\ Answered' /\ Forward'
  BY <1>1 DEF Inv, Linked, Answered, Forward
<1>4. Kept'
  <2>1. \A k \in Keys : drawn[k] = disk.token => disk.token \in left'
    BY DEF Inv, Kept, Reusable, LeftBehind
  <2> QED BY <1>1, <2>1 DEF Inv, Kept
<1>5. Judged'
  BY <1>1 DEF Inv, Judged
<1> QED BY <1>2, <1>3, <1>4, <1>5 DEF Inv

LEMMA TurnKeeps ==
  ASSUME Inv, Turn
  PROVE  Inv'
<1> PICK rotation \in {disk.rotation, None} :
      disk' = [disk EXCEPT !.generation = @ + 1, !.rotation = rotation]
  BY DEF Turn
<1> QED BY TurnedKeeps DEF Turn, server, Inv, TypeOK

LEMMA RestoreKeeps ==
  ASSUME Inv, Restore
  PROVE  Inv'
<1>1. CASE UNCHANGED <<disk, left, troubles>>
  <2>1. TypeOK' /\ Answered'
    BY <1>1 DEF Inv, TypeOK, Answered, Restore, server
  <2> QED BY <1>1, <2>1, OnlyFlights DEF Restore, server
<1>2. CASE Trouble /\ disk.token # None /\ disk' = [disk EXCEPT !.generation = @ + 1]
           /\ left' = LeftBehind
  <2>1. disk' = [disk EXCEPT !.generation = @ + 1, !.rotation = disk.rotation]
    BY <1>2 DEF Inv, TypeOK
  <2> QED BY <1>2, <2>1, TurnedKeeps DEF Restore, server
<1>3. CASE Trouble /\ disk' = SignedOut /\ UNCHANGED left
  <2>1. TypeOK'
    BY <1>3, TroubleTypes DEF Inv, TypeOK, Restore, SignedOut, server
  <2>2. Answered'
    BY DEF Inv, Answered, Restore, server
  <2> QED BY <1>3, <2>1, <2>2, Emptied DEF Restore, SignedOut, server
<1> QED BY <1>1, <1>2, <1>3 DEF Restore

LEMMA ActivateKeeps ==
  ASSUME Inv, Activate
  PROVE  Inv'
<1> DEFINE u == New(token)
<1>1. u \in Tokens /\ token[u] = None
  BY NewToken DEF Inv, Activate
<1> PICK s \in Sessions :
      /\ session[s] = "none" /\ session' = [session EXCEPT ![s] = "ACTIVE"]
      /\ token' = [token EXCEPT ![u] =
           [session |-> s, next |-> None, key |-> None, age |-> "late", reused |-> FALSE]]
      /\ disk' = [generation |-> disk.generation + 1, token |-> u, rotation |-> None]
  BY DEF Activate
<1> DEFINE first == [session |-> s, next |-> None, key |-> None, age |-> "late", reused |-> FALSE]
<1>2. first \in Records /\ first # None
  <2>1. first \in Records
    BY DEF Records
  <2> QED BY <2>1, Nones
<1> HIDE DEF u
<1>3. /\ \A t \in Tokens : t # u => token'[t] = token[t]
      /\ token'[u] = first /\ token' \in [Tokens -> Records \cup {None}]
  BY <1>1, <1>2 DEF Inv, TypeOK
<1>4. UNCHANGED <<awake, drawn, flight, stray, left, troubles>>
  BY DEF Activate
<1>5. TypeOK'
  <2>1. disk.generation + 1 \in Nat
    BY DEF Inv, TypeOK
  <2> QED BY <1>1, <1>3, <1>4, <2>1 DEF Inv, TypeOK
<1>6. /\ \A k \in Keys : drawn[k] # u
      /\ \A t \in Tokens : token[t] # None => token[t].next # u
  BY <1>1, Nones DEF Inv, Linked
<1>7. Linked'
  <2>1. \A k \in Keys : drawn[k] # None => token'[drawn[k]] # None
    BY <1>3, <1>6 DEF Inv, Linked, TypeOK
  <2>2. \A t \in Tokens : token'[t] # None /\ token'[t].next # None =>
          /\ t # u /\ token[t] # None /\ token'[t] = token[t]
          /\ token[t].next \in Tokens /\ token[t].next # u
    BY <1>3, <1>6 DEF Inv, TypeOK, Records
  <2> QED BY <1>1, <1>2, <1>3, <1>4, <2>1, <2>2 DEF Inv, Linked
<1>8. Answered'
  <2>1. \A k \in Keys : flight[k] # None => drawn[k] \in Tokens /\ drawn[k] # u
    BY <1>6 DEF Inv, TypeOK
  <2> QED BY <1>3, <1>4, <2>1 DEF Inv, Answered
<1>9. Kept' /\ Forward'
  <2>1. Kept'
    BY <1>4, <1>6 DEF Inv, Kept
  <2>2. Forward'
    BY <1>3, <1>4, Nones DEF Inv, Forward
  <2> QED BY <2>1, <2>2
<1>10. Judged'
  <2>1. \A t \in Tokens : token'[t] # None /\ token'[t].reused =>
          t # u /\ token[t] # None /\ token'[t] = token[t]
    BY <1>3
  <2>2. \A t \in Tokens : token[t] # None /\ token[t].reused =>
          token[t].next \in Tokens /\ token[t].next # u
    BY <1>6, Nones DEF Inv, Judged, TypeOK, Records
  <2>3. \A t \in Tokens : token'[t] # None /\ token'[t].reused =>
          token'[t].next # None /\ (t \in left' \/ token'[token'[t].next].age # "new")
    BY <1>3, <1>4, <2>1, <2>2 DEF Inv, Judged
  <2>4. \A r \in Sessions : session'[r] = "COMPROMISED" =>
          \E t \in Tokens : token'[t] # None /\ token'[t].session = r /\ token'[t].reused
    <3>1. SUFFICES ASSUME NEW r \in Sessions, session'[r] = "COMPROMISED"
                   PROVE  \E t \in Tokens : token'[t] # None /\ token'[t].session = r /\ token'[t].reused
      OBVIOUS
    <3>2. session[r] = "COMPROMISED"
      BY <3>1 DEF Inv, TypeOK
    <3>3. PICK t \in Tokens : token[t] # None /\ token[t].session = r /\ token[t].reused
      BY <3>2 DEF Inv, Judged
    <3> QED BY <1>1, <1>3, <3>3
  <2> QED BY <2>3, <2>4 DEF Judged
<1> QED BY <1>5, <1>7, <1>8, <1>9, <1>10 DEF Inv

LEMMA PrepareKeeps ==
  ASSUME Inv, Prepare
  PROVE  Inv'
<1>0. Asking \in Flights /\ Asking # None /\ Asking.answer = None
  <2>1. Asking \in Flights /\ Asking.answer = None
    BY DEF Asking, Flights, Inv, TypeOK
  <2> QED BY <2>1, Nones
<1>1. CASE Reusable(disk.rotation) /\ UNCHANGED <<disk, drawn>>
           /\ flight' = [flight EXCEPT ![disk.rotation.key] = Asking]
  <2>1. disk.rotation.key \in Keys /\ drawn[disk.rotation.key] # None
    BY <1>1, Nones DEF Inv, TypeOK, Linked, Reusable, Rotations
  <2>2. TypeOK'
    BY <1>0, <1>1, <2>1 DEF Inv, TypeOK, Prepare, server
  <2>3. Answered'
    BY <1>0, <1>1, <2>1, Nones DEF Inv, TypeOK, Answered, Prepare, server
  <2> QED BY <1>1, <2>2, <2>3, OnlyFlights DEF Prepare, server
<1>2. CASE ~ Reusable(disk.rotation) /\ More(drawn)
           /\ drawn' = [drawn EXCEPT ![New(drawn)] = disk.token]
           /\ disk' = [disk EXCEPT !.rotation =
                [generation |-> disk.generation, token |-> disk.token, key |-> New(drawn)]]
           /\ flight' = [flight EXCEPT ![New(drawn)] = Asking]
  <2> DEFINE k == New(drawn)
             prepared == [generation |-> disk.generation, token |-> disk.token, key |-> New(drawn)]
  <2>1. k \in Keys /\ drawn[k] = None
    BY <1>2, NewKey DEF Inv
  <2>2. disk.token \in Tokens /\ disk.token # None /\ token[disk.token] # None
    BY DEF Inv, TypeOK, Linked, Prepare
  <2>3. prepared \in Rotations /\ prepared # None
    BY <2>1, <2>2, Nones DEF Inv, TypeOK, Rotations
  <2>4. /\ disk' = [generation |-> disk.generation, token |-> disk.token, rotation |-> prepared]
        /\ drawn' = [drawn EXCEPT ![k] = disk.token] /\ flight' = [flight EXCEPT ![k] = Asking]
        /\ UNCHANGED <<session, token, awake, stray, left, troubles>>
    BY <1>2 DEF Inv, TypeOK, Prepare, server
  <2>5. ~ Reusable(disk.rotation)
    BY <1>2
  <2>6. prepared.generation = disk.generation /\ prepared.token = disk.token /\ prepared.key = k
    OBVIOUS
  <2> HIDE DEF k, prepared
  <2>7. TypeOK'
    BY <1>0, <2>1, <2>2, <2>3, <2>4, <2>6 DEF Inv, TypeOK
  <2>8. Linked'
    <3>1. \A t \in Tokens : token[t] # None /\ token[t].next # None => token[token[t].next].key # k
      BY <2>1, Nones DEF Inv, Linked
    <3> QED BY <2>1, <2>2, <2>4, <2>6, <3>1 DEF Inv, Linked, TypeOK
  <2>9. Answered'
    BY <1>0, <2>1, <2>4, Nones DEF Inv, Answered, TypeOK
  <2>10. Kept'
    <3>1. \A j \in Keys : drawn[j] = disk.token => disk.token \in left
      BY <2>2, <2>5 DEF Inv, Kept
    <3> QED BY <2>1, <2>2, <2>3, <2>4, <2>6, <3>1 DEF Inv, Kept, Reusable, TypeOK
  <2>11. Forward'
    BY <2>1, <2>2, <2>4 DEF Inv, Forward, Linked, TypeOK
  <2>12. Judged'
    BY <2>4 DEF Inv, Judged
  <2> QED BY <2>7, <2>8, <2>9, <2>10, <2>11, <2>12 DEF Inv
<1> QED BY <1>1, <1>2 DEF Prepare

LEMMA TakeKeeps ==
  ASSUME Inv, NEW k \in Keys, Take(k)
  PROVE  Inv'
<1>0. /\ flight[k] # None /\ flight[k].answer # None /\ flight[k].answer \in Answers
      /\ drawn[k] \in Tokens /\ token[drawn[k]] # None
      /\ UNCHANGED <<session, token, drawn, left>>
  BY Nones DEF Inv, TypeOK, Take, Flights, Linked, server
<1>1. flight' = Ended(k) => /\ flight' \in [Keys -> Flights \cup {None}]
                            /\ \A j \in Keys : flight'[j] # None => j # k /\ flight'[j] = flight[j]
  BY DEF Inv, TypeOK, Ended
<1>2. CASE flight' = Ended(k) /\ UNCHANGED <<disk, awake, stray, troubles>>
  <2>1. TypeOK' /\ Answered'
    BY <1>0, <1>1, <1>2 DEF Inv, TypeOK, Answered
  <2> QED BY <1>0, <1>2, <2>1, OnlyFlights
<1>3. CASE Current(k) /\ flight[k].answer \in Tokens /\ disk' = Taken(flight[k].answer)
           /\ flight' = Ended(k) /\ UNCHANGED <<awake, stray, troubles>>
  <2> DEFINE u == flight[k].answer
             d == disk.token
  <2>1. /\ d \in Tokens /\ token[d] # None /\ drawn[k] = d
        /\ token[d].next = u /\ u \in Tokens /\ u # None /\ token[u] # None
    BY <1>0, <1>3, Nones DEF Inv, TypeOK, Current, Linked, Answered
  <2>2. disk' = [generation |-> disk.generation, token |-> u, rotation |-> None]
    BY <1>3 DEF Taken, Inv, TypeOK
  <2> HIDE DEF u, d
  <2>3. \A j \in Keys : drawn[j] # u
    BY <2>1 DEF Inv, Forward, d
  <2>4. token[u].next = None
    BY <2>1, <2>3 DEF Inv, Linked
  <2>5. TypeOK'
    BY <1>0, <1>1, <1>3, <2>1, <2>2 DEF Inv, TypeOK
  <2>6. Linked' /\ Answered'
    BY <1>0, <1>1, <1>3, <2>1, <2>2 DEF Inv, Linked, Answered
  <2>7. Kept' /\ Forward' /\ Judged'
    BY <1>0, <2>1, <2>2, <2>3, <2>4 DEF Inv, Kept, Forward, Judged
  <2> QED BY <2>5, <2>6, <2>7 DEF Inv
<1>4. CASE disk' = SignedOut /\ flight' = Ended(k) /\ UNCHANGED <<awake, stray, troubles>>
  <2>1. TypeOK' /\ Answered'
    BY <1>0, <1>1, <1>4 DEF Inv, TypeOK, Answered, SignedOut
  <2> QED BY <1>0, <1>4, <2>1, Emptied DEF SignedOut
<1>5. CASE Wiped
  BY <1>0, <1>5, WipedKeeps
<1> QED BY <1>2, <1>3, <1>4, <1>5 DEF Take

--------------------------------------------------------------------------------
\* The server

\* Nothing that matters here changes with a row whose links stay as they are.
LEMMA RowKeeps ==
  ASSUME Inv, UNCHANGED <<disk, drawn, left>>,
         session' \in [Sessions -> {"none", "ACTIVE", "ENDED", "COMPROMISED"}],
         token' \in [Tokens -> Records \cup {None}],
         \A t \in Tokens : token'[t] # None => token[t] # None,
         \A t \in Tokens : token[t] # None =>
           /\ token'[t] # None /\ token'[t].session = token[t].session
           /\ token'[t].next = token[t].next /\ token'[t].key = token[t].key
  PROVE  Linked' /\ Forward' /\ (UNCHANGED flight => Answered')
<1>1. \A t \in Tokens : token[t] # None /\ token[t].next # None =>
        token[t].next \in Tokens /\ token[token[t].next] # None
  BY DEF Inv, Linked, TypeOK, Records
<1>2. \A k \in Keys : drawn[k] # None => drawn[k] \in Tokens /\ token[drawn[k]] # None
  BY DEF Inv, Linked, TypeOK
<1>3. Linked'
  BY <1>1, <1>2 DEF Inv, Linked, TypeOK
<1>4. Forward'
  BY DEF Inv, Forward
<1>5. UNCHANGED flight => Answered'
  BY <1>2 DEF Inv, Answered, TypeOK
<1> QED BY <1>3, <1>4, <1>5

\* What a request does to the rows leaves the invariant, and the tokens keep what replaced them.
HandledWell(k, answer) ==
  /\ session' \in [Sessions -> {"none", "ACTIVE", "ENDED", "COMPROMISED"}]
  /\ token' \in [Tokens -> Records \cup {None}]
  /\ Linked' /\ Forward' /\ Judged'
  /\ answer \in Tokens => token'[drawn[k]].next = answer
  /\ \A t \in Tokens : token[t] # None /\ token[t].next # None => token'[t].next = token[t].next

LEMMA RotatedWell ==
  ASSUME Inv, NEW k \in Keys, NEW u \in Tokens, drawn[k] # None, UNCHANGED <<disk, drawn, left>>,
         More(token), Rotated(drawn[k], k, u),
         session' = session \/ session' = [session EXCEPT ![token[drawn[k]].session] = "ENDED"]
  PROVE  /\ HandledWell(k, u) /\ HandledWell(k, "refused")
<1> DEFINE t == drawn[k]
           row == [token[t] EXCEPT !.next = u]
           fresh == [session |-> token[t].session, next |-> None, key |-> k,
                     age |-> "new", reused |-> FALSE]
<1>1. /\ t \in Tokens /\ token[t] # None /\ token[t] \in Records /\ token[t].next = None
      /\ session[token[t].session] = "ACTIVE"
  BY DEF Inv, TypeOK, Linked, Rotated, Valid
<1>2. token[u] = None /\ u # t /\ u # None
  BY <1>1, NewToken, Nones DEF Inv, Rotated
<1>3. /\ row \in Records /\ fresh \in Records
      /\ row.next = u /\ row.session = token[t].session /\ row.key = token[t].key
      /\ row.age = token[t].age /\ row.reused = token[t].reused
      /\ fresh.session = token[t].session /\ fresh.next = None /\ fresh.key = k
      /\ fresh.reused = FALSE
  BY <1>1 DEF Records
<1>4. row # None /\ fresh # None
  BY <1>3, Nones
<1>5. token' = [token EXCEPT ![t] = row, ![u] = fresh]
  BY <1>1, <1>2 DEF Rotated, Inv, TypeOK
<1> HIDE DEF row, fresh, t
<1>6. /\ token' \in [Tokens -> Records \cup {None}]
      /\ token'[t] = row /\ token'[u] = fresh
      /\ \A x \in Tokens : x # t /\ x # u => token'[x] = token[x]
  BY <1>1, <1>2, <1>3, <1>5 DEF Inv, TypeOK
<1>7. session' \in [Sessions -> {"none", "ACTIVE", "ENDED", "COMPROMISED"}]
  BY DEF Inv, TypeOK
<1>8. /\ \A j \in Keys : drawn[j] # u
      /\ \A x \in Tokens : token[x] # None /\ token[x].next # None =>
           x # t /\ x # u /\ token[x].next # u /\ token[x].next \in Tokens
      /\ disk.token # u
  BY <1>1, <1>2 DEF Inv, Linked, TypeOK, Records
<1>9. Linked'
  <2>1. /\ \A j \in Keys : drawn[j] # None => token'[drawn[j]] # None
        /\ disk.token # None => token'[disk.token] # None
    BY <1>4, <1>6, <1>8 DEF Inv, Linked, TypeOK
  <2>2. SUFFICES ASSUME NEW x \in Tokens, token'[x] # None, token'[x].next # None
        PROVE  /\ token'[x].next # x /\ token'[token'[x].next] # None
               /\ token'[token'[x].next].session = token'[x].session
               /\ token'[token'[x].next].key \in Keys
               /\ drawn[token'[token'[x].next].key] = x
    BY <2>1 DEF Inv, Linked
  <2>3. CASE x = t
    BY <1>2, <1>3, <1>4, <1>6, <2>3 DEF t
  <2>4. CASE x # t
    <3>1. x # u /\ token'[x] = token[x]
      BY <1>3, <1>6, <2>2, <2>4
    <3>2. token'[token[x].next].session = token[token[x].next].session
          /\ token'[token[x].next].key = token[token[x].next].key
          /\ token'[token[x].next] # None
      BY <1>3, <1>4, <1>6, <1>8, <2>2, <3>1 DEF Inv, Linked
    <3> QED BY <2>2, <3>1, <3>2 DEF Inv, Linked
  <2> QED BY <2>3, <2>4
<1>10. Forward'
  BY <1>3, <1>6, <1>8, Nones DEF Inv, Forward
<1>11. Judged'
  <2>1. \A x \in Tokens : token[x] # None /\ token[x].reused =>
          x # t /\ x # u /\ token[x].next \in Tokens /\ token[x].next # u /\ token[x].next # None
    BY <1>1, <1>2, <1>8 DEF Inv, Judged
  <2>2. \A x \in Tokens : token'[x] # None /\ token'[x].reused => token[x] # None /\ token[x].reused
    BY <1>1, <1>3, <1>6
  <2>3. \A x \in Tokens : x # u => token'[x].age = token[x].age
    BY <1>3, <1>6
  <2>4. \A x \in Tokens : token'[x] # None /\ token'[x].reused =>
          token'[x].next # None /\ (x \in left' \/ token'[token'[x].next].age # "new")
    BY <1>6, <2>1, <2>2, <2>3 DEF Inv, Judged
  <2>5. \A s \in Sessions : session'[s] = "COMPROMISED" => session[s] = "COMPROMISED"
    BY DEF Inv, TypeOK
  <2>6. \A s \in Sessions : session'[s] = "COMPROMISED" =>
          \E x \in Tokens : token'[x] # None /\ token'[x].session = s /\ token'[x].reused
    BY <1>6, <2>1, <2>5 DEF Inv, Judged
  <2> QED BY <2>4, <2>6 DEF Judged
<1>12. \A x \in Tokens : token[x] # None /\ token[x].next # None => token'[x].next = token[x].next
  BY <1>6, <1>8
<1> QED BY <1>3, <1>6, <1>7, <1>9, <1>10, <1>11, <1>12, AnswersDiffer DEF HandledWell, t

LEMMA SameWell ==
  ASSUME Inv, UNCHANGED <<session, token, disk, drawn, left>>, NEW k \in Keys, NEW answer,
         answer \in Tokens => token[drawn[k]].next = answer
  PROVE  HandledWell(k, answer)
BY DEF Inv, TypeOK, Linked, Forward, Judged, HandledWell

\* A reuse is found: the key is another one, so that the token was left behind, or the window
\* has closed.
LEMMA ReusedWell ==
  ASSUME Inv, NEW k \in Keys, drawn[k] # None, UNCHANGED <<disk, drawn, left>>,
         Reused(drawn[k], k)
  PROVE  HandledWell(k, "refused")
<1> DEFINE t == drawn[k]
           row == [token[t] EXCEPT !.reused = TRUE]
<1>1. /\ t \in Tokens /\ token[t] # None /\ token[t] \in Records /\ token[t].next # None
      /\ token[token[t].next].key # k \/ token[token[t].next].age # "new"
      /\ token' = [token EXCEPT ![t].reused = TRUE]
      /\ session' = [session EXCEPT ![token[t].session] = "COMPROMISED"]
  BY DEF Inv, TypeOK, Linked, Reused, Replayable
<1>2. /\ row \in Records /\ row.next = token[t].next /\ row.session = token[t].session
      /\ row.key = token[t].key /\ row.age = token[t].age /\ row.reused = TRUE
  BY <1>1 DEF Records
<1>3. row # None
  BY <1>2, Nones
<1>4. token' = [token EXCEPT ![t] = row]
  BY <1>1 DEF Inv, TypeOK
<1>5. t \in left \/ token[token[t].next].age # "new"
  BY <1>1 DEF Inv, Linked, Kept
<1> HIDE DEF row, t
<1>6. /\ token' \in [Tokens -> Records \cup {None}]
      /\ token'[t] = row
      /\ \A x \in Tokens : x # t => token'[x] = token[x]
  BY <1>1, <1>2, <1>4 DEF Inv, TypeOK
<1>7. session' \in [Sessions -> {"none", "ACTIVE", "ENDED", "COMPROMISED"}]
  BY <1>1 DEF Inv, TypeOK
<1>8. \A x \in Tokens : token[x] # None =>
        /\ token'[x] # None /\ token'[x].session = token[x].session
        /\ token'[x].next = token[x].next /\ token'[x].key = token[x].key
        /\ token'[x].age = token[x].age
  BY <1>1, <1>2, <1>3, <1>6
<1>18. /\ \A x \in Tokens : token'[x] # None => token[x] # None
       /\ \A x \in Tokens : x # t => (token'[x].reused <=> token[x].reused)
  BY <1>1, <1>6
<1>9. Linked' /\ Forward'
  BY <1>6, <1>7, <1>8, <1>18, RowKeeps
<1>10. Judged'
  <2>1. \A x \in Tokens : token'[x] # None /\ token'[x].reused =>
          token[x] # None /\ token[x].next # None /\ (x \in left \/ token[token[x].next].age # "new")
    BY <1>1, <1>5, <1>18 DEF Inv, Judged
  <2>2. \A x \in Tokens : token[x] # None /\ token[x].next # None =>
          token[x].next \in Tokens /\ token[token[x].next] # None
    BY DEF Inv, Linked, TypeOK, Records
  <2>3. \A x \in Tokens : token'[x] # None /\ token'[x].reused =>
          token'[x].next # None /\ (x \in left' \/ token'[token'[x].next].age # "new")
    BY <1>8, <1>18, <2>1, <2>2
  <2>4. SUFFICES ASSUME NEW s \in Sessions, session'[s] = "COMPROMISED"
        PROVE  \E x \in Tokens : token'[x] # None /\ token'[x].session = s /\ token'[x].reused
    BY <2>3 DEF Judged
  <2>5. CASE s = token[t].session
    BY <1>1, <1>2, <1>3, <1>6, <2>5
  <2>6. CASE s # token[t].session
    <3>1. session[s] = "COMPROMISED"
      BY <1>1, <2>4, <2>6 DEF Inv, TypeOK
    <3>2. PICK x \in Tokens : token[x] # None /\ token[x].session = s /\ token[x].reused
      BY <3>1 DEF Inv, Judged
    <3> QED BY <1>8, <1>18, <2>6, <3>2
  <2> QED BY <2>5, <2>6
<1> QED BY <1>6, <1>7, <1>8, <1>9, <1>10, AnswersDiffer DEF HandledWell

LEMMA HandledIsWell ==
  ASSUME Inv, NEW k \in Keys, NEW answer \in Answers, drawn[k] # None,
         UNCHANGED <<disk, drawn, left>>, Handled(k, answer)
  PROVE  HandledWell(k, answer)
<1>1. CASE answer = "refused" /\ Refused(drawn[k])
  BY <1>1, SameWell, AnswersDiffer DEF Refused, server
<1>2. CASE answer = "refused" /\ Reused(drawn[k], k)
  BY <1>2, ReusedWell
<1>3. ASSUME NEW u \in Tokens, answer = u, Replayed(drawn[k], k, u)
      PROVE  HandledWell(k, answer)
  BY <1>3, SameWell DEF Replayed, server
<1>4. ASSUME NEW u \in Tokens, More(token), answer = u, Rotated(drawn[k], k, u), UNCHANGED session
      PROVE  HandledWell(k, answer)
  BY <1>4, RotatedWell
<1>5. ASSUME NEW u \in Tokens, More(token), answer = "refused", Rotated(drawn[k], k, u),
             session' = [session EXCEPT ![token[drawn[k]].session] = "ENDED"]
      PROVE  HandledWell(k, answer)
  BY <1>5, RotatedWell
<1> QED BY <1>1, <1>2, <1>3, <1>4, <1>5 DEF Handled

\* The answer finds the flight, or nobody.
LEMMA ReplyKeeps ==
  ASSUME Inv, NEW k \in Keys, NEW answer \in Answers, Reply(k, answer), HandledWell(k, answer),
         UNCHANGED client, Trouble \/ UNCHANGED troubles
  PROVE  Inv'
<1>1. UNCHANGED <<disk, awake, drawn, left>> /\ troubles' \in 0 .. MaxTroubles
  BY TroubleTypes DEF Inv, client
<1>2. /\ flight' \in [Keys -> Flights \cup {None}] /\ stray' \in [Keys -> Nat]
      /\ \A j \in Keys : flight'[j] # None => flight[j] # None
      /\ \A j \in Keys : stray'[j] > 0 => stray[j] > 0
      /\ \A j \in Keys : flight'[j] # None /\ flight'[j].answer \in Tokens =>
           flight[j].answer = flight'[j].answer \/ (j = k /\ flight'[j].answer = answer)
  <2>1. CASE flight[k] # None /\ flight' = [flight EXCEPT ![k].answer = answer] /\ UNCHANGED stray
    <3> DEFINE answered == [flight[k] EXCEPT !.answer = answer]
    <3>1. flight[k] \in Flights
      BY <2>1 DEF Inv, TypeOK
    <3>2. answered \in Flights /\ answered.answer = answer
      BY <3>1 DEF Flights
    <3>3. flight' = [flight EXCEPT ![k] = answered]
      BY <2>1 DEF Inv, TypeOK
    <3> HIDE DEF answered
    <3> QED BY <2>1, <3>2, <3>3, Nones DEF Inv, TypeOK
  <2>2. CASE stray[k] > 0 /\ stray' = [stray EXCEPT ![k] = @ - 1] /\ UNCHANGED flight
    BY <2>2 DEF Inv, TypeOK
  <2> QED BY <2>1, <2>2 DEF Reply
<1>3. TypeOK'
  BY <1>1, <1>2 DEF Inv, TypeOK, HandledWell
<1>4. Answered'
  <2>1. SUFFICES ASSUME NEW j \in Keys, flight'[j] # None, flight'[j].answer \in Tokens
                 PROVE  token'[drawn[j]].next = flight'[j].answer
    BY <1>1 DEF Answered
  <2>2. flight[j] # None /\ drawn[j] \in Tokens /\ token[drawn[j]] # None
    BY <1>2, <2>1 DEF Inv, TypeOK, Linked
  <2>3. CASE flight[j].answer = flight'[j].answer
    BY <2>1, <2>2, <2>3, Nones DEF Inv, Answered, HandledWell
  <2>4. CASE j = k /\ flight'[j].answer = answer
    BY <2>1, <2>4 DEF HandledWell
  <2> QED BY <1>2, <2>1, <2>3, <2>4
<1> QED BY <1>1, <1>3, <1>4 DEF Inv, HandledWell, Kept, Reusable

LEMMA ServeKeeps ==
  ASSUME Inv, NEW k \in Keys, Serve(k) \/ ServeBusy(k) \/ ServeBroken(k)
  PROVE  Inv'
<1>1. drawn[k] # None /\ UNCHANGED <<disk, drawn, left>> /\ UNCHANGED client
  BY DEF Inv, TypeOK, Serve, ServeBusy, ServeBroken, Asked, client
<1>2. CASE Serve(k)
  BY <1>1, <1>2, HandledIsWell, ReplyKeeps DEF Serve
<1>3. CASE ServeBusy(k)
  <2>1. CASE UNCHANGED server
    <3>1. HandledWell(k, "busy")
      BY <1>1, <2>1, SameWell, AnswersDiffer DEF server
    <3> QED BY <1>1, <1>3, <3>1, ReplyKeeps DEF ServeBusy, Answers
  <2>2. ASSUME NEW answer \in Answers, Handled(k, answer)
        PROVE  Inv'
    <3>1. HandledWell(k, answer)
      BY <1>1, <2>2, HandledIsWell
    <3>2. HandledWell(k, "busy")
      BY <3>1, AnswersDiffer DEF HandledWell
    <3> QED BY <1>1, <1>3, <3>2, ReplyKeeps DEF ServeBusy, Answers
  <2> QED BY <1>3, <2>1, <2>2 DEF ServeBusy
<1>4. CASE ServeBroken(k)
  <2>1. HandledWell(k, "refused")
    BY <1>1, <1>4, SameWell, AnswersDiffer DEF ServeBroken, Broken, server
  <2> QED BY <1>1, <1>4, <2>1, ReplyKeeps DEF ServeBroken, Answers
<1> QED BY <1>2, <1>3, <1>4

LEMMA EndKeeps ==
  ASSUME Inv, NEW s \in Sessions, End(s)
  PROVE  Inv'
<1>1. UNCHANGED <<token, disk, awake, drawn, left, flight, stray, troubles>>
  BY DEF End, client
<1>2. TypeOK'
  BY <1>1 DEF Inv, TypeOK, End
<1>3. \A r \in Sessions : session'[r] = "COMPROMISED" => session[r] = "COMPROMISED"
  BY DEF Inv, TypeOK, End
<1>4. Judged'
  BY <1>1, <1>3 DEF Inv, Judged
<1> QED BY <1>1, <1>2, <1>4 DEF Inv, Linked, Answered, Kept, Forward, Reusable

LEMMA AgeKeeps ==
  ASSUME Inv, NEW t \in Tokens, Age(t)
  PROVE  Inv'
<1> DEFINE row == [token[t] EXCEPT !.age = IF token[t].age = "new" THEN "late" ELSE "expired"]
<1>1. /\ token[t] # None /\ token[t] \in Records /\ token' = [token EXCEPT ![t] = row]
      /\ UNCHANGED <<session, disk, awake, drawn, left, flight, stray, troubles>>
  BY DEF Inv, TypeOK, Age, client
<1>2. /\ row \in Records /\ row.next = token[t].next /\ row.session = token[t].session
      /\ row.key = token[t].key /\ row.reused = token[t].reused /\ row.age # "new"
  BY <1>1 DEF Records
<1>3. row # None
  BY <1>2, Nones
<1> HIDE DEF row
<1>4. /\ token' \in [Tokens -> Records \cup {None}] /\ token'[t] = row
      /\ \A x \in Tokens : x # t => token'[x] = token[x]
  BY <1>1, <1>2 DEF Inv, TypeOK
<1>5. \A x \in Tokens : token[x] # None =>
        /\ token'[x] # None /\ token'[x].session = token[x].session
        /\ token'[x].next = token[x].next /\ token'[x].key = token[x].key
        /\ token[x].age # "new" => token'[x].age # "new"
  BY <1>1, <1>2, <1>3, <1>4
<1>15. /\ \A x \in Tokens : token'[x] # None => token[x] # None
       /\ \A x \in Tokens : token'[x].reused <=> token[x].reused
  BY <1>1, <1>2, <1>4
<1>6. TypeOK'
  BY <1>1, <1>4 DEF Inv, TypeOK
<1>7. Linked' /\ Forward' /\ Answered'
  BY <1>1, <1>4, <1>5, <1>6, <1>15, RowKeeps DEF TypeOK
<1>8. Kept'
  BY <1>1 DEF Inv, Kept, Reusable
<1>9. Judged'
  <2>1. \A x \in Tokens : token[x] # None /\ token[x].next # None =>
          token[x].next \in Tokens /\ token[token[x].next] # None
    BY DEF Inv, Linked, TypeOK, Records
  <2>2. \A x \in Tokens : token'[x] # None /\ token'[x].reused =>
          token'[x].next # None /\ (x \in left' \/ token'[token'[x].next].age # "new")
    BY <1>1, <1>5, <1>15, <2>1 DEF Inv, Judged
  <2>3. \A s \in Sessions : session'[s] = "COMPROMISED" =>
          \E x \in Tokens : token'[x] # None /\ token'[x].session = s /\ token'[x].reused
    BY <1>1, <1>5, <1>15 DEF Inv, Judged
  <2> QED BY <2>2, <2>3 DEF Judged
<1> QED BY <1>6, <1>7, <1>8, <1>9 DEF Inv

--------------------------------------------------------------------------------
\* The invariant holds in every state, for any number of sessions, tokens, keys and troubles.
THEOREM Invariance == Spec => []Inv
<1>1. Inv /\ [Next]_vars => Inv'
  <2> SUFFICES ASSUME Inv, [Next]_vars PROVE Inv'
    OBVIOUS
  <2>1. CASE Prepare
    BY <2>1, PrepareKeeps
  <2>2. CASE Turn
    BY <2>2, TurnKeeps
  <2>3. CASE SignOut
    BY <2>3, SignOutKeeps
  <2>4. CASE Activate
    BY <2>4, ActivateKeeps
  <2>5. CASE Stop
    BY <2>5, StopKeeps
  <2>6. CASE Restore
    BY <2>6, RestoreKeeps
  <2>7. ASSUME NEW k \in Keys, Fail(k) \/ Take(k)
        PROVE  Inv'
    BY <2>7, FailKeeps, TakeKeeps
  <2>8. ASSUME NEW k \in Keys, Serve(k) \/ ServeBusy(k) \/ ServeBroken(k)
        PROVE  Inv'
    BY <2>8, ServeKeeps
  <2>9. ASSUME NEW s \in Sessions, End(s)
        PROVE  Inv'
    BY <2>9, EndKeeps
  <2>10. ASSUME NEW t \in Tokens, Age(t)
         PROVE  Inv'
    BY <2>10, AgeKeeps
  <2>11. CASE UNCHANGED vars
    BY <2>11 DEF vars, Inv, TypeOK, Linked, Answered, Kept, Forward, Judged, Reusable
  <2> QED BY <2>1, <2>2, <2>3, <2>4, <2>5, <2>6, <2>7, <2>8, <2>9, <2>10, <2>11 DEF Next
<1> QED BY <1>1, InitInv, PTL DEF Spec

\* The variables have their types.
THEOREM TypeCorrect == Spec => []TypeOK
<1>1. Inv => TypeOK
  BY DEF Inv
<1> QED BY <1>1, Invariance, PTL

\* Whatever is lost, refused or interrupted, the client can ask for its next token again, unless
\* the generation changed under the rotation.
THEOREM AlwaysRecoverable == Spec => []Recoverable
<1>1. Inv => Recoverable
  <2> SUFFICES ASSUME Inv, disk.token # None, disk.token \notin left, token[disk.token].next # None
               PROVE  /\ Reusable(disk.rotation)
                      /\ disk.rotation.key = token[token[disk.token].next].key
    BY DEF Recoverable
  <2>1. disk.token \in Tokens /\ token[disk.token] # None
    BY DEF Inv, TypeOK, Linked
  <2> QED BY <2>1 DEF Inv, Linked, Kept
<1> QED BY <1>1, Invariance, PTL

\* A session is only called compromised after a window has closed or a token was left behind.
THEOREM HonestKept == Spec => []HonestSessionKept
<1>1. Inv => HonestSessionKept
  BY DEF Inv, Judged, HonestSessionKept
<1> QED BY <1>1, Invariance, PTL
================================================================================
