----------------------------- MODULE TokenRotation -----------------------------
(***************************************************************************)
(* The rotation of the extension's refresh token, between the client        *)
(* (packages/control-client/src/client.js) and the server                   *)
(* (extension-auth/src/index.ts, db/src/extension-auth-repository.ts).      *)
(*                                                                         *)
(* The client writes the key of a rotation down before it asks; the server  *)
(* derives the next token from the old one and that key, so that the same   *)
(* question can be answered again for a while, and takes another key for    *)
(* the sign of a stolen token.                                              *)
(*                                                                         *)
(* The client changes its state in a queue, the record first and the memory *)
(* after it: one step.  After a write that failed it does nothing until the *)
(* worker starts again: a stop before the step or after it.  Only a denial  *)
(* goes on, and removes the record.                                         *)
(***************************************************************************)
EXTENDS Naturals, FiniteSets

CONSTANTS Sessions, Tokens, Keys,
          MaxTroubles,   \* bound: stops, lost or refused answers, changes of the generation
          None

Answers   == Tokens \cup {"refused", "busy"}
Records   == [session : Sessions, next : Tokens \cup {None}, key : Keys \cup {None},
              age : {"new", "late", "expired"}, reused : BOOLEAN]
Rotations == [generation : Nat, token : Tokens, key : Keys]
Flights   == [generation : Nat, again : BOOLEAN, answer : Answers \cup {None}]

ASSUME RotationBound == MaxTroubles \in Nat
ASSUME RotationNone ==
  None \notin Answers \cup Keys \cup Records \cup Rotations \cup Flights
ASSUME AnswersDiffer == "refused" \notin Tokens /\ "busy" \notin Tokens

VARIABLES
  session,   \* server: "none", "ACTIVE", "ENDED" or "COMPROMISED"
  token,     \* server: the tokens of the sessions, and what became of them
  disk,      \* client, durable: generation, token held, rotation prepared
  awake,     \* client: the worker runs, with disk as its memory
  drawn,     \* client: the token every key was drawn for
  flight,    \* client: the refresh that waits for an answer to the key, or has it
  stray,     \* network: requests with the key that nobody waits for any more
  left,      \* history: tokens held with a rotation when the generation changed
  troubles

client == <<disk, awake, drawn, left>>
server == <<session, token>>
vars == <<session, token, disk, awake, drawn, flight, stray, left, troubles>>

Empty == [generation |-> 0, token |-> None, rotation |-> None]

\* An id that has not been used.
More(f) == \E x \in DOMAIN f : f[x] = None
New(f)  == CHOOSE x \in DOMAIN f : f[x] = None

Trouble == troubles < MaxTroubles /\ troubles' = troubles + 1

NoFlights == [k \in Keys |-> None]

--------------------------------------------------------------------------------
\* The client

\* Requests that were under way when the worker stopped.
Strays == [k \in Keys |-> IF flight[k] # None /\ flight[k].answer = None THEN stray[k] + 1 ELSE stray[k]]

Stopped == awake' = FALSE /\ flight' = NoFlights /\ stray' = Strays

\* isCurrent() of the context a refresh goes by.
Current(k) ==
  /\ flight[k].generation = disk.generation
  /\ disk.token # None /\ token[disk.token].session = token[drawn[k]].session
  /\ disk.rotation # None /\ disk.rotation.key = k

\* Mutant: every refresh draws a key.
ReusableNever(rotation) == FALSE

\* A prepared rotation is gone on with: its generation and its token are those of now.
Reusable(rotation) ==
  rotation # None /\ rotation.generation = disk.generation /\ rotation.token = disk.token

Asking == [generation |-> disk.generation, again |-> TRUE, answer |-> None]

\* refresh(): one flight at a time for what is current.
Prepare ==
  /\ awake /\ disk.token # None
  /\ \A k \in Keys : flight[k] # None => ~ Current(k)
  /\ \/ /\ Reusable(disk.rotation)
        /\ flight' = [flight EXCEPT ![disk.rotation.key] = Asking]
        /\ UNCHANGED <<disk, drawn>>
     \/ /\ ~ Reusable(disk.rotation) /\ More(drawn)
        /\ LET k == New(drawn)
           IN  /\ drawn' = [drawn EXCEPT ![k] = disk.token]
               /\ disk' = [disk EXCEPT !.rotation =
                    [generation |-> disk.generation, token |-> disk.token, key |-> k]]
               /\ flight' = [flight EXCEPT ![k] = Asking]
  /\ UNCHANGED <<server, awake, stray, left, troubles>>

\* Mutant: the flight is not cleared after a failure.
EndedNever(k) == flight

Ended(k) == [flight EXCEPT ![k] = None]

\* No answer came: the request is repeated once, at once, while its context is current.
Fail(k) ==
  /\ flight[k] # None /\ flight[k].answer = None
  /\ Trouble
  /\ stray' = [stray EXCEPT ![k] = @ + 1]
  /\ flight' = IF flight[k].again /\ Current(k)
               THEN [flight EXCEPT ![k].again = FALSE] ELSE Ended(k)
  /\ UNCHANGED <<server, client>>

\* invalidateKnown() and localReset(): the generation that follows, with nothing in it.
SignedOut == [generation |-> disk.generation + 1, token |-> None, rotation |-> None]

\* The write of a denial fails: the record is removed, and the worker does nothing more.
Wiped == Trouble /\ Stopped /\ disk' = Empty

\* Mutant: the rotation stays with the token it brought.
TakenOnly(u) == [disk EXCEPT !.token = u]

Taken(u) == [disk EXCEPT !.token = u, !.rotation = None]

\* The answer is committed if the context of the refresh is still current; a refusal of the
\* token signs out, any other failure leaves the rotation for a later refresh.
Take(k) ==
  /\ flight[k] # None /\ flight[k].answer # None
  /\ \/ /\ ~ Current(k) \/ flight[k].answer = "busy"
        /\ flight' = Ended(k)
        /\ UNCHANGED <<disk, awake, stray, troubles>>
     \/ /\ Current(k) /\ flight[k].answer \in Tokens
        /\ disk' = Taken(flight[k].answer)
        /\ flight' = Ended(k)
        /\ UNCHANGED <<awake, stray, troubles>>
     \/ /\ Current(k) /\ flight[k].answer = "refused"
        /\ \/ disk' = SignedOut /\ flight' = Ended(k) /\ UNCHANGED <<awake, stray, troubles>>
           \/ Wiped
  /\ UNCHANGED <<server, drawn, left>>

\* The tokens that are left behind when the generation changes under a rotation.
LeftBehind == IF disk.rotation # None THEN left \cup {disk.token} ELSE left

\* The generation changes and the token stays: a denial that is not terminal drops the
\* rotation, a common denial, a cancelled or failed activation keeps it.
Turn ==
  /\ awake /\ disk.token # None
  /\ Trouble
  /\ \E rotation \in {disk.rotation, None} :
       disk' = [disk EXCEPT !.generation = @ + 1, !.rotation = rotation]
  /\ left' = LeftBehind
  /\ UNCHANGED <<server, awake, drawn, flight, stray>>

\* localReset(), or a terminal denial by another call.
SignOut ==
  /\ awake /\ disk.token # None
  /\ \/ disk' = SignedOut /\ UNCHANGED <<awake, flight, stray, troubles>>
     \/ Wiped
  /\ UNCHANGED <<server, drawn, left>>

\* ensurePolling(): the authorization of the device ends in a session and its first token.
Activate ==
  /\ awake /\ disk.token = None
  /\ More(token)
  /\ \E s \in Sessions :
       /\ session[s] = "none"
       /\ session' = [session EXCEPT ![s] = "ACTIVE"]
       /\ token' = [token EXCEPT ![New(token)] =
            [session |-> s, next |-> None, key |-> None, age |-> "late", reused |-> FALSE]]
       /\ disk' = [generation |-> disk.generation + 1, token |-> New(token), rotation |-> None]
  /\ UNCHANGED <<awake, drawn, flight, stray, left, troubles>>

\* The worker stops.
Stop == awake /\ Trouble /\ Stopped /\ UNCHANGED <<server, disk, drawn, left>>

\* restoreOnce(): what is on record, as it is; or without an authority that was made by
\* another browser, extension or key: the generation changes and the rotation stays; or
\* nothing, when the record contradicts itself.
Restore ==
  /\ ~ awake /\ awake' = TRUE
  /\ \/ UNCHANGED <<disk, left, troubles>>
     \/ /\ Trouble /\ disk.token # None
        /\ disk' = [disk EXCEPT !.generation = @ + 1] /\ left' = LeftBehind
     \/ /\ Trouble /\ disk.token # None
        /\ disk' = SignedOut /\ UNCHANGED left
  /\ UNCHANGED <<server, drawn, flight, stray>>

--------------------------------------------------------------------------------
\* The server: rotateRefresh() locks the token's row, so that a request is one step

Valid(t) == session[token[t].session] = "ACTIVE" /\ token[t].age # "expired"

\* Mutant: the key is looked for with the token that is presented.
ReplayableItself(t, k) == token[t].key = k /\ token[token[t].next].age = "new"

\* The replacement was made for this key, and its window is open.
Replayable(t, k) == token[token[t].next].key = k /\ token[token[t].next].age = "new"

Refused(t) == ~ Valid(t) /\ UNCHANGED server

\* A write of the rotation fails: nothing is changed, and the token is called invalid.
Broken(t) == Valid(t) /\ token[t].next = None /\ UNCHANGED server

Rotated(t, k, u) ==
  /\ Valid(t) /\ token[t].next = None
  /\ u = New(token)
  /\ token' = [token EXCEPT ![t].next = u,
                 ![u] = [session |-> token[t].session, next |-> None, key |-> k,
                         age |-> "new", reused |-> FALSE]]

Replayed(t, k, u) ==
  /\ Valid(t) /\ token[t].next # None
  /\ Replayable(t, k) /\ u = token[t].next
  /\ UNCHANGED server

Reused(t, k) ==
  /\ Valid(t) /\ token[t].next # None
  /\ ~ Replayable(t, k)
  /\ token' = [token EXCEPT ![t].reused = TRUE]
  /\ session' = [session EXCEPT ![token[t].session] = "COMPROMISED"]

\* What the server makes of a request: its answer, and the session may end between the
\* rotation and the look at who holds the session.
Handled(k, answer) ==
  LET t == drawn[k]
  IN  \/ answer = "refused" /\ (Refused(t) \/ Reused(t, k))
      \/ \E u \in Tokens :
           \/ answer = u /\ Replayed(t, k, u)
           \/ More(token) /\ answer = u /\ Rotated(t, k, u) /\ UNCHANGED session
           \/ /\ More(token) /\ answer = "refused" /\ Rotated(t, k, u)
              /\ session' = [session EXCEPT ![token[t].session] = "ENDED"]

Asked(k) == (flight[k] # None /\ flight[k].answer = None) \/ stray[k] > 0

\* The answer reaches the flight, or nobody waits for it.
Reply(k, answer) ==
  \/ /\ flight[k] # None /\ flight[k].answer = None
     /\ flight' = [flight EXCEPT ![k].answer = answer] /\ UNCHANGED stray
  \/ /\ stray[k] > 0
     /\ stray' = [stray EXCEPT ![k] = @ - 1] /\ UNCHANGED flight

\* refresh() of the service.
Serve(k) ==
  /\ Asked(k)
  /\ \E answer \in Answers : Handled(k, answer) /\ Reply(k, answer)
  /\ UNCHANGED <<client, troubles>>

\* The limit of requests, or an error before or after the transaction.
ServeBusy(k) ==
  /\ Asked(k)
  /\ Trouble
  /\ Reply(k, "busy")
  /\ UNCHANGED server \/ \E answer \in Answers : Handled(k, answer)
  /\ UNCHANGED client

ServeBroken(k) ==
  /\ Asked(k)
  /\ Trouble
  /\ Reply(k, "refused")
  /\ Broken(drawn[k])
  /\ UNCHANGED client

\* The session is revoked, or its device or its account is no longer active.
End(s) ==
  /\ session[s] = "ACTIVE"
  /\ session' = [session EXCEPT ![s] = "ENDED"]
  /\ UNCHANGED <<token, client, flight, stray, troubles>>

\* The replay window of a token closes, and later its life ends; it matters no more when its
\* session has ended.
Age(t) ==
  /\ token[t] # None /\ token[t].age # "expired"
  /\ session[token[t].session] = "ACTIVE"
  /\ token' = [token EXCEPT ![t].age = IF @ = "new" THEN "late" ELSE "expired"]
  /\ UNCHANGED <<session, client, flight, stray, troubles>>

--------------------------------------------------------------------------------
Init ==
  /\ session = [s \in Sessions |-> "none"]
  /\ token = [t \in Tokens |-> None]
  /\ disk = Empty
  /\ awake = TRUE
  /\ drawn = [k \in Keys |-> None]
  /\ flight = NoFlights
  /\ stray = [k \in Keys |-> 0]
  /\ left = {}
  /\ troubles = 0

Next ==
  \/ Prepare \/ Turn \/ SignOut \/ Activate \/ Stop \/ Restore
  \/ \E k \in Keys : Fail(k) \/ Take(k) \/ Serve(k) \/ ServeBusy(k) \/ ServeBroken(k)
  \/ \E s \in Sessions : End(s)
  \/ \E t \in Tokens : Age(t)

Spec == Init /\ [][Next]_vars

\* An alarm of the technical scheduler and every call of the account refresh the access, so
\* that a prepared rotation is gone on with; the server answers, the worker starts again.
\* Nothing is assumed of troubles, users, sessions that end and clocks.
Fairness ==
  /\ WF_vars(disk.rotation # None /\ Prepare) /\ WF_vars(Restore)
  /\ \A k \in Keys : WF_vars(Serve(k)) /\ WF_vars(Take(k))

FairSpec == Spec /\ Fairness

--------------------------------------------------------------------------------
\* Properties

\* The variables have their types, what is under way was asked for, and a rotation on record
\* is one of the token on record.
TypeOK ==
  /\ session \in [Sessions -> {"none", "ACTIVE", "ENDED", "COMPROMISED"}]
  /\ token \in [Tokens -> Records \cup {None}]
  /\ disk \in [generation : Nat, token : Tokens \cup {None}, rotation : Rotations \cup {None}]
  /\ awake \in BOOLEAN
  /\ drawn \in [Keys -> Tokens \cup {None}]
  /\ flight \in [Keys -> Flights \cup {None}]
  /\ stray \in [Keys -> Nat]
  /\ left \subseteq Tokens
  /\ troubles \in 0 .. MaxTroubles
  /\ \A k \in Keys : flight[k] # None \/ stray[k] > 0 => drawn[k] # None
  /\ disk.rotation # None => disk.rotation.token = disk.token

\* The token on record is of use as long as its session is: it was not replaced, or the key it
\* was replaced with is on record, to ask again - whatever was lost, refused or interrupted,
\* unless the generation changed under the rotation.
Recoverable ==
  LET t == disk.token
  IN  t # None /\ t \notin left /\ token[t].next # None =>
        /\ Reusable(disk.rotation)
        /\ disk.rotation.key = token[token[t].next].key

\* The session of a client that keeps to its keys is never called compromised: a token was
\* presented again after its window, or was left behind by a change of the generation.
HonestSessionKept ==
  \A s \in Sessions :
    session[s] = "COMPROMISED" =>
      \E t \in Tokens :
        /\ token[t] # None /\ token[t].session = s /\ token[t].reused
        /\ t \in left \/ token[token[t].next].age # "new"

\* A prepared rotation comes to an end: its answer is committed, the token is refused, or the
\* generation changes.
RotationEnds == Reusable(disk.rotation) ~> ~ Reusable(disk.rotation)

\* "For the retry of a rotation keep the same idempotency until the new credentials are safely
\* committed ... a new awakening does not send the old refresh token with a new idempotency
\* key" (docs/development/client-i1/I1_CLIENT_CODEX_EXECUTION_2026-09-15.md:156): no key is
\* drawn for a token that was replaced.
OldRefreshKeepsKey ==
  [][\A k \in Keys : drawn'[k] # drawn[k] => token[drawn'[k]].next = None]_vars
================================================================================
