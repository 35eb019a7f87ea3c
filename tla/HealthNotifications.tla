----------------------------- MODULE HealthNotifications -----------------------------
(***************************************************************************)
(* What becomes of a committed health result: the recent states that tell   *)
(* the newest decisive one (packages/server/db/src/                         *)
(* health-retention-repository.ts), the incident                            *)
(* (health-incident-repository.ts), the notification intents                *)
(* (health-notification-repository.ts) and the workers that deliver them    *)
(* (apps/worker/src/health-notification-runner.ts).                         *)
(*                                                                          *)
(* One observed scope. Its runs are numbered in the order they were         *)
(* observed and completed in; they are committed in any order, and each is  *)
(* processed later, in any order and more than once, since the owner of a   *)
(* run and every reconciling worker do it.                                  *)
(***************************************************************************)
EXTENDS Naturals, FiniteSets, FiniteSetsExt

CONSTANTS
  Workers,      \* processes of the notification job
  Results,      \* what a run may find: its health and what else tells results apart
  MaxSlots,     \* slots of the recent states
  MaxAttempts,  \* MAX_NOTIFICATION_ATTEMPTS
  MaxRuns,      \* bound: runs
  MaxClaims,    \* bound: attempts of all intents together
  MaxTroubles,  \* bound: leases that end while their worker still delivers, failed writes,
                \* stopped workers and runs processed with a commit in between
  None

VARIABLES
  results,    \* health_runs: the result of every committed run
  recent,     \* health_no_session_recent_states
  incident,   \* health_incidents: the last one of the scope
  intents,    \* health_notification_intents by dedup_key
  looked,     \* the run whose processing read the recent states and has not gone on, or 0
  worker,     \* where tickOnce of every worker is
  heard,      \* history: the newest decisive run processed, or 0
  caught,     \* history: intents that were claimed when maintenance was entered
  troubles

episodes == <<incident, heard, caught, looked>>
vars == <<results, recent, incident, intents, worker, heard, caught, looked, troubles>>

Runs == 1 .. MaxRuns
Healths == {"HEALTHY", "DEGRADED", "BROKEN", "UNKNOWN", "MAINTENANCE"}

ASSUME ResultsHaveHealth == \A r \in Results : r.health \in Healths
ASSUME TwoSlots == MaxSlots \in Nat \ {0, 1}
ASSUME RunsAreBounded == MaxRuns \in Nat
ASSUME SomeAttempt == MaxAttempts \in Nat \ {0}
ASSUME TroublesAreBounded == MaxTroubles \in Nat
ASSUME NoneIsNothing == None \notin Nat \cup {"MAINTENANCE"}

\* isIncidentWorthyHealthState and notificationSeverityForHealthState; DRIFT is as DEGRADED.
Failures == {"DEGRADED", "BROKEN"}
SeverityOf(health) == IF health = "BROKEN" THEN "CRITICAL" ELSE "WARNING"
Rank(severity) == CASE severity = "INFO" -> 0 [] severity = "WARNING" -> 1 [] OTHER -> 2

\* notificationDedupKey: an escalation is always one to CRITICAL.
Product == {"INCIDENT_OPENED", "INCIDENT_ESCALATED"}
Kinds == Product \cup {"INCIDENT_RECOVERED", "MAINTENANCE_ENTERED", "MAINTENANCE_EXITED"}
Key(episode, kind) == [episode |-> episode, kind |-> kind]
Keys == [episode: Runs, kind: Kinds]

Waiting == {"PENDING", "FAILED_RETRYABLE"}
Settled == {"DELIVERED", "FAILED_TERMINAL", "SUPPRESSED"}
\* Something that seldom happens
Trouble == troubles < MaxTroubles /\ troubles' = troubles + 1

Off == [phase |-> "idle", key |-> None, token |-> None, code |-> None]

With(f, k, v) == [x \in DOMAIN f \cup {k} |-> IF x = k THEN v ELSE f[x]]

--------------------------------------------------------------------------------
\* The recent states: recordNoSessionCompactStateInTransaction

Decisive(row) == row.result.health # "UNKNOWN"

Oldest(rows) == {x \in rows : \A y \in rows : x.run <= y.run}

\* Mutant: the oldest row gives way, whatever it is.
ReplacedOldest(rows, new) == {x \in Oldest(rows) : new.run > x.run}

\* Which row a result takes the slot of when none is free: a decisive one only when it is
\* the newest decisive, and unknown ones go first.
Replaced(rows, new) ==
  LET unknown == Oldest({x \in rows : ~Decisive(x)})
      place == IF unknown # {} THEN unknown ELSE Oldest(rows)
  IN IF Decisive(new)
     THEN IF \E x \in rows : Decisive(x) /\ x.run >= new.run THEN {}
          ELSE {x \in place : ~Decisive(x) \/ new.run > x.run}
     ELSE {x \in place : new.run > x.run}

\* Mutant: a repeated result takes a slot of its own.
ProjectAnew(rows, new) ==
  IF Cardinality(rows) < MaxSlots THEN rows \cup {new}
  ELSE IF Replaced(rows, new) = {} THEN rows
  ELSE (rows \ Replaced(rows, new)) \cup {new}

Project(rows, new) ==
  LET same == {x \in rows : x.result = new.result}
  IN IF same # {}
     THEN (rows \ same) \cup {IF x.run < new.run THEN new ELSE x : x \in same}
     ELSE IF Cardinality(rows) < MaxSlots THEN rows \cup {new}
     ELSE IF Replaced(rows, new) = {} THEN rows
     ELSE (rows \ Replaced(rows, new)) \cup {new}

\* The result and its projection are one transaction.
Commit(n, r) ==
  /\ n \notin DOMAIN results
  /\ results' = With(results, n, r)
  /\ recent' = Project(recent, [result |-> r, run |-> n])
  /\ UNCHANGED <<episodes, intents, worker, troubles>>

--------------------------------------------------------------------------------
\* Incidents: processCompletedHealthRun, one transaction. Its share lock keeps a newer
\* result from being committed after it, but it may have waited for one that was being
\* committed, and then goes on with the recent states of before.

\* Mutant: only a run of the same result supersedes.
SupersededBySame(n) == \E x \in recent : x.result = results[n] /\ x.run > n

\* noSessionRunIsSuperseded
Superseded(n) == \E x \in recent : Decisive(x) /\ x.run > n

\* disabled is a history: the route was, the last time the intent was sent.
Row(severity) ==
  [state |-> "PENDING", severity |-> severity, token |-> None, attempts |-> 0, reason |-> None,
   disabled |-> FALSE]

\* ON CONFLICT DO NOTHING
Recorded(rows, k, row) == IF k \in DOMAIN rows THEN rows ELSE With(rows, k, row)

Active == incident.status \in {"OPEN", "MAINTENANCE"}
Now == incident.episode

Announced(rows, kind) == Recorded(rows, Key(Now, kind), Row("INFO"))

ResolvedBy(n) ==
  /\ incident' = [incident EXCEPT !.status = "RESOLVED", !.last = n, !.late = Superseded(n)]
  /\ intents' = Announced(IF incident.status = "MAINTENANCE"
                          THEN Announced(intents, "MAINTENANCE_EXITED") ELSE intents,
                          "INCIDENT_RECOVERED")
  /\ caught' = {}

ProductKeys(rows) == {k \in DOMAIN rows : k.episode = Now /\ k.kind \in Product}

\* Mutant: only what was never sent is silenced.
SilencedFresh(rows) ==
  [k \in DOMAIN rows |->
     IF k \in ProductKeys(rows) /\ rows[k].state = "PENDING"
     THEN [rows[k] EXCEPT !.state = "SUPPRESSED", !.reason = "MAINTENANCE", !.token = None]
     ELSE rows[k]]

\* suppressLlmHealthProductNotificationsInTransaction: what is claimed goes on.
Silenced(rows) ==
  [k \in DOMAIN rows |->
     IF k \in ProductKeys(rows) /\ rows[k].state \in Waiting
     THEN [rows[k] EXCEPT !.state = "SUPPRESSED", !.reason = "MAINTENANCE", !.token = None]
     ELSE rows[k]]

EnteredBy(n) ==
  /\ incident' = [incident EXCEPT !.status = "MAINTENANCE", !.last = n, !.late = Superseded(n)]
  /\ IF incident.status = "MAINTENANCE" THEN UNCHANGED <<intents, caught>>
     ELSE /\ intents' = Silenced(Announced(intents, "MAINTENANCE_ENTERED"))
          /\ caught' = {k \in ProductKeys(intents) : intents[k].state = "CLAIMED"}

\* Mutant: only what never was sent is resumed.
ResumedUntouched(rows) ==
  LET k == Key(Now, "INCIDENT_OPENED")
  IN IF k \in DOMAIN rows /\ rows[k].reason = "MAINTENANCE" /\ rows[k].attempts = 0
     THEN [rows EXCEPT ![k].state = "PENDING", ![k].reason = None] ELSE rows

\* resumeLlmHealthProductNotificationInTransaction: the alert of the opening only
Resumed(rows) ==
  LET k == Key(Now, "INCIDENT_OPENED")
  IN IF k \in DOMAIN rows /\ rows[k].state = "SUPPRESSED" /\ rows[k].reason = "MAINTENANCE"
     THEN [rows EXCEPT ![k].state = "PENDING", ![k].reason = None] ELSE rows

\* The one of the highest severity: WARNING for the opening and CRITICAL for what follows,
\* or CRITICAL for the opening and nothing after it
Worst(rows) ==
  CHOOSE k \in ProductKeys(rows) :
    \A o \in ProductKeys(rows) : Rank(rows[k].severity) >= Rank(rows[o].severity)

\* Mutant: an alert that was not sent yet is not followed by another.
ObservedUnsent(rows, health) ==
  LET k == Worst(rows)
      seen == [rows EXCEPT ![k].reason = None]
  IN IF Rank(SeverityOf(health)) > Rank(rows[k].severity) /\ rows[k].state = "DELIVERED"
     THEN Recorded(seen, Key(Now, "INCIDENT_ESCALATED"), Row(SeverityOf(health))) ELSE seen

\* observeLlmHealthFailureInTransaction: a failure that is worse gets an intent of its own,
\* any other only its mark on the worst one, whose reason it writes over (COOLDOWN or none,
\* which nobody tells apart).
Observed(rows, health) ==
  LET k == Worst(rows)
      seen == [rows EXCEPT ![k].reason = None]
  IN IF Rank(SeverityOf(health)) > Rank(rows[k].severity)
     THEN Recorded(seen, Key(Now, "INCIDENT_ESCALATED"), Row(SeverityOf(health))) ELSE seen

FailedAgain(n) ==
  /\ incident' = [incident EXCEPT !.status = "OPEN", !.last = n, !.seen = n, !.late = Superseded(n)]
  /\ intents' = Observed(IF incident.status = "MAINTENANCE"
                         THEN Announced(Resumed(intents), "MAINTENANCE_EXITED")
                         ELSE intents, results[n].health)
  /\ caught' = {}

OpenedBy(n) ==
  /\ incident' = [episode |-> Now + 1, status |-> "OPEN", seen |-> n, last |-> n, late |-> Superseded(n)]
  /\ intents' = Recorded(intents, Key(Now + 1, "INCIDENT_OPENED"),
                         Row(SeverityOf(results[n].health)))
  /\ UNCHANGED caught

\* UNKNOWN, older than what the incident knows, or no incident it could end
Pointless(n) ==
  \/ results[n].health = "UNKNOWN"
  \/ incident.status # "NONE" /\ n <= incident.last
  \/ ~Active /\ results[n].health \notin Failures

Heard(n) == IF results[n].health # "UNKNOWN" /\ n > heard THEN n ELSE heard

Apply(n) ==
  /\ heard' = Heard(n)
  /\ \/ results[n].health = "HEALTHY" /\ ResolvedBy(n)
     \/ results[n].health = "MAINTENANCE" /\ EnteredBy(n)
     \/ results[n].health \in Failures /\ Active /\ FailedAgain(n)
     \/ results[n].health \in Failures /\ ~Active /\ OpenedBy(n)

Process(n) ==
  /\ n \in DOMAIN results
  /\ IF Superseded(n) \/ Pointless(n)
     THEN heard' = Heard(n) /\ UNCHANGED <<incident, intents, caught>>
     ELSE Apply(n)
  /\ UNCHANGED <<results, recent, looked, worker, troubles>>

\* The recent states are read while a newer result is being committed (READ COMMITTED:
\* only the locked rows are read again after the wait).
Look(n) ==
  /\ n \in DOMAIN results /\ ~Superseded(n)
  /\ looked = 0 /\ looked' = n
  /\ Trouble
  /\ UNCHANGED <<results, recent, incident, heard, caught, intents, worker>>

ProcessLooked ==
  /\ looked # 0
  /\ IF Pointless(looked)
     THEN heard' = Heard(looked) /\ UNCHANGED <<incident, intents, caught>>
     ELSE Apply(looked)
  /\ looked' = 0
  /\ UNCHANGED <<results, recent, worker, troubles>>

--------------------------------------------------------------------------------
\* Delivery: tickOnce of a worker. When an intent is due and when a lease ends is left
\* open: the backoff and the clock decide.

Claims == MapThenSumSet(LAMBDA k : intents[k].attempts, DOMAIN intents)

Deserted(k) == \A v \in Workers : worker[v].key # k

\* claimDue, its UPDATE: every claim has a token of its own, here its number.
Claim(w) ==
  /\ worker[w] = Off /\ Claims < MaxClaims
  /\ \E k \in DOMAIN intents :
       /\ \/ intents[k].state \in Waiting /\ UNCHANGED troubles
          \/ intents[k].state = "CLAIMED" /\ (IF Deserted(k) THEN UNCHANGED troubles ELSE Trouble)
       /\ intents' = [intents EXCEPT ![k].state = "CLAIMED", ![k].attempts = @ + 1,
                                     ![k].token = intents[k].attempts + 1]
       /\ worker' = [worker EXCEPT ![w] = [Off EXCEPT !.phase = "claimed", !.key = k]]
  /\ UNCHANGED <<results, recent, episodes>>

\* RATE_LIMIT and a lost answer are as TRANSIENT, CONFIGURATION_ERROR is as PERMANENT.
Codes == {"TRANSIENT", "PERMANENT", "DISABLED_ROUTE"}

\* claimDue, the SELECT after it, in no transaction with the UPDATE: the row may be
\* another's by now. Without a token the runner gives up, else the provider answers.
Deliver(w) ==
  LET token == intents[worker[w].key].token
      read == [worker[w] EXCEPT !.token = token]
  IN /\ worker[w].phase = "claimed"
     /\ \/ token = None /\ worker' = [worker EXCEPT ![w] = [Off EXCEPT !.phase = "stopped"]]
        \/ token # None /\ worker' = [worker EXCEPT ![w] = [read EXCEPT !.phase = "accepted"]]
        \/ token # None /\ \E c \in Codes :
             worker' = [worker EXCEPT ![w] = [read EXCEPT !.phase = "failing", !.code = c]]
     /\ UNCHANGED <<results, recent, episodes, intents, troubles>>

\* Mutant: whoever claimed the intent once still speaks for it.
HoldsClaimForever(w) == worker[w].key # None

HoldsClaim(w) ==
  /\ intents[worker[w].key].state = "CLAIMED"
  /\ intents[worker[w].key].token = worker[w].token

\* A write that fails, and a claim that is gone, are failures of the delivery.
MarkDelivered(w) ==
  /\ worker[w].phase = "accepted"
  /\ \/ /\ HoldsClaim(w)
        /\ intents' = [intents EXCEPT ![worker[w].key].state = "DELIVERED",
                                      ![worker[w].key].token = None]
        /\ worker' = [worker EXCEPT ![w] = Off]
        /\ UNCHANGED troubles
     \/ /\ IF HoldsClaim(w) THEN Trouble ELSE UNCHANGED troubles
        /\ worker' = [worker EXCEPT ![w].phase = "failing", ![w].code = "TRANSIENT"]
        /\ UNCHANGED intents
  /\ UNCHANGED <<results, recent, episodes>>

\* Mutant: the limit is looked at before the last attempt is counted.
ExhaustedLate(row) == row.attempts > MaxAttempts

Exhausted(row) == row.attempts >= MaxAttempts

\* failClaim. A claim that is gone stops the runner.
FailClaim(w) ==
  LET k == worker[w].key
      state == CASE worker[w].code = "DISABLED_ROUTE" -> "SUPPRESSED"
                 [] worker[w].code = "PERMANENT" \/ Exhausted(intents[k]) -> "FAILED_TERMINAL"
                 [] OTHER -> "FAILED_RETRYABLE"
  IN /\ worker[w].phase = "failing"
     /\ IF HoldsClaim(w)
        THEN /\ intents' = [intents EXCEPT ![k].state = state, ![k].token = None,
                              ![k].reason = IF state = "SUPPRESSED" THEN "DISABLED" ELSE None,
                              ![k].disabled = state = "SUPPRESSED"]
             /\ worker' = [worker EXCEPT ![w] = Off]
        ELSE /\ worker' = [worker EXCEPT ![w] = [Off EXCEPT !.phase = "stopped"]]
             /\ UNCHANGED intents
     /\ UNCHANGED <<results, recent, episodes, troubles>>

\* A process that stopped, or is stopped, is started again.
Restart(w) ==
  /\ worker[w] # Off
  /\ IF worker[w].phase = "stopped" THEN UNCHANGED troubles ELSE Trouble
  /\ worker' = [worker EXCEPT ![w] = Off]
  /\ UNCHANGED <<results, recent, episodes, intents>>

--------------------------------------------------------------------------------
Init ==
  /\ results = <<>>
  /\ recent = {}
  /\ incident = [episode |-> 0, status |-> "NONE", seen |-> 0, last |-> 0, late |-> FALSE]
  /\ intents = <<>>
  /\ worker = [w \in Workers |-> Off]
  /\ heard = 0
  /\ caught = {}
  /\ looked = 0
  /\ troubles = 0

Next ==
  \/ ProcessLooked
  \/ \E n \in Runs : Process(n) \/ Look(n) \/ \E r \in Results : Commit(n, r)
  \/ \E w \in Workers :
       Claim(w) \/ Deliver(w) \/ MarkDelivered(w) \/ FailClaim(w) \/ Restart(w)

Spec == Init /\ [][Next]_vars

--------------------------------------------------------------------------------
States == Waiting \cup Settled \cup {"CLAIMED"}
Tokens == Nat \cup {None}

\* Every variable has its type. No result holds two slots of the recent states, no more
\* slots are used than there are, and an intent has a token exactly while it is claimed.
TypeOK ==
  /\ DOMAIN results \subseteq Runs /\ \A n \in DOMAIN results : results[n] \in Results
  /\ recent \subseteq [result : Results, run : Runs]
  /\ Cardinality(recent) <= MaxSlots
  /\ \A x, y \in recent : x.result = y.result => x = y
  /\ incident \in [episode : 0 .. MaxRuns, status : {"NONE", "OPEN", "MAINTENANCE", "RESOLVED"},
                   seen : 0 .. MaxRuns, last : 0 .. MaxRuns, late : BOOLEAN]
  /\ DOMAIN intents \subseteq Keys
  /\ \A k \in DOMAIN intents :
       /\ intents[k] \in [state : States, severity : {"INFO", "WARNING", "CRITICAL"}, token : Tokens, attempts : Nat,
                          reason : {None, "MAINTENANCE", "DISABLED"},
                          disabled : BOOLEAN]
       /\ intents[k].state = "CLAIMED" <=> intents[k].token # None
  /\ worker \in [Workers -> [phase : {"idle", "claimed", "accepted", "failing", "stopped"},
                             key : Keys \cup {None}, token : Tokens, code : Codes \cup {None}]]
  /\ heard \in {0} \cup DOMAIN results /\ caught \subseteq DOMAIN intents
  /\ looked \in 0 .. MaxRuns
  /\ troubles \in 0 .. MaxTroubles

DecisiveRuns == {n \in DOMAIN results : results[n].health # "UNKNOWN"}
Newest(n) == n \in DecisiveRuns /\ \A o \in DecisiveRuns : o <= n

\* However results arrive and whatever they push out of the slots, the newest decisive one
\* is still among the recent states: it is what an older run is compared with.
NewestDecisiveKept ==
  \A n \in Runs : Newest(n) => [result |-> results[n], run |-> n] \in recent

Fits(health) ==
  CASE health \in Failures -> incident.status = "OPEN"
    [] health = "MAINTENANCE" -> incident.status # "OPEN"
    [] OTHER -> ~Active

\* Once the newest decisive run is processed the incident says what it found, in whatever
\* order the runs before it are processed, again or for the first time; unless the last
\* to change it had read the recent states before a newer result was committed.
IncidentIsCurrent ==
  \A n \in Runs : Newest(n) /\ heard = n /\ ~incident.late => Fits(results[n].health)

\* During maintenance no alert about the product waits for its first attempt, and one is being
\* sent, or waits for another attempt, only when it was claimed already as the maintenance was
\* entered: suppress... leaves that one alone.
MaintenanceIsQuiet ==
  incident.status = "MAINTENANCE" =>
    \A k \in ProductKeys(intents) :
      /\ intents[k].state # "PENDING"
      /\ intents[k].state \in {"CLAIMED", "FAILED_RETRYABLE"} => k \in caught

\* When the product fails again after maintenance the alert of the opening is not left
\* suppressed, whatever was written over the reason meanwhile; only a disabled route keeps
\* it so.
AlertResumed ==
  incident.status = "OPEN" =>
    LET k == Key(Now, "INCIDENT_OPENED")
    IN k \in DOMAIN intents /\ (intents[k].state = "SUPPRESSED" => intents[k].disabled)

\* The alert is not kept silent, but by a disabled route, or for being an escalation of an
\* incident that was under maintenance since: resume... does not bring that one back.
Audible(k) ==
  intents[k].state = "SUPPRESSED" =>
    \/ intents[k].disabled
    \/ k.kind = "INCIDENT_ESCALATED" /\ Key(Now, "MAINTENANCE_ENTERED") \in DOMAIN intents

\* The last failure of an open incident has an alert at least as severe that is not kept
\* silent, whether it came within a cooldown, after maintenance or before the first alert was
\* sent; and an incident has one alert for each severity, however often its runs are
\* processed.
SeverityTold ==
  /\ incident.status = "OPEN" =>
       \E k \in ProductKeys(intents) :
         /\ Rank(intents[k].severity) >= Rank(SeverityOf(results[incident.seen].health))
         /\ Audible(k)
  /\ Active => \A k, o \in ProductKeys(intents) : intents[k].severity = intents[o].severity => k = o

\* Beyond its MaxAttempts attempts an intent is only taken over from a worker that claimed it
\* and did not say how it went: none that waits, for the first time, after a failure or
\* after it was resumed, is claimed beyond the limit.
RetriesBounded ==
  [][\A k \in DOMAIN intents :
       /\ intents'[k].attempts > intents[k].attempts
       /\ intents[k].attempts >= MaxAttempts
       => intents[k].state = "CLAIMED"]_vars

\* What was delivered, or given up, stays so: no late answer of another worker, no
\* maintenance and no later failure of the product opens the intent again.
SettledStays ==
  [][\A k \in DOMAIN intents : intents[k].state \in {"DELIVERED", "FAILED_TERMINAL"} =>
       k \in DOMAIN intents' /\ intents'[k].state = intents[k].state]_vars
================================================================================
