-------------------------- MODULE HealthNotificationsProofs --------------------------
(***************************************************************************)
(* What HealthNotifications promises, proved for any number of results,     *)
(* runs, slots (two or more), workers and troubles.                         *)
(*                                                                          *)
(* The slots of the recent states keep the newest decisive result           *)
(* (NewestKept), so the runs that are processed are compared with the right *)
(* one, and the incident says what that result found (Current). The rest    *)
(* is about the intents of the last incident: their keys belong to no       *)
(* later one, so an opened incident gets an alert of its own.               *)
(***************************************************************************)
EXTENDS HealthNotifications, FiniteSetTheorems, WellFoundedInduction, TLAPS

--------------------------------------------------------------------------------
\* The recent states

Rows == [result : Results, run : Runs]

\* A non-empty set of rows has an oldest one.
LEMMA OldestExists ==
  ASSUME NEW rows, rows \subseteq Rows, rows # {}
  PROVE  Oldest(rows) # {}
<1> DEFINE times == {x.run : x \in rows}
           order == {ss \in Nat \X Nat : ss[1] < ss[2]}
<1>1. times \subseteq Nat /\ times # {}
  BY RunsAreBounded DEF Rows, Runs
<1>2. order = OpToRel(<, Nat)
  BY DEF OpToRel
<1>3. IsWellFoundedOn(order, Nat)
  BY <1>2, NatLessThanWellFounded
<1>4. PICK n \in times : \A m \in times : ~ (<<m, n>> \in order)
  <2> HIDE DEF order, times
  <2> QED BY <1>1, <1>3, WFMin
<1>5. \A m \in times : n <= m
  <2> HIDE DEF times
  <2> SUFFICES ASSUME NEW m \in times PROVE n <= m
    OBVIOUS
  <2>1. m \in Nat /\ n \in Nat
    BY <1>1
  <2>2. m < n => <<m, n>> \in order
    BY <2>1
  <2> QED BY <2>1, <2>2, <1>4
<1>6. PICK x \in rows : x.run = n
  BY <1>4
<1>7. x \in Oldest(rows)
  BY <1>5, <1>6 DEF Oldest
<1> QED BY <1>7

\* A result changes the recent states by nothing but itself.
LEMMA ProjectIn ==
  ASSUME NEW rows, NEW new, IsFiniteSet(rows)
  PROVE  /\ Project(rows, new) \subseteq rows \cup {new}
         /\ IsFiniteSet(Project(rows, new))
<1>1. Project(rows, new) \subseteq rows \cup {new}
  BY DEF Project
<1> QED BY <1>1, FS_Subset, FS_AddElement

\* The newest decisive one of the rows and the result that comes stays, or enters.
LEMMA NewestStays ==
  ASSUME NEW rows, rows \subseteq Rows, IsFiniteSet(rows),
         NEW new \in Rows, NEW r \in rows \cup {new}, Decisive(r),
         \A x \in rows \cup {new} : Decisive(x) => x.run <= r.run,
         \A x, y \in rows \cup {new} : x.run = y.run => x = y
  PROVE  r \in Project(rows, new)
<1> DEFINE same == {x \in rows : x.result = new.result}
           place == IF Oldest({x \in rows : ~Decisive(x)}) # {}
                    THEN Oldest({x \in rows : ~Decisive(x)}) ELSE Oldest(rows)
<1>0. /\ Cardinality(rows) \in Nat /\ MaxSlots \in Nat /\ MaxSlots >= 2
      /\ \A x \in rows \cup {new} : x.run \in Nat
  BY FS_CardinalityType, TwoSlots, RunsAreBounded DEF Rows, Runs
<1>1. CASE same # {}
  <2>1. Project(rows, new) = (rows \ same) \cup {IF x.run < new.run THEN new ELSE x : x \in same}
    BY <1>1 DEF Project
  <2>2. CASE r \in rows
    <3>1. r \in same => new.run <= r.run
      BY <2>2 DEF Decisive
    <3>2. r \in same => (IF r.run < new.run THEN new ELSE r) = r
      BY <1>0, <3>1, <2>2
    <3> QED BY <2>1, <2>2, <3>2
  <2>3. CASE r = new
    <3>1. PICK x \in same : TRUE
      BY <1>1
    <3>2. x.run <= new.run
      BY <2>3, <3>1 DEF Decisive
    <3>3. (IF x.run < new.run THEN new ELSE x) = new
      BY <1>0, <3>1, <3>2
    <3> QED BY <2>1, <2>3, <3>1, <3>3
  <2> QED BY <2>2, <2>3
<1>2. CASE same = {} /\ Cardinality(rows) < MaxSlots
  BY <1>2 DEF Project
<1>3. CASE same = {} /\ ~(Cardinality(rows) < MaxSlots)
  <2>1. Project(rows, new) = IF Replaced(rows, new) = {} THEN rows
                             ELSE (rows \ Replaced(rows, new)) \cup {new}
    BY <1>3 DEF Project
  <2>2. rows # {}
    BY <1>0, <1>3, FS_EmptySet
  <2>3. place # {}
    BY <2>2, OldestExists
  <2>4. Decisive(new) /\ r = new => Replaced(rows, new) # {}
    <3> SUFFICES ASSUME r = new, Decisive(new) PROVE Replaced(rows, new) # {}
      OBVIOUS
    <3>1. \A x \in rows : Decisive(x) => new.run > x.run
      BY <1>0, <1>3
    <3>2. Replaced(rows, new) = {x \in place : ~Decisive(x) \/ new.run > x.run}
      BY <1>0, <3>1 DEF Replaced
    <3>3. place \subseteq rows
      BY DEF Oldest
    <3> QED BY <2>3, <3>1, <3>2, <3>3
  <2>5. r \in rows => r \notin Replaced(rows, new)
    <3> SUFFICES ASSUME r \in rows, r \in Replaced(rows, new) PROVE FALSE
      OBVIOUS
    <3>1. CASE Decisive(new)
      <4>1. ~ \E x \in rows : Decisive(x) /\ x.run >= new.run
        BY <3>1 DEF Replaced
      <4> QED BY <1>0, <3>1, <4>1
    <3>2. CASE ~Decisive(new)
      <4>1. r \in place
        BY <3>2 DEF Replaced
      <4>2. \A x \in rows : Decisive(x)
        <5>1. Oldest({x \in rows : ~Decisive(x)}) = {}
          BY <4>1 DEF Oldest
        <5> QED BY <5>1, OldestExists
      <4>3. \A x \in rows : r.run <= x.run
        BY <4>1 DEF Oldest
      <4>4. rows \subseteq {r}
        BY <1>0, <4>2, <4>3
      <4>5. Cardinality({r}) = 1 /\ IsFiniteSet({r})
        BY FS_Singleton
      <4>6. Cardinality(rows) <= 1
        BY <4>4, <4>5, FS_Subset
      <4> QED BY <1>0, <1>3, <4>6
    <3> QED BY <3>1, <3>2
  <2> QED BY <2>1, <2>4, <2>5
<1> QED BY <1>1, <1>2, <1>3

--------------------------------------------------------------------------------
\* Results, recent states and the incident

Committed == DOMAIN results \subseteq Runs /\ \A n \in DOMAIN results : results[n] \in Results

RecentOK ==
  /\ recent \subseteq Rows /\ IsFiniteSet(recent)
  /\ \A x \in recent : x.run \in DOMAIN results /\ results[x.run] = x.result

Incidents == [episode : Nat, status : {"NONE", "OPEN", "MAINTENANCE", "RESOLVED"},
              seen : Nat, last : Nat, late : BOOLEAN]

\* The incident says what the run that changed it last found.
IncidentOK ==
  /\ incident \in Incidents
  /\ incident.status # "NONE" => incident.last \in DecisiveRuns /\ Fits(results[incident.last].health)
  /\ heard \in {0} \cup DecisiveRuns
  /\ looked \in {0} \cup DOMAIN results

Inv == Committed /\ RecentOK /\ IncidentOK /\ NewestDecisiveKept /\ IncidentIsCurrent

LEMMA InvInit == Init => Inv
<1> SUFFICES ASSUME Init PROVE Inv
  OBVIOUS
<1>1. Committed /\ DecisiveRuns = {}
  BY DEF Init, Committed, DecisiveRuns
<1>2. RecentOK
  BY FS_EmptySet DEF Init, RecentOK
<1>3. IncidentOK
  BY DEF Init, IncidentOK, Incidents
<1>4. NewestDecisiveKept /\ IncidentIsCurrent
  BY <1>1 DEF NewestDecisiveKept, IncidentIsCurrent, Newest
<1> QED BY <1>1, <1>2, <1>3, <1>4 DEF Inv

\* Steps that leave all of this alone
LEMMA InvKept ==
  ASSUME Inv, UNCHANGED <<results, recent, incident, heard>>, looked' \in {0} \cup DOMAIN results
  PROVE  Inv'
BY DEF Inv, Committed, RecentOK, IncidentOK, NewestDecisiveKept, IncidentIsCurrent, Newest,
       DecisiveRuns, Fits, Active

LEMMA InvCommit ==
  ASSUME Inv, NEW n \in Runs, NEW r \in Results, Commit(n, r)
  PROVE  Inv'
<1> DEFINE new == [result |-> r, run |-> n]
<1> USE DEF Inv
<1>1. /\ DOMAIN results' = DOMAIN results \cup {n} /\ n \notin DOMAIN results
      /\ results'[n] = r /\ \A m \in DOMAIN results : results'[m] = results[m]
  BY DEF Commit, With
<1>2. recent' = Project(recent, new) /\ UNCHANGED <<incident, heard, looked>>
  BY DEF Commit, episodes
<1>3. new \in Rows /\ recent \subseteq Rows
  BY DEF Rows, RecentOK
<1>4. Committed'
  BY <1>1 DEF Committed
<1>5. /\ recent' \subseteq recent \cup {new}
      /\ IsFiniteSet(recent')
  BY <1>2, ProjectIn DEF RecentOK
<1>6. RecentOK'
  BY <1>1, <1>3, <1>5 DEF RecentOK
<1>7. /\ DecisiveRuns \subseteq DecisiveRuns'
      /\ DecisiveRuns' \subseteq DecisiveRuns \cup {n}
      /\ DecisiveRuns \subseteq DOMAIN results
  BY <1>1 DEF DecisiveRuns
<1>8. IncidentOK'
  BY <1>1, <1>2, <1>7 DEF IncidentOK, Fits, Active, DecisiveRuns
<1>9. \A x \in recent \cup {new} : Decisive(x) => x.run \in DecisiveRuns'
  BY <1>1 DEF Decisive, DecisiveRuns, RecentOK
<1>10. \A x, y \in recent \cup {new} : x.run = y.run => x = y
  BY <1>1, <1>3 DEF RecentOK, Rows
<1>11. NewestDecisiveKept'
  <2> SUFFICES ASSUME NEW m \in Runs, Newest(m)' PROVE [result |-> results'[m], run |-> m] \in recent'
    BY DEF NewestDecisiveKept
  <2> DEFINE x == [result |-> results'[m], run |-> m]
  <2>1. m \in DecisiveRuns' /\ \A o \in DecisiveRuns' : o <= m
    BY DEF Newest
  <2>2. x \in recent \cup {new}
    <3>1. CASE m = n
      BY <1>1, <3>1
    <3>2. CASE m # n
      <4>1. Newest(m)
        BY <1>7, <2>1, <3>2 DEF Newest
      <4>2. [result |-> results[m], run |-> m] \in recent
        BY <4>1 DEF NewestDecisiveKept
      <4> QED BY <1>1, <1>7, <4>1, <4>2 DEF Newest
    <3> QED BY <3>1, <3>2
  <2>3. Decisive(x)
    BY <2>1 DEF Decisive, DecisiveRuns
  <2>4. \A y \in recent \cup {new} : Decisive(y) => y.run <= x.run
    BY <1>9, <2>1
  <2>5. x \in Project(recent, new)
    <3> HIDE DEF x, new
    <3> QED BY <1>3, <1>10, <2>2, <2>3, <2>4, NewestStays DEF RecentOK
  <2> QED BY <1>2, <2>5
<1>12. IncidentIsCurrent'
  <2> SUFFICES ASSUME NEW m \in Runs, Newest(m)', heard = m, ~incident.late
               PROVE Fits(results[m].health)' 
    BY <1>2 DEF IncidentIsCurrent
  <2>1. m \in DecisiveRuns
    BY RunsAreBounded DEF IncidentOK, Runs
  <2>2. Newest(m)
    BY <1>7, <2>1 DEF Newest
  <2>3. Fits(results[m].health)
    BY <2>2 DEF IncidentIsCurrent
  <2> QED BY <1>1, <1>2, <1>7, <2>1, <2>3 DEF Fits, Active
<1> QED BY <1>4, <1>6, <1>8, <1>11, <1>12

\* What processing a run does to the incident
LEMMA ApplyFits ==
  ASSUME Inv, NEW n \in DOMAIN results, ~Pointless(n), Apply(n)
  PROVE  /\ incident' \in Incidents /\ incident'.last = n /\ incident'.status # "NONE"
         /\ incident'.late = Superseded(n)
         /\ n \in DecisiveRuns
         /\ results' = results => Fits(results[n].health)'
         /\ heard' = Heard(n)
<1> USE DEF Inv
<1>1. results[n].health \in Healths \ {"UNKNOWN"} /\ n \in DecisiveRuns /\ n \in Nat
  BY ResultsHaveHealth, RunsAreBounded DEF Pointless, Committed, DecisiveRuns, Runs
<1>2. Superseded(n) \in BOOLEAN
  BY DEF Superseded
<1>3. incident \in Incidents
  BY DEF IncidentOK
<1>4. CASE results[n].health = "HEALTHY" /\ ResolvedBy(n)
  BY <1>1, <1>2, <1>3, <1>4 DEF ResolvedBy, Incidents, Fits, Failures, Active, Apply
<1>5. CASE results[n].health = "MAINTENANCE" /\ EnteredBy(n)
  BY <1>1, <1>2, <1>3, <1>5 DEF EnteredBy, Incidents, Fits, Failures, Active, Apply
<1>6. CASE results[n].health \in Failures /\ Active /\ FailedAgain(n)
  BY <1>1, <1>2, <1>3, <1>6 DEF FailedAgain, Incidents, Fits, Failures, Active, Apply
<1>7. CASE results[n].health \in Failures /\ ~Active /\ OpenedBy(n)
  BY <1>1, <1>2, <1>3, <1>7 DEF OpenedBy, Incidents, Fits, Failures, Active, Apply, Now
<1> QED BY <1>4, <1>5, <1>6, <1>7 DEF Apply

LEMMA InvApply ==
  ASSUME Inv, NEW n \in DOMAIN results, ~Pointless(n), Apply(n),
         UNCHANGED <<results, recent>>, looked' \in {0, looked}
  PROVE  Inv'
<1> USE DEF Inv
<1>1. /\ incident' \in Incidents /\ incident'.last = n /\ incident'.status # "NONE"
      /\ incident'.late = Superseded(n) /\ n \in DecisiveRuns
      /\ Fits(results[n].health)' /\ heard' = Heard(n)
  BY ApplyFits
<1>2. DecisiveRuns' = DecisiveRuns
  BY DEF DecisiveRuns
<1>3. Committed' /\ RecentOK'
  BY DEF Committed, RecentOK
<1>4. IncidentOK'
  BY <1>1, <1>2 DEF IncidentOK, Heard
<1>5. NewestDecisiveKept'
  BY <1>2 DEF NewestDecisiveKept, Newest
<1>6. IncidentIsCurrent'
  <2> SUFFICES ASSUME NEW m \in Runs, Newest(m)', heard' = m, ~incident'.late
               PROVE Fits(results[m].health)'
    BY DEF IncidentIsCurrent
  <2>1. Newest(m)
    BY <1>2 DEF Newest
  <2>2. m # n => Superseded(n)
    <3> SUFFICES ASSUME m # n PROVE Superseded(n)
      OBVIOUS
    <3>1. [result |-> results[m], run |-> m] \in recent
      BY <2>1 DEF NewestDecisiveKept
    <3>2. n <= m /\ n \in Nat /\ m \in Nat
      BY <1>1, <2>1, RunsAreBounded DEF Newest, Committed, Runs, DecisiveRuns
    <3>3. Decisive([result |-> results[m], run |-> m])
      BY <2>1 DEF Decisive, Newest, DecisiveRuns
    <3> QED BY <3>1, <3>2, <3>3 DEF Superseded
  <2>3. m = n
    BY <1>1, <2>2
  <2> QED BY <1>1, <2>3
<1> QED BY <1>3, <1>4, <1>5, <1>6

\* A run that changes nothing is heard all the same.
LEMMA InvIgnored ==
  ASSUME Inv, NEW n \in DOMAIN results, Superseded(n) \/ Pointless(n), heard' = Heard(n),
         UNCHANGED <<results, recent, incident>>, looked' \in {0, looked}
  PROVE  Inv'
<1> USE DEF Inv
<1>1. DecisiveRuns' = DecisiveRuns
  BY DEF DecisiveRuns
<1>2. Committed' /\ RecentOK' /\ NewestDecisiveKept'
  BY <1>1 DEF Committed, RecentOK, NewestDecisiveKept, Newest
<1>3. IncidentOK'
  BY <1>1 DEF IncidentOK, Heard, DecisiveRuns, Fits, Active
<1>4. IncidentIsCurrent'
  <2> SUFFICES ASSUME NEW m \in Runs, Newest(m), heard' = m, ~incident.late
               PROVE Fits(results[m].health)
    BY <1>1 DEF IncidentIsCurrent, Newest, Fits, Active
  <2>1. CASE heard = m
    BY <2>1 DEF IncidentIsCurrent
  <2>2. CASE heard # m
    <3>1. n = m /\ m \in DecisiveRuns
      BY <2>2 DEF Heard, Newest
    <3>2. ~Superseded(n)
      <4> SUFFICES ASSUME NEW x \in recent, Decisive(x), x.run > n PROVE FALSE
        BY DEF Superseded
      <4>1. x.run \in DecisiveRuns
        BY DEF RecentOK, Decisive, DecisiveRuns
      <4>2. x.run <= n /\ x.run \in Nat /\ n \in Nat
        BY <3>1, <4>1, RunsAreBounded DEF Newest, Committed, DecisiveRuns, Runs
      <4> QED BY <4>2
    <3>3. results[n].health \in Healths \ {"UNKNOWN"}
      BY <3>1, ResultsHaveHealth DEF DecisiveRuns, Committed
    <3>4. CASE incident.status # "NONE" /\ n <= incident.last
      <4>1. incident.last \in DecisiveRuns /\ Fits(results[incident.last].health)
        BY <3>4 DEF IncidentOK
      <4>2. incident.last = n
        BY <3>1, <3>4, <4>1, RunsAreBounded DEF Newest, Committed, DecisiveRuns, Runs
      <4> QED BY <3>1, <4>1, <4>2
    <3>5. CASE ~Active /\ results[n].health \notin Failures
      BY <3>1, <3>3, <3>5 DEF Fits, Active
    <3> QED BY <3>2, <3>3, <3>4, <3>5 DEF Pointless
  <2> QED BY <2>1, <2>2
<1> QED BY <1>2, <1>3, <1>4

LEMMA InvNext == Inv /\ [Next]_vars => Inv'
<1> SUFFICES ASSUME Inv, [Next]_vars PROVE Inv'
  OBVIOUS
<1>1. ASSUME NEW n \in Runs, NEW r \in Results, Commit(n, r) PROVE Inv'
  BY <1>1, InvCommit
<1>2. ASSUME NEW n \in Runs, Process(n) PROVE Inv'
  <2>1. CASE Superseded(n) \/ Pointless(n)
    BY <1>2, <2>1, InvIgnored DEF Process
  <2>2. CASE ~(Superseded(n) \/ Pointless(n))
    BY <1>2, <2>2, InvApply DEF Process
  <2> QED BY <2>1, <2>2
<1>3. ASSUME NEW n \in Runs, Look(n) PROVE Inv'
  BY <1>3, InvKept DEF Look
<1>4. ASSUME ProcessLooked PROVE Inv'
  <2>1. looked \in DOMAIN results
    BY <1>4 DEF ProcessLooked, Inv, IncidentOK
  <2>2. CASE Pointless(looked)
    BY <1>4, <2>1, <2>2, InvIgnored DEF ProcessLooked
  <2>3. CASE ~Pointless(looked)
    BY <1>4, <2>1, <2>3, InvApply DEF ProcessLooked
  <2> QED BY <2>2, <2>3
<1>5. ASSUME UNCHANGED <<results, recent, episodes>> PROVE Inv'
  BY <1>5, InvKept DEF episodes, Inv, IncidentOK
<1>6. ASSUME NEW w \in Workers,
             Claim(w) \/ Deliver(w) \/ MarkDelivered(w) \/ FailClaim(w) \/ Restart(w)
      PROVE  UNCHANGED <<results, recent, episodes>>
  BY <1>6 DEF Claim, Deliver, MarkDelivered, FailClaim, Restart
<1>7. CASE UNCHANGED vars
  BY <1>5, <1>7 DEF vars, episodes
<1> QED BY <1>1, <1>2, <1>3, <1>4, <1>5, <1>6, <1>7 DEF Next

\* The facts every other result rests on hold in every reachable state.
THEOREM Invariance == Spec => []Inv
<1> QED BY InvInit, InvNext, PTL DEF Spec

\* However results arrive and whatever they push out, two slots or more are enough to keep
\* the newest decisive result (recordNoSessionCompactStateInTransaction).
THEOREM NewestKept == Spec => []NewestDecisiveKept
<1> QED BY Invariance, PTL DEF Inv

\* Once the newest decisive run is processed the incident says what it found, whatever is
\* processed late, again or out of order (processCompletedHealthRun).
THEOREM Current == Spec => []IncidentIsCurrent
<1> QED BY Invariance, PTL DEF Inv

--------------------------------------------------------------------------------
\* The intents

IntentRows == [state : States, severity : {"INFO", "WARNING", "CRITICAL"}, token : Tokens,
               attempts : Nat, reason : {None, "MAINTENANCE", "DISABLED"}, disabled : BOOLEAN]

\* An escalation is always one to CRITICAL, and an alert is more than INFO.
Apt(k, severity) ==
  /\ k.kind = "INCIDENT_ESCALATED" => severity = "CRITICAL"
  /\ k.kind = "INCIDENT_OPENED" => severity # "INFO"

\* No intent is about an incident that is still to come.
Typed(rows, e) ==
  /\ DOMAIN rows \subseteq [episode : Nat, kind : Kinds]
  /\ \A k \in DOMAIN rows :
       /\ k.episode <= e /\ rows[k] \in IntentRows
       /\ Apt(k, rows[k].severity)

Given == {"DELIVERED", "FAILED_TERMINAL"}

\* Nothing is lost, no severity changes and what was given stays so.
Follows(rows, new) ==
  /\ DOMAIN rows \subseteq DOMAIN new
  /\ \A k \in DOMAIN rows :
       /\ new[k].severity = rows[k].severity
       /\ rows[k].state \in Given => new[k].state = rows[k].state

Alert == Key(Now, "INCIDENT_OPENED")

Reaches(rows, severity) == \E k \in ProductKeys(rows) : Rank(rows[k].severity) >= Rank(severity)

Escalation == Key(Now, "INCIDENT_ESCALATED")

\* The alert is followed by one that is more severe, which only maintenance and a disabled
\* route silence.
Escalated(rows) ==
  Escalation \in DOMAIN rows =>
    /\ rows[Alert].severity = "WARNING"
    /\ rows[Escalation].state = "SUPPRESSED" =>
         rows[Escalation].disabled \/ Key(Now, "MAINTENANCE_ENTERED") \in DOMAIN rows

\* While an incident is active it has an alert, which is suppressed for a reason that
\* lasts, and some intent as severe as what was seen last.
Alerts ==
  /\ Alert \in DOMAIN intents
  /\ intents[Alert].state = "SUPPRESSED" =>
       \/ intents[Alert].disabled
       \/ incident.status = "MAINTENANCE" /\ intents[Alert].reason = "MAINTENANCE"
  /\ incident.seen \in DOMAIN results
  /\ Reaches(intents, SeverityOf(results[incident.seen].health))
  /\ Escalated(intents)

IntentsOK ==
  /\ incident \in Incidents
  /\ Typed(intents, Now)
  /\ Active => Alerts
  /\ MaintenanceIsQuiet

LEMMA KeyIs ==
  ASSUME NEW e \in Nat, NEW kind \in Kinds
  PROVE  /\ Key(e, kind) \in [episode : Nat, kind : Kinds]
         /\ Key(e, kind).episode = e /\ Key(e, kind).kind = kind
BY DEF Key

LEMMA RowIs ==
  ASSUME NEW severity \in {"INFO", "WARNING", "CRITICAL"}
  PROVE  /\ Row(severity) \in IntentRows /\ Row(severity).state = "PENDING"
         /\ Row(severity).severity = severity
BY DEF Row, IntentRows, States, Waiting, Tokens

\* An intent that is there already stays as it is.
LEMMA RecordedRow ==
  ASSUME NEW rows, NEW e \in Nat, Typed(rows, e),
         NEW k \in [episode : Nat, kind : Kinds], k.episode <= e, NEW row \in IntentRows,
         Apt(k, row.severity)
  PROVE  /\ Typed(Recorded(rows, k, row), e) /\ Follows(rows, Recorded(rows, k, row))
         /\ DOMAIN Recorded(rows, k, row) = DOMAIN rows \cup {k}
         /\ \A o \in DOMAIN rows : Recorded(rows, k, row)[o] = rows[o]
         /\ k \notin DOMAIN rows => Recorded(rows, k, row)[k] = row
BY DEF Recorded, With, Typed, Apt, Follows

LEMMA SilencedRows ==
  ASSUME NEW rows, NEW e, Typed(rows, e)
  PROVE  /\ Typed(Silenced(rows), e) /\ Follows(rows, Silenced(rows))
         /\ DOMAIN Silenced(rows) = DOMAIN rows
         /\ \A k \in DOMAIN rows :
              \/ Silenced(rows)[k] = rows[k] /\ (k \in ProductKeys(rows) => rows[k].state \notin Waiting)
              \/ Silenced(rows)[k].state = "SUPPRESSED" /\ Silenced(rows)[k].reason = "MAINTENANCE"
<1>1. DOMAIN Silenced(rows) = DOMAIN rows
  BY DEF Silenced
<1>2. ASSUME NEW k \in DOMAIN rows
      PROVE  LET old == rows[k]
                 new == Silenced(rows)[k]
             IN  /\ \/ new = old /\ (k \in ProductKeys(rows) => old.state \notin Waiting)
                    \/ new.state = "SUPPRESSED" /\ new.reason = "MAINTENANCE"
                 /\ new \in IntentRows /\ new.severity = old.severity
                 /\ old.state \in Given => new = old
  <2>1. PICK old, new : old = rows[k] /\ new = Silenced(rows)[k]
    OBVIOUS
  <2>2. old \in IntentRows
    BY <2>1 DEF Typed
  <2>3. new = IF k \in ProductKeys(rows) /\ old.state \in Waiting
              THEN [old EXCEPT !.state = "SUPPRESSED", !.reason = "MAINTENANCE", !.token = None]
              ELSE old
    BY <2>1 DEF Silenced
  <2>4. CASE k \in ProductKeys(rows) /\ old.state \in Waiting
    <3>1. new = [old EXCEPT !.state = "SUPPRESSED", !.reason = "MAINTENANCE", !.token = None]
      BY <2>3, <2>4
    <3>2. /\ new.state = "SUPPRESSED" /\ new.reason = "MAINTENANCE"
          /\ new.severity = old.severity
      BY <2>2, <3>1 DEF IntentRows
    <3>3. new \in IntentRows
      BY <2>2, <3>1 DEF IntentRows, States, Settled, Tokens
    <3>4. old.state \notin Given
      BY <2>4 DEF Waiting, Given
    <3> QED BY <2>1, <3>2, <3>3, <3>4
  <2>5. CASE ~ (k \in ProductKeys(rows) /\ old.state \in Waiting)
    BY <2>1, <2>2, <2>3, <2>5
  <2> QED BY <2>4, <2>5
<1> QED BY <1>1, <1>2 DEF Typed, Apt, Follows

LEMMA ResumedRows ==
  ASSUME NEW rows, NEW e, Typed(rows, e)
  PROVE  /\ Typed(Resumed(rows), e) /\ Follows(rows, Resumed(rows))
         /\ DOMAIN Resumed(rows) = DOMAIN rows
         /\ \A k \in DOMAIN rows : k # Alert => Resumed(rows)[k] = rows[k]
         /\ Alert \in DOMAIN rows /\ Resumed(rows)[Alert].state = "SUPPRESSED" =>
              Resumed(rows)[Alert] = rows[Alert] /\ rows[Alert].reason # "MAINTENANCE"
<1> DEFINE new == Resumed(rows)
<1>1. CASE Alert \in DOMAIN rows /\ rows[Alert].state = "SUPPRESSED" /\ rows[Alert].reason = "MAINTENANCE"
  <2>1. new = [rows EXCEPT ![Alert].state = "PENDING", ![Alert].reason = None]
    BY <1>1 DEF Resumed, Alert
  <2> HIDE DEF new
  <2>2. DOMAIN new = DOMAIN rows /\ \A k \in DOMAIN rows \ {Alert} : new[k] = rows[k]
    BY <2>1
  <2>3. new[Alert] = [rows[Alert] EXCEPT !.state = "PENDING", !.reason = None]
    BY <1>1, <2>1
  <2>4. rows[Alert] \in IntentRows
    BY <1>1 DEF Typed
  <2>5. new[Alert] \in IntentRows /\ new[Alert].state = "PENDING"
        /\ new[Alert].severity = rows[Alert].severity
    BY <2>3, <2>4 DEF IntentRows, States, Settled, Waiting
  <2>6. Typed(new, e)
    BY <2>2, <2>5 DEF Typed
  <2>7. Follows(rows, new)
    BY <1>1, <2>2, <2>5 DEF Follows, Given
  <2> QED BY <2>2, <2>5, <2>6, <2>7 DEF new
<1>2. CASE ~ (Alert \in DOMAIN rows /\ rows[Alert].state = "SUPPRESSED" /\ rows[Alert].reason = "MAINTENANCE")
  <2>1. new = rows
    BY <1>2 DEF Resumed, Alert
  <2> HIDE DEF new
  <2>2. Follows(rows, rows)
    BY DEF Follows
  <2> QED BY <1>2, <2>1, <2>2 DEF new
<1> QED BY <1>1, <1>2

LEMMA FollowsOn ==
  ASSUME NEW a, NEW b, NEW c, Follows(a, b), Follows(b, c)
  PROVE  Follows(a, c)
BY DEF Follows

\* The alerts of an incident are the one of its opening and the one of its escalation.
LEMMA ProductKeysAre ==
  ASSUME NEW rows, Now \in Nat, Typed(rows, Now)
  PROVE  /\ ProductKeys(rows) = {Alert, Escalation} \cap DOMAIN rows
         /\ Alert # Escalation
         /\ Alert \in [episode : Nat, kind : Kinds] /\ Escalation \in [episode : Nat, kind : Kinds]
         /\ Alert.episode = Now /\ Alert.kind = "INCIDENT_OPENED"
         /\ Escalation.episode = Now /\ Escalation.kind = "INCIDENT_ESCALATED"
         /\ Escalation \in DOMAIN rows => rows[Escalation].severity = "CRITICAL"
<1>1. /\ Alert \in [episode : Nat, kind : Kinds] /\ Escalation \in [episode : Nat, kind : Kinds]
      /\ Alert.episode = Now /\ Alert.kind = "INCIDENT_OPENED"
      /\ Escalation.episode = Now /\ Escalation.kind = "INCIDENT_ESCALATED"
  BY KeyIs DEF Alert, Escalation, Kinds, Product
<1>2. Alert # Escalation
  BY <1>1
<1>3. ASSUME NEW k \in DOMAIN rows, k.episode = Now, k.kind \in Product
      PROVE  k \in {Alert, Escalation}
  BY <1>3 DEF Typed, Alert, Escalation, Key, Product
<1>4. ProductKeys(rows) = {Alert, Escalation} \cap DOMAIN rows
  BY <1>1, <1>3 DEF ProductKeys, Product
<1>5. Escalation \in DOMAIN rows => rows[Escalation].severity = "CRITICAL"
  BY <1>1 DEF Typed, Apt
<1> QED BY <1>1, <1>2, <1>4, <1>5

LEMMA WorstIs ==
  ASSUME NEW rows, Now \in Nat, Typed(rows, Now), Alert \in DOMAIN rows
  PROVE  Worst(rows) \in ProductKeys(rows)
<1>1. Alert \in ProductKeys(rows) /\ \A k \in ProductKeys(rows) : k \in {Alert, Escalation}
  BY ProductKeysAre
<1>2. \A k \in ProductKeys(rows) : Rank(rows[k].severity) \in 0 .. 2
  BY DEF Rank
<1>3. Escalation \in DOMAIN rows => Rank(rows[Escalation].severity) = 2
  BY ProductKeysAre DEF Rank
<1>4. \E k \in ProductKeys(rows) : \A o \in ProductKeys(rows) :
        Rank(rows[k].severity) >= Rank(rows[o].severity)
  <2>1. CASE Escalation \in ProductKeys(rows)
    BY <1>2, <1>3, <2>1 DEF ProductKeys
  <2>2. CASE Escalation \notin ProductKeys(rows)
    BY <1>1, <1>2, <2>2
  <2> QED BY <2>1, <2>2
<1> QED BY <1>4 DEF Worst

LEMMA ObservedRows ==
  ASSUME NEW rows, Now \in Nat, Typed(rows, Now), Alert \in DOMAIN rows, NEW health
  PROVE  /\ Typed(Observed(rows, health), Now) /\ Follows(rows, Observed(rows, health))
         /\ Reaches(Observed(rows, health), SeverityOf(health))
         /\ \A o \in DOMAIN rows : /\ Observed(rows, health)[o].state = rows[o].state
                                  /\ Observed(rows, health)[o].disabled = rows[o].disabled
         /\ Escalation \in DOMAIN Observed(rows, health) \ DOMAIN rows =>
              /\ rows[Alert].severity = "WARNING"
              /\ Observed(rows, health)[Escalation].state = "PENDING"
<1> DEFINE k == Worst(rows)
           seen == [rows EXCEPT ![k].reason = None]
           severity == SeverityOf(health)
<1>1. k \in ProductKeys(rows) /\ k \in DOMAIN rows
  BY WorstIs DEF ProductKeys
<1>2. /\ Typed(seen, Now) /\ Follows(rows, seen) /\ DOMAIN seen = DOMAIN rows
      /\ seen[k].severity = rows[k].severity
      /\ \A o \in DOMAIN rows : seen[o].state = rows[o].state /\ seen[o].disabled = rows[o].disabled
  <2> HIDE DEF k
  <2> QED BY <1>1 DEF Typed, Follows, IntentRows, Given
<1>3. severity \in {"WARNING", "CRITICAL"} /\ Rank(severity) \in 1 .. 2
  BY DEF SeverityOf, Rank
<1>4. Rank(rows[k].severity) \in 0 .. 2
  BY DEF Rank
<1>5. CASE Rank(severity) > Rank(rows[k].severity)
  <2>1. Observed(rows, health) = Recorded(seen, Escalation, Row(severity))
    BY <1>5 DEF Observed, Escalation
  <2>2. Escalation \in DOMAIN rows => rows[Escalation].severity = "CRITICAL"
    BY ProductKeysAre
  <2>3. Escalation \in [episode : Nat, kind : Kinds] /\ Escalation.episode = Now
        /\ Escalation.kind = "INCIDENT_ESCALATED"
    BY ProductKeysAre
  <2>4. CASE Escalation \in DOMAIN rows
    <3>1. Observed(rows, health) = seen
      BY <1>2, <2>1, <2>4 DEF Recorded
    <3>2. seen[Escalation].severity = "CRITICAL"
      BY <1>2, <2>2, <2>4 DEF Follows
    <3>3. Rank(seen[Escalation].severity) = 2 /\ Escalation \in ProductKeys(seen)
      BY <1>2, <2>3, <2>4, <3>2 DEF Rank, ProductKeys, Product
    <3> HIDE DEF seen, severity
    <3>4. Reaches(seen, severity)
      BY <1>3, <3>3 DEF Reaches
    <3> QED BY <1>2, <3>1, <3>4 DEF severity
  <2>5. CASE Escalation \notin DOMAIN rows
    <3>1. rows[k].severity \in {"WARNING", "CRITICAL"}
      BY <1>1, KeyIs DEF Typed, Apt, IntentRows, ProductKeys, Product
    <3>2. severity = "CRITICAL" /\ Rank(severity) = 2
      BY <1>3, <1>5, <3>1 DEF Rank
    <3>3. Row(severity) \in IntentRows /\ Row(severity).severity = severity /\ Row(severity).state = "PENDING"
      BY <1>3, RowIs
    <3> DEFINE new == Recorded(seen, Escalation, Row(severity))
    <3>4. /\ Typed(new, Now) /\ Follows(seen, new) /\ DOMAIN new = DOMAIN seen \cup {Escalation}
          /\ \A o \in DOMAIN seen : new[o] = seen[o]
          /\ new[Escalation] = Row(severity)
      <4>1. Apt(Escalation, Row(severity).severity)
        BY <2>3, <3>2, <3>3 DEF Apt
      <4> HIDE DEF seen, severity
      <4> QED BY <1>2, <2>3, <2>5, <3>3, <4>1, RecordedRow
    <3>5. Escalation \in ProductKeys(new) /\ Rank(new[Escalation].severity) >= Rank(severity)
      BY <2>3, <3>2, <3>3, <3>4 DEF ProductKeys, Product
    <3>7. rows[Alert].severity = "WARNING"
      <4>1. k = Alert
        BY <1>1, <2>5, ProductKeysAre
      <4>2. rows[k].severity # "CRITICAL"
        BY <1>5, <3>2 DEF Rank
      <4> QED BY <3>1, <4>1, <4>2
    <3> HIDE DEF seen, severity, new, k
    <3>6. Reaches(new, severity)
      BY <3>5 DEF Reaches
    <3> QED BY <1>2, <2>1, <3>3, <3>4, <3>6, <3>7, FollowsOn DEF severity, new
  <2> QED BY <2>4, <2>5
<1>6. CASE ~(Rank(severity) > Rank(rows[k].severity))
  <2>1. Observed(rows, health) = seen
    BY <1>6 DEF Observed
  <2>2. k \in ProductKeys(seen) /\ Rank(seen[k].severity) >= Rank(severity)
    BY <1>1, <1>2, <1>3, <1>4, <1>6 DEF ProductKeys
  <2>3. Reaches(seen, severity)
    BY <2>2 DEF Reaches
  <2> HIDE DEF seen, k, severity
  <2> QED BY <1>2, <2>1, <2>3 DEF severity
<1> QED BY <1>5, <1>6

LEMMA AnnouncedRows ==
  ASSUME NEW rows, Now \in Nat, Typed(rows, Now), NEW kind \in Kinds \ Product
  PROVE  /\ Typed(Announced(rows, kind), Now) /\ Follows(rows, Announced(rows, kind))
         /\ DOMAIN Announced(rows, kind) = DOMAIN rows \cup {Key(Now, kind)}
         /\ \A o \in DOMAIN rows : Announced(rows, kind)[o] = rows[o]
         /\ ProductKeys(Announced(rows, kind)) = ProductKeys(rows)
<1> DEFINE k == Key(Now, kind)
<1>1. k \in [episode : Nat, kind : Kinds] /\ k.episode = Now /\ k.kind = kind
  BY KeyIs
<1>2. Row("INFO") \in IntentRows /\ Apt(k, Row("INFO").severity)
  BY <1>1, RowIs DEF Apt, Product
<1>3. Announced(rows, kind) = Recorded(rows, k, Row("INFO"))
  BY DEF Announced
<1> HIDE DEF k
<1>4. /\ Typed(Announced(rows, kind), Now) /\ Follows(rows, Announced(rows, kind))
      /\ DOMAIN Announced(rows, kind) = DOMAIN rows \cup {k}
      /\ \A o \in DOMAIN rows : Announced(rows, kind)[o] = rows[o]
  BY <1>1, <1>2, <1>3, RecordedRow
<1> QED BY <1>1, <1>4 DEF ProductKeys, k

--------------------------------------------------------------------------------
\* What processing a run does to the intents

LEMMA IntentsInit == Init => IntentsOK
<1> SUFFICES ASSUME Init PROVE IntentsOK
  OBVIOUS
<1>1. DOMAIN intents = {}
  BY DEF Init
<1> QED BY <1>1 DEF Init, IntentsOK, Incidents, Typed, Active, MaintenanceIsQuiet

LEMMA IntentsResolved ==
  ASSUME IntentsOK, NEW n \in DOMAIN results, ResolvedBy(n), incident' \in Incidents
  PROVE  IntentsOK' /\ Follows(intents, intents')
<1> DEFINE mid == IF incident.status = "MAINTENANCE"
                  THEN Announced(intents, "MAINTENANCE_EXITED") ELSE intents
<1>1. Now \in Nat /\ Typed(intents, Now)
  BY DEF IntentsOK, Incidents, Now
<1>2. Typed(mid, Now) /\ Follows(intents, mid)
  BY <1>1, AnnouncedRows DEF Kinds, Product, Follows
<1>3. intents' = Announced(mid, "INCIDENT_RECOVERED")
  BY DEF ResolvedBy
<1> HIDE DEF mid
<1>4. Typed(intents', Now) /\ Follows(mid, intents')
  BY <1>1, <1>2, <1>3, AnnouncedRows DEF Kinds, Product
<1>5. Now' = Now /\ incident'.status = "RESOLVED"
  BY <1>1 DEF ResolvedBy, Now, IntentsOK, Incidents
<1>6. Typed(intents, Now)'
  BY <1>4, <1>5 DEF Typed
<1> QED BY <1>2, <1>4, <1>5, <1>6, FollowsOn DEF IntentsOK, Active, MaintenanceIsQuiet

LEMMA IntentsEntered ==
  ASSUME IntentsOK, NEW n \in DOMAIN results, Active, EnteredBy(n), incident' \in Incidents,
         results' = results
  PROVE  IntentsOK' /\ Follows(intents, intents')
<1>1. Now \in Nat /\ Typed(intents, Now) /\ Alerts
  BY DEF IntentsOK, Incidents, Now
<1>2. /\ Now' = Now /\ incident'.status = "MAINTENANCE" /\ incident'.seen = incident.seen
      /\ Alert' = Alert /\ Escalation' = Escalation
  BY DEF EnteredBy, Now, Alert, Escalation, IntentsOK, Incidents
<1>3. CASE incident.status = "MAINTENANCE"
  <2>1. UNCHANGED <<intents, caught>>
    BY <1>3 DEF EnteredBy
  <2> QED BY <1>1, <1>2, <1>3, <2>1
          DEF IntentsOK, Typed, Alerts, Escalated, Reaches, ProductKeys, MaintenanceIsQuiet, Follows
<1>4. CASE incident.status # "MAINTENANCE"
  <2> DEFINE mid == Announced(intents, "MAINTENANCE_ENTERED")
  <2>1. /\ Typed(mid, Now) /\ Follows(intents, mid) /\ ProductKeys(mid) = ProductKeys(intents)
        /\ \A o \in DOMAIN intents : o \in DOMAIN mid /\ mid[o] = intents[o]
        /\ Key(Now, "MAINTENANCE_ENTERED") \in DOMAIN mid
    BY <1>1, AnnouncedRows DEF Kinds, Product
  <2>2. intents' = Silenced(mid) /\ caught' = {k \in ProductKeys(intents) : intents[k].state = "CLAIMED"}
    BY <1>4 DEF EnteredBy
  <2> HIDE DEF mid
  <2>3. /\ Typed(intents', Now) /\ Follows(mid, intents') /\ DOMAIN intents' = DOMAIN mid
        /\ \A k \in DOMAIN mid :
             \/ intents'[k] = mid[k] /\ (k \in ProductKeys(mid) => mid[k].state \notin Waiting)
             \/ intents'[k].state = "SUPPRESSED" /\ intents'[k].reason = "MAINTENANCE"
    BY <2>1, <2>2, SilencedRows
  <2>4. Typed(intents, Now)'
    BY <1>2, <2>3 DEF Typed
  <2>5. Alert \in DOMAIN intents' /\
        (intents'[Alert].state = "SUPPRESSED" => intents'[Alert].disabled \/ intents'[Alert].reason = "MAINTENANCE")
    BY <1>1, <1>4, <2>1, <2>3 DEF Alerts
  <2>6. Reaches(intents', SeverityOf(results[incident.seen].health))
    <3>1. PICK k \in ProductKeys(intents) :
            Rank(intents[k].severity) >= Rank(SeverityOf(results[incident.seen].health))
      BY <1>1 DEF Alerts, Reaches
    <3>2. k \in ProductKeys(intents') /\ intents'[k].severity = intents[k].severity
      BY <2>1, <2>3, <3>1 DEF ProductKeys, Follows
    <3> QED BY <3>1, <3>2 DEF Reaches
  <2>7. Alerts'
    <3>1. ProductKeys(intents)' = ProductKeys(intents')
      BY <1>2 DEF ProductKeys
    <3>2. Escalation \in DOMAIN intents' => intents'[Alert].severity = "WARNING"
      <4>1. Escalation \in DOMAIN intents' => Escalation \in DOMAIN intents
        BY <1>1, <2>1, <2>3, ProductKeysAre
      <4>2. Alert \in DOMAIN intents /\ intents'[Alert].severity = intents[Alert].severity
        BY <1>1, <2>1, <2>3 DEF Alerts, Follows
      <4> QED BY <1>1, <4>1, <4>2 DEF Alerts, Escalated
    <3>3. Escalated(intents)'
      BY <1>2, <2>1, <2>3, <3>2 DEF Escalated
    <3> QED BY <1>1, <1>2, <2>5, <2>6, <3>1, <3>3 DEF Alerts, Reaches
  <2>8. MaintenanceIsQuiet'
    <3> SUFFICES ASSUME NEW k \in ProductKeys(intents)', intents'[k].state \in Waiting \cup {"CLAIMED"}
                 PROVE  k \in caught' /\ intents'[k].state # "PENDING"
      BY DEF MaintenanceIsQuiet, Waiting
    <3>1. k \in ProductKeys(mid) /\ k \in DOMAIN mid
      BY <1>2, <2>3 DEF ProductKeys
    <3>2. intents'[k] = mid[k] /\ mid[k].state \notin Waiting
      BY <2>3, <3>1 DEF Waiting
    <3> QED BY <2>1, <2>2, <3>1, <3>2 DEF ProductKeys
  <2> QED BY <2>1, <2>3, <2>4, <2>7, <2>8, FollowsOn DEF IntentsOK
<1> QED BY <1>3, <1>4

LEMMA IntentsFailed ==
  ASSUME IntentsOK, NEW n \in DOMAIN results, Active, FailedAgain(n), incident' \in Incidents,
         results' = results
  PROVE  IntentsOK' /\ Follows(intents, intents')
<1> DEFINE resumed == Resumed(intents)
           mid == IF incident.status = "MAINTENANCE"
                  THEN Announced(resumed, "MAINTENANCE_EXITED") ELSE intents
           health == results[n].health
<1>1. Now \in Nat /\ Typed(intents, Now) /\ Alerts
  BY DEF IntentsOK, Incidents, Now
<1>2. /\ Now' = Now /\ incident'.status = "OPEN" /\ incident'.seen = n
      /\ Alert' = Alert /\ Escalation' = Escalation
  BY DEF FailedAgain, Now, Alert, Escalation, IntentsOK, Incidents
<1>0. Alert # Escalation /\ Escalation.kind = "INCIDENT_ESCALATED"
  BY <1>1, ProductKeysAre
<1>3. /\ Typed(resumed, Now) /\ Follows(intents, resumed) /\ DOMAIN resumed = DOMAIN intents
      /\ \A o \in DOMAIN intents : o # Alert => resumed[o] = intents[o]
      /\ resumed[Alert].state = "SUPPRESSED" => resumed[Alert] = intents[Alert]
                                                /\ intents[Alert].reason # "MAINTENANCE"
  BY <1>1, ResumedRows DEF Alerts
<1>4. intents' = Observed(mid, health)
  BY DEF FailedAgain
<1>5. /\ Typed(mid, Now) /\ Follows(intents, mid) /\ Alert \in DOMAIN mid
      /\ mid[Alert].state = "SUPPRESSED" => mid[Alert].disabled
      /\ Escalation \in DOMAIN mid => Escalation \in DOMAIN intents /\ mid[Escalation] = intents[Escalation]
  <2>1. CASE incident.status = "MAINTENANCE"
    <3> HIDE DEF resumed
    <3>1. /\ Typed(mid, Now) /\ Follows(resumed, mid)
          /\ \A o \in DOMAIN resumed : o \in DOMAIN mid /\ mid[o] = resumed[o]
          /\ DOMAIN mid = DOMAIN resumed \cup {Key(Now, "MAINTENANCE_EXITED")}
      BY <1>1, <1>3, <2>1, AnnouncedRows DEF Kinds, Product
    <3>2. Key(Now, "MAINTENANCE_EXITED").kind = "MAINTENANCE_EXITED"
      BY DEF Key
    <3> HIDE DEF mid
    <3>3. Follows(intents, mid)
      BY <1>3, <3>1, FollowsOn
    <3>4. Escalation \in DOMAIN mid => Escalation \in DOMAIN intents /\ mid[Escalation] = intents[Escalation]
      BY <1>0, <1>3, <3>1, <3>2
    <3> QED BY <1>1, <1>3, <3>1, <3>3, <3>4 DEF Alerts
  <2>2. CASE incident.status # "MAINTENANCE"
    BY <1>1, <2>2 DEF Alerts, Follows
  <2> QED BY <2>1, <2>2
<1> HIDE DEF mid, resumed
<1>6. /\ Typed(intents', Now) /\ Follows(mid, intents') /\ Reaches(intents', SeverityOf(health))
      /\ \A o \in DOMAIN mid : /\ intents'[o].state = mid[o].state
                               /\ intents'[o].disabled = mid[o].disabled
      /\ Escalation \in DOMAIN intents' \ DOMAIN mid =>
           mid[Alert].severity = "WARNING" /\ intents'[Escalation].state = "PENDING"
  BY <1>1, <1>4, <1>5, ObservedRows
<1>7. Typed(intents, Now)'
  BY <1>2, <1>6 DEF Typed
<1>8. Alerts'
  <2>1. ProductKeys(intents)' = ProductKeys(intents')
    BY <1>2 DEF ProductKeys
  <2>2. Alert \in DOMAIN intents'
    BY <1>5, <1>6 DEF Follows
  <2>3. intents'[Alert].severity = mid[Alert].severity /\ mid[Alert].severity = intents[Alert].severity
    BY <1>1, <1>5, <1>6 DEF Alerts, Follows
  <2>4. Escalated(intents')
    <3>1. CASE Escalation \in DOMAIN mid
      <4>1. /\ Escalation \in DOMAIN intents
            /\ intents'[Escalation].state = intents[Escalation].state
            /\ intents'[Escalation].disabled = intents[Escalation].disabled
        BY <1>5, <1>6, <3>1
      <4>2. DOMAIN intents \subseteq DOMAIN intents'
        BY <1>5, <1>6 DEF Follows
      <4> QED BY <1>1, <2>3, <4>1, <4>2 DEF Alerts, Escalated
    <3>2. CASE Escalation \notin DOMAIN mid
      BY <1>6, <2>3, <3>2 DEF Escalated
    <3> QED BY <3>1, <3>2
  <2>5. Escalated(intents)'
    BY <1>2, <2>4 DEF Escalated
  <2> QED BY <1>2, <1>5, <1>6, <2>1, <2>2, <2>5 DEF Alerts, Reaches
<1> QED BY <1>2, <1>5, <1>6, <1>7, <1>8, FollowsOn DEF IntentsOK, MaintenanceIsQuiet

LEMMA IntentsOpened ==
  ASSUME IntentsOK, NEW n \in DOMAIN results, OpenedBy(n), incident' \in Incidents,
         results' = results
  PROVE  IntentsOK' /\ Follows(intents, intents')
<1> DEFINE k == Key(Now + 1, "INCIDENT_OPENED")
           severity == SeverityOf(results[n].health)
<1>1. Now \in Nat /\ Typed(intents, Now) /\ Typed(intents, Now + 1)
  BY DEF IntentsOK, Incidents, Now, Typed
<1>2. Now' = Now + 1 /\ incident'.status = "OPEN" /\ incident'.seen = n
  BY DEF OpenedBy, Now
<1>3. k \in [episode : Nat, kind : Kinds] /\ k.episode = Now + 1 /\ k.kind = "INCIDENT_OPENED" /\ Alert' = k
  BY <1>1, <1>2, KeyIs DEF Alert, Kinds, Product
<1>4. k \notin DOMAIN intents
  BY <1>1, <1>3 DEF Typed
<1>5. severity \in {"WARNING", "CRITICAL"}
  BY DEF SeverityOf
<1>6. Row(severity) \in IntentRows /\ Row(severity).state = "PENDING" /\ Row(severity).severity = severity
  BY <1>5, RowIs
<1>7. Apt(k, Row(severity).severity)
  BY <1>3, <1>5, <1>6 DEF Apt
<1>8. intents' = Recorded(intents, k, Row(severity))
  BY DEF OpenedBy
<1> HIDE DEF k, severity
<1>9. /\ Typed(intents', Now + 1) /\ Follows(intents, intents')
      /\ DOMAIN intents' = DOMAIN intents \cup {k} /\ intents'[k] = Row(severity)
  BY <1>1, <1>3, <1>4, <1>6, <1>7, <1>8, RecordedRow
<1>10. Typed(intents, Now)'
  BY <1>2, <1>9 DEF Typed
<1>11. Alerts'
  <2>1. k \in ProductKeys(intents)'
    BY <1>2, <1>3, <1>9 DEF ProductKeys, Product
  <2>2. Rank(severity) >= Rank(severity)
    BY <1>5 DEF Rank
  <2>3. Escalated(intents)'
    <3>1. Escalation' = Key(Now + 1, "INCIDENT_ESCALATED")
      BY <1>2 DEF Escalation
    <3>2. Escalation'.episode = Now + 1 /\ Escalation'.kind = "INCIDENT_ESCALATED"
      BY <3>1 DEF Key
    <3>3. Escalation' \notin DOMAIN intents'
      BY <1>1, <1>3, <1>9, <3>2 DEF Typed
    <3> QED BY <3>3 DEF Escalated
  <2> QED BY <1>2, <1>3, <1>6, <1>9, <2>1, <2>2, <2>3 DEF Alerts, Reaches, severity
<1> QED BY <1>2, <1>9, <1>10, <1>11 DEF IntentsOK, MaintenanceIsQuiet

LEMMA IntentsApply ==
  ASSUME Inv, IntentsOK, NEW n \in DOMAIN results, ~Pointless(n), Apply(n), results' = results
  PROVE  IntentsOK' /\ Follows(intents, intents')
<1>1. incident' \in Incidents
  BY ApplyFits
<1>2. results[n].health = "MAINTENANCE" => Active
  BY DEF Pointless, Failures
<1> QED BY <1>1, <1>2, IntentsResolved, IntentsEntered, IntentsFailed, IntentsOpened DEF Apply

--------------------------------------------------------------------------------
\* What the workers do to the intents

\* One intent that is not given yet moves, and is not suppressed but by its route.
LEMMA IntentsMoved ==
  ASSUME IntentsOK, UNCHANGED <<results, incident, caught>>, NEW k,
         DOMAIN intents' = DOMAIN intents,
         \A o \in DOMAIN intents : o # k => intents'[o] = intents[o],
         k \in DOMAIN intents =>
           /\ intents[k].state \in Waiting \cup {"CLAIMED"}
           /\ intents'[k] \in IntentRows /\ intents'[k].severity = intents[k].severity
           /\ intents'[k].state # "PENDING"
           /\ intents'[k].state = "SUPPRESSED" => intents'[k].disabled
  PROVE  IntentsOK' /\ Follows(intents, intents')
<1>1. Typed(intents, Now)' /\ ProductKeys(intents)' = ProductKeys(intents)
  BY DEF IntentsOK, Typed, Now, ProductKeys
<1>2. Follows(intents, intents')
  BY DEF Follows, Waiting, Given
<1>3. ASSUME Active PROVE Alerts'
  <2>1. Alerts /\ Alert' = Alert /\ Escalation' = Escalation /\ Now' = Now
    BY <1>3 DEF IntentsOK, Alert, Escalation, Now
  <2>2. Reaches(intents, SeverityOf(results[incident.seen].health))'
    <3>1. PICK o \in ProductKeys(intents) :
            Rank(intents[o].severity) >= Rank(SeverityOf(results[incident.seen].health))
      BY <2>1 DEF Alerts, Reaches
    <3>2. intents'[o].severity = intents[o].severity
      BY <1>2, <3>1 DEF ProductKeys, Follows
    <3> QED BY <1>1, <3>1, <3>2 DEF Reaches
  <2>3. intents'[Alert].severity = intents[Alert].severity
    BY <1>2, <2>1 DEF Alerts, Follows
  <2>4. Escalated(intents)'
    BY <2>1, <2>3 DEF Alerts, Escalated
  <2> QED BY <2>1, <2>2, <2>4 DEF Alerts
<1>4. MaintenanceIsQuiet'
  BY <1>1 DEF IntentsOK, MaintenanceIsQuiet, ProductKeys, Waiting
<1> QED BY <1>1, <1>2, <1>3, <1>4 DEF IntentsOK, Active

\* Nothing moves.
LEMMA IntentsKept ==
  ASSUME IntentsOK, UNCHANGED <<incident, caught, intents>>,
         \A n \in DOMAIN results : n \in DOMAIN results' /\ results'[n] = results[n]
  PROVE  IntentsOK' /\ Follows(intents, intents')
BY DEF IntentsOK, Typed, Now, Active, Alerts, Alert, Escalated, Escalation, Reaches, ProductKeys,
       MaintenanceIsQuiet, Follows

LEMMA IntentsDelivered ==
  ASSUME IntentsOK, NEW w \in Workers,
         Claim(w) \/ Deliver(w) \/ MarkDelivered(w) \/ FailClaim(w) \/ Restart(w)
  PROVE  IntentsOK' /\ Follows(intents, intents')
<1>1. UNCHANGED <<results, incident, caught>>
  BY DEF Claim, Deliver, MarkDelivered, FailClaim, Restart, episodes
<1>2. \A o \in DOMAIN intents : intents[o] \in IntentRows
  BY DEF IntentsOK, Typed
<1>3. CASE UNCHANGED intents
  BY <1>1, <1>3, IntentsKept
<1>4. CASE Claim(w)
  <2>1. PICK k \in DOMAIN intents :
          /\ intents[k].state \in Waiting \cup {"CLAIMED"}
          /\ intents' = [intents EXCEPT ![k].state = "CLAIMED", ![k].attempts = @ + 1,
                                        ![k].token = intents[k].attempts + 1]
    BY <1>4 DEF Claim
  <2>2. /\ DOMAIN intents' = DOMAIN intents
        /\ \A o \in DOMAIN intents : o # k => intents'[o] = intents[o]
        /\ intents'[k] \in IntentRows /\ intents'[k].severity = intents[k].severity
        /\ intents'[k].state = "CLAIMED"
    BY <1>2, <2>1 DEF IntentRows, States, Tokens
  <2> QED BY <1>1, <2>1, <2>2, IntentsMoved
<1>5. CASE MarkDelivered(w) /\ HoldsClaim(w) /\ intents' # intents
  <2> DEFINE k == worker[w].key
  <2>1. intents' = [intents EXCEPT ![k].state = "DELIVERED", ![k].token = None]
    BY <1>5 DEF MarkDelivered
  <2>2. intents[k].state = "CLAIMED"
    BY <1>5 DEF HoldsClaim
  <2> HIDE DEF k
  <2>3. /\ DOMAIN intents' = DOMAIN intents
        /\ \A o \in DOMAIN intents : o # k => intents'[o] = intents[o]
        /\ k \in DOMAIN intents => /\ intents'[k] \in IntentRows /\ intents'[k].severity = intents[k].severity
                                   /\ intents'[k].state = "DELIVERED"
    BY <1>2, <2>1 DEF IntentRows, States, Settled, Tokens
  <2> QED BY <1>1, <2>2, <2>3, IntentsMoved
<1>6. CASE FailClaim(w) /\ HoldsClaim(w)
  <2> DEFINE k == worker[w].key
             state == CASE worker[w].code = "DISABLED_ROUTE" -> "SUPPRESSED"
                        [] worker[w].code = "PERMANENT" \/ Exhausted(intents[k]) -> "FAILED_TERMINAL"
                        [] OTHER -> "FAILED_RETRYABLE"
  <2>1. intents' = [intents EXCEPT ![k].state = state, ![k].token = None,
                      ![k].reason = IF state = "SUPPRESSED" THEN "DISABLED" ELSE None,
                      ![k].disabled = state = "SUPPRESSED"]
    BY <1>6 DEF FailClaim
  <2>2. intents[k].state = "CLAIMED"
    BY <1>6 DEF HoldsClaim
  <2>3. state \in {"SUPPRESSED", "FAILED_TERMINAL", "FAILED_RETRYABLE"}
    OBVIOUS
  <2> HIDE DEF k, state
  <2>4. /\ DOMAIN intents' = DOMAIN intents
        /\ \A o \in DOMAIN intents : o # k => intents'[o] = intents[o]
        /\ k \in DOMAIN intents =>
             /\ intents'[k] \in IntentRows /\ intents'[k].severity = intents[k].severity
             /\ intents'[k].state # "PENDING"
             /\ intents'[k].state = "SUPPRESSED" => intents'[k].disabled
    BY <1>2, <2>1, <2>3 DEF IntentRows, States, Settled, Waiting, Tokens
  <2> QED BY <1>1, <2>2, <2>4, IntentsMoved
<1> QED BY <1>3, <1>4, <1>5, <1>6 DEF Deliver, MarkDelivered, FailClaim, Restart

LEMMA IntentsNext == Inv /\ IntentsOK /\ [Next]_vars => IntentsOK' /\ Follows(intents, intents')
<1> SUFFICES ASSUME Inv, IntentsOK, [Next]_vars PROVE IntentsOK' /\ Follows(intents, intents')
  OBVIOUS
<1>1. ASSUME NEW n \in Runs, NEW r \in Results, Commit(n, r)
      PROVE  IntentsOK' /\ Follows(intents, intents')
  <2>1. \A m \in DOMAIN results : m \in DOMAIN results' /\ results'[m] = results[m]
    BY <1>1 DEF Commit, With
  <2> QED BY <1>1, <2>1, IntentsKept DEF Commit, episodes
<1>2. ASSUME NEW n \in Runs, Process(n) PROVE IntentsOK' /\ Follows(intents, intents')
  BY <1>2, IntentsKept, IntentsApply DEF Process
<1>3. ASSUME NEW n \in Runs, Look(n) PROVE IntentsOK' /\ Follows(intents, intents')
  BY <1>3, IntentsKept DEF Look
<1>4. ASSUME ProcessLooked PROVE IntentsOK' /\ Follows(intents, intents')
  <2>1. looked \in DOMAIN results
    BY <1>4 DEF ProcessLooked, Inv, IncidentOK
  <2> QED BY <1>4, <2>1, IntentsKept, IntentsApply DEF ProcessLooked
<1>5. CASE UNCHANGED vars
  BY <1>5, IntentsKept DEF vars, episodes
<1> QED BY <1>1, <1>2, <1>3, <1>4, <1>5, IntentsDelivered DEF Next

\* The facts about the intents hold in every reachable state.
THEOREM IntentsInvariance == Spec => []IntentsOK
<1>1. Inv /\ IntentsOK /\ [Next]_vars => Inv' /\ IntentsOK'
  BY InvNext, IntentsNext
<1>2. Init => Inv /\ IntentsOK
  BY InvInit, IntentsInit
<1> QED BY <1>1, <1>2, PTL DEF Spec

\* During maintenance no alert of the incident waits for its first attempt, and one that is
\* being sent, or waits for another attempt, was claimed as the maintenance was entered
\* (suppressLlmHealthProductNotificationsInTransaction).
THEOREM Quiet == Spec => []MaintenanceIsQuiet
<1>1. IntentsOK => MaintenanceIsQuiet
  BY DEF IntentsOK
<1> QED BY <1>1, IntentsInvariance, PTL

\* A failure after maintenance finds the alert of the opening resumed, unless its route is
\* disabled (resumeLlmHealthProductNotificationInTransaction).
THEOREM Resumes == Spec => []AlertResumed
<1>1. IntentsOK => AlertResumed
  BY DEF IntentsOK, AlertResumed, Active, Alerts, Alert
<1> QED BY <1>1, IntentsInvariance, PTL

\* The last failure of an open incident has an alert at least as severe that is not kept
\* silent, but by a disabled route or for being an escalation that maintenance may have
\* silenced; and there is one alert for each severity (observeLlmHealthFailureInTransaction).
THEOREM Told == Spec => []SeverityTold
<1>1. IntentsOK => SeverityTold
  <2> SUFFICES ASSUME IntentsOK, Active
               PROVE  /\ incident.status = "OPEN" =>
                           \E k \in ProductKeys(intents) :
                             /\ Rank(intents[k].severity) >= Rank(SeverityOf(results[incident.seen].health))
                             /\ Audible(k)
                      /\ \A k, o \in ProductKeys(intents) :
                           intents[k].severity = intents[o].severity => k = o
    BY DEF SeverityTold, Active
  <2>1. Alerts /\ Now \in Nat /\ Typed(intents, Now)
    BY DEF IntentsOK, Incidents, Now
  <2>2. /\ ProductKeys(intents) = {Alert, Escalation} \cap DOMAIN intents
        /\ Escalation.kind = "INCIDENT_ESCALATED"
        /\ Escalation \in DOMAIN intents => intents[Escalation].severity = "CRITICAL"
    BY <2>1, ProductKeysAre
  <2>3. Escalation \in DOMAIN intents => intents[Alert].severity = "WARNING"
    BY <2>1 DEF Alerts, Escalated
  <2>4. \A k, o \in ProductKeys(intents) : intents[k].severity = intents[o].severity => k = o
    BY <2>2, <2>3
  <2>5. incident.status = "OPEN" => \A k \in ProductKeys(intents) : Audible(k)
    BY <2>1, <2>2 DEF Alerts, Escalated, Audible
  <2>6. PICK k \in ProductKeys(intents) :
          Rank(intents[k].severity) >= Rank(SeverityOf(results[incident.seen].health))
    BY <2>1 DEF Alerts, Reaches
  <2> QED BY <2>4, <2>5, <2>6
<1> QED BY <1>1, IntentsInvariance, PTL

\* A delivered intent, or one that was given up, is never opened again.
THEOREM GivenForGood == Spec => SettledStays
<1>1. Inv /\ IntentsOK /\ [Next]_vars =>
        [\A k \in DOMAIN intents : intents[k].state \in {"DELIVERED", "FAILED_TERMINAL"} =>
           k \in DOMAIN intents' /\ intents'[k].state = intents[k].state]_vars
  BY IntentsNext DEF Follows, Given
<1> QED BY <1>1, Invariance, IntentsInvariance, PTL DEF Spec, SettledStays

--------------------------------------------------------------------------------
\* The attempts of an intent, and the types of everything

\* What is to be claimed again without anybody's trouble
Resting(row) == row.state \in Waiting \/ (row.state = "SUPPRESSED" /\ row.reason = "MAINTENANCE")

Whole(row) == row.state = "CLAIMED" <=> row.token # None

\* The processing of runs tries nothing, and gives nothing an attempt that has none left.
Spared(row, new) ==
  /\ new.attempts = row.attempts
  /\ Resting(new) => Resting(row)
  /\ Whole(row) => Whole(new)

Fresh(row) == row.attempts = 0 /\ Whole(row)

Spares(rows, new, episode) ==
  /\ DOMAIN rows \subseteq DOMAIN new
  /\ \A k \in DOMAIN new :
       IF k \in DOMAIN rows THEN Spared(rows[k], new[k]) ELSE k.episode = episode /\ Fresh(new[k])

\* What failed, was silenced or is resumed has an attempt left.
AttemptsOK == \A k \in DOMAIN intents : Resting(intents[k]) => intents[k].attempts < MaxAttempts

Phases == {"idle", "claimed", "accepted", "failing", "stopped"}
WorkerRows == [phase : Phases, key : Keys \cup {None}, token : Tokens, code : Codes \cup {None}]

WorkersOK ==
  /\ \A k \in DOMAIN intents : k.episode >= 1 /\ Whole(intents[k])
  /\ worker \in [Workers -> WorkerRows]
  /\ \A w \in Workers : worker[w].phase \in {"claimed", "accepted", "failing"} =>
                          worker[w].key \in DOMAIN intents
  /\ troubles \in 0 .. MaxTroubles
  /\ caught \subseteq DOMAIN intents

\* An incident is opened by a run later than the one that ended the last.
EpisodesOK ==
  /\ incident.episode <= incident.last /\ incident.last <= MaxRuns /\ incident.seen <= MaxRuns
  /\ IF incident.status = "NONE" THEN incident.last = 0 ELSE incident.episode >= 1

SlotsOK ==
  /\ Cardinality(recent) <= MaxSlots
  /\ \A x, y \in recent : x.result = y.result => x = y

DeliveryOK == EpisodesOK /\ SlotsOK /\ WorkersOK /\ AttemptsOK

\* What processing a run may do to the intents
LEMMA SparedTwice ==
  ASSUME NEW a, NEW b, NEW c, NEW e, Spares(a, b, e), Spares(b, c, e)
  PROVE  Spares(a, c, e)
<1> SUFFICES ASSUME NEW k \in DOMAIN c
             PROVE  IF k \in DOMAIN a THEN Spared(a[k], c[k]) ELSE k.episode = e /\ Fresh(c[k])
  BY DEF Spares
<1>1. CASE k \in DOMAIN a
  BY <1>1 DEF Spares, Spared
<1>2. CASE k \notin DOMAIN a /\ k \in DOMAIN b
  BY <1>2 DEF Spares, Spared, Fresh
<1>3. CASE k \notin DOMAIN b
  BY <1>3 DEF Spares
<1> QED BY <1>1, <1>2, <1>3

LEMMA SparedNothing == ASSUME NEW rows, NEW e PROVE Spares(rows, rows, e)
  BY DEF Spares, Spared

LEMMA RecordedSpares ==
  ASSUME NEW rows, NEW e, NEW k, k.episode = e, NEW row, Fresh(row)
  PROVE  Spares(rows, Recorded(rows, k, row), e)
  BY DEF Spares, Spared, Recorded, With

LEMMA FreshRow == ASSUME NEW severity PROVE Fresh(Row(severity))
  BY DEF Fresh, Row, Whole

LEMMA SilencedSpares ==
  ASSUME NEW rows, NEW e, Typed(rows, e), NEW now
  PROVE  Spares(rows, Silenced(rows), now)
<1> SUFFICES ASSUME NEW k \in DOMAIN rows PROVE Spared(rows[k], Silenced(rows)[k])
  BY DEF Spares, Silenced
<1>1. rows[k] \in IntentRows
  BY DEF Typed
<1>2. CASE k \in ProductKeys(rows) /\ rows[k].state \in Waiting
  <2>1. Silenced(rows)[k] = [rows[k] EXCEPT !.state = "SUPPRESSED", !.reason = "MAINTENANCE", !.token = None]
    BY <1>2 DEF Silenced
  <2> QED BY <1>1, <1>2, <2>1 DEF Spared, Whole, Resting, Waiting, IntentRows
<1>3. CASE ~(k \in ProductKeys(rows) /\ rows[k].state \in Waiting)
  <2>1. Silenced(rows)[k] = rows[k]
    BY <1>3 DEF Silenced
  <2> QED BY <2>1 DEF Spared
<1> QED BY <1>2, <1>3

LEMMA ResumedSpares ==
  ASSUME NEW rows, NEW e, Typed(rows, e), NEW now
  PROVE  Spares(rows, Resumed(rows), now)
<1>1. CASE Alert \in DOMAIN rows /\ rows[Alert].state = "SUPPRESSED" /\ rows[Alert].reason = "MAINTENANCE"
  <2>1. Resumed(rows) = [rows EXCEPT ![Alert].state = "PENDING", ![Alert].reason = None]
    BY <1>1 DEF Resumed, Alert
  <2>2. rows[Alert] \in IntentRows
    BY <1>1 DEF Typed
  <2>3. Resumed(rows)[Alert] = [rows[Alert] EXCEPT !.state = "PENDING", !.reason = None]
    BY <1>1, <2>1
  <2>4. Spared(rows[Alert], Resumed(rows)[Alert])
    BY <1>1, <2>2, <2>3 DEF Spared, Whole, Resting, IntentRows
  <2>5. DOMAIN Resumed(rows) = DOMAIN rows
        /\ \A k \in DOMAIN rows \ {Alert} : Resumed(rows)[k] = rows[k]
    BY <2>1
  <2> QED BY <2>4, <2>5 DEF Spares, Spared
<1>2. CASE ~(Alert \in DOMAIN rows /\ rows[Alert].state = "SUPPRESSED" /\ rows[Alert].reason = "MAINTENANCE")
  <2>1. Resumed(rows) = rows
    BY <1>2 DEF Resumed, Alert
  <2> QED BY <2>1, SparedNothing
<1> QED BY <1>1, <1>2

LEMMA ObservedSpares ==
  ASSUME NEW rows, Now \in Nat, Typed(rows, Now), Alert \in DOMAIN rows, NEW health
  PROVE  Spares(rows, Observed(rows, health), Now)
<1> DEFINE k == Worst(rows)
           seen == [rows EXCEPT ![k].reason = None]
           severity == SeverityOf(health)
<1>1. k \in DOMAIN rows
  BY WorstIs DEF ProductKeys
<1>2. Spares(rows, seen, Now)
  <2> HIDE DEF k
  <2>1. rows[k] \in IntentRows
    BY <1>1 DEF Typed
  <2>2. seen[k] = [rows[k] EXCEPT !.reason = None]
    BY <1>1
  <2>4. Spared(rows[k], seen[k])
    BY <2>1, <2>2, NoneIsNothing DEF Spared, Whole, Resting, IntentRows
  <2> QED BY <2>4 DEF Spares, Spared
<1>3. Escalation.episode = Now /\ Fresh(Row(severity))
  BY FreshRow DEF Key, Escalation
<1>4. Spares(seen, Recorded(seen, Escalation, Row(severity)), Now)
  <2> HIDE DEF seen, severity
  <2> QED BY <1>3, RecordedSpares
<1>5. Observed(rows, health) \in {seen, Recorded(seen, Escalation, Row(severity))}
  BY DEF Observed, Escalation
<1> HIDE DEF seen, severity
<1> QED BY <1>2, <1>4, <1>5, SparedTwice

LEMMA AnnouncedSpares ==
  ASSUME NEW rows, NEW kind
  PROVE  Spares(rows, Announced(rows, kind), Now)
<1>1. Key(Now, kind).episode = Now
  BY DEF Key
<1> QED BY <1>1, FreshRow, RecordedSpares DEF Announced

LEMMA ApplySpares ==
  ASSUME Inv, IntentsOK, NEW n \in DOMAIN results, ~Pointless(n), Apply(n)
  PROVE  Spares(intents, intents', incident'.episode)
<1>1. Now \in Nat /\ Typed(intents, Now) /\ incident \in Incidents /\ (Active => Alert \in DOMAIN intents)
  BY DEF IntentsOK, Incidents, Now, Alerts
<1>2. CASE ResolvedBy(n)
  <2> DEFINE mid == IF incident.status = "MAINTENANCE"
                    THEN Announced(intents, "MAINTENANCE_EXITED") ELSE intents
  <2>1. Spares(intents, mid, Now)
    BY AnnouncedSpares, SparedNothing
  <2>2. intents' = Announced(mid, "INCIDENT_RECOVERED") /\ incident'.episode = Now
    BY <1>1, <1>2 DEF ResolvedBy, Now, Incidents
  <2> HIDE DEF mid
  <2> QED BY <2>1, <2>2, AnnouncedSpares, SparedTwice
<1>3. CASE EnteredBy(n) /\ Active
  <2> DEFINE mid == Announced(intents, "MAINTENANCE_ENTERED")
  <2>1. incident'.episode = Now
    BY <1>1, <1>3 DEF EnteredBy, Now, Incidents
  <2>2. intents' = intents \/ intents' = Silenced(mid)
    BY <1>3 DEF EnteredBy
  <2>3. Spares(intents, mid, Now) /\ Typed(mid, Now)
    BY <1>1, AnnouncedSpares, AnnouncedRows DEF Kinds, Product
  <2> HIDE DEF mid
  <2> QED BY <2>1, <2>2, <2>3, SparedNothing, SilencedSpares, SparedTwice
<1>4. CASE Active /\ FailedAgain(n)
  <2> DEFINE resumed == Resumed(intents)
             mid == IF incident.status = "MAINTENANCE"
                    THEN Announced(resumed, "MAINTENANCE_EXITED") ELSE intents
  <2>1. /\ Typed(resumed, Now) /\ DOMAIN resumed = DOMAIN intents /\ Spares(intents, resumed, Now)
    BY <1>1, ResumedRows, ResumedSpares
  <2>2. Typed(mid, Now) /\ Alert \in DOMAIN mid /\ Spares(intents, mid, Now)
    <3>1. CASE incident.status = "MAINTENANCE"
      <4> HIDE DEF resumed
      <4>1. Typed(mid, Now) /\ Follows(resumed, mid) /\ Spares(resumed, mid, Now)
        BY <1>1, <2>1, <3>1, AnnouncedRows, AnnouncedSpares DEF Kinds, Product
      <4> HIDE DEF mid
      <4> QED BY <1>1, <1>4, <2>1, <4>1, SparedTwice DEF Follows
    <3>2. CASE incident.status # "MAINTENANCE"
      BY <1>1, <1>4, <3>2, SparedNothing
    <3> QED BY <3>1, <3>2
  <2>3. intents' = Observed(mid, results[n].health) /\ incident'.episode = Now
    BY <1>1, <1>4 DEF FailedAgain, Now, Incidents
  <2> HIDE DEF mid
  <2> QED BY <1>1, <2>2, <2>3, ObservedSpares, SparedTwice
<1>5. CASE OpenedBy(n)
  <2>1. /\ intents' = Recorded(intents, Key(Now + 1, "INCIDENT_OPENED"), Row(SeverityOf(results[n].health)))
        /\ incident'.episode = Now + 1
    BY <1>5 DEF OpenedBy
  <2>2. Key(Now + 1, "INCIDENT_OPENED").episode = Now + 1
    BY DEF Key
  <2> QED BY <2>1, <2>2, FreshRow, RecordedSpares
<1>6. results[n].health = "MAINTENANCE" => Active
  BY DEF Pointless, Failures
<1> QED BY <1>2, <1>3, <1>4, <1>5, <1>6 DEF Apply

\* The slots of the recent states
LEMMA OneMore ==
  ASSUME NEW S, NEW x, IsFiniteSet(S)
  PROVE  /\ IsFiniteSet(S \cup {x}) /\ Cardinality(S) \in Nat /\ Cardinality(S \cup {x}) \in Nat
         /\ Cardinality(S \cup {x}) <= Cardinality(S) + 1
<1>1. /\ IsFiniteSet(S \cup {x})
      /\ Cardinality(S \cup {x}) = IF x \in S THEN Cardinality(S) ELSE Cardinality(S) + 1
  BY FS_AddElement
<1>2. Cardinality(S) \in Nat
  BY FS_CardinalityType
<1> QED BY <1>1, <1>2

LEMMA ProjectSlots ==
  ASSUME NEW rows, IsFiniteSet(rows), Cardinality(rows) <= MaxSlots,
         \A x, y \in rows : x.result = y.result => x = y,
         NEW new
  PROVE  /\ Cardinality(Project(rows, new)) <= MaxSlots
         /\ \A x, y \in Project(rows, new) : x.result = y.result => x = y
<1> DEFINE same == {x \in rows : x.result = new.result}
<1>0. Cardinality(rows) \in Nat /\ MaxSlots \in Nat
  BY FS_CardinalityType, TwoSlots
<1>1. CASE same # {}
  <2>1. PICK s \in same : TRUE
    BY <1>1
  <2>2. same = {s}
    BY <2>1
  <2> DEFINE kept == IF s.run < new.run THEN new ELSE s
  <2>3. {IF x.run < new.run THEN new ELSE x : x \in same} = {kept}
    BY <2>2
  <2>4. Project(rows, new) = (rows \ {s}) \cup {kept}
    BY <1>1, <2>2, <2>3 DEF Project
  <2>5. kept.result = s.result
    BY <2>1
  <2> HIDE DEF kept, same
  <2>6. s \in rows
    BY <2>1 DEF same
  <2>7. \A x, y \in Project(rows, new) : x.result = y.result => x = y
    BY <2>4, <2>5, <2>6
  <2>8. IsFiniteSet(rows \ {s}) /\ Cardinality(rows \ {s}) = Cardinality(rows) - 1
    BY <2>6, FS_RemoveElement
  <2>9. /\ Cardinality((rows \ {s}) \cup {kept}) <= Cardinality(rows \ {s}) + 1
        /\ Cardinality((rows \ {s}) \cup {kept}) \in Nat
    BY <2>8, OneMore
  <2>10. Cardinality((rows \ {s}) \cup {kept}) <= MaxSlots
    BY <1>0, <2>8, <2>9
  <2> QED BY <2>4, <2>7, <2>10
<1>2. CASE same = {} /\ Cardinality(rows) < MaxSlots
  <2>1. Project(rows, new) = rows \cup {new}
    BY <1>2 DEF Project
  <2>2. Cardinality(rows \cup {new}) <= Cardinality(rows) + 1 /\ Cardinality(rows \cup {new}) \in Nat
    BY OneMore
  <2> QED BY <1>0, <1>2, <2>1, <2>2
<1>3. CASE same = {} /\ ~(Cardinality(rows) < MaxSlots)
  <2> DEFINE gone == Replaced(rows, new)
  <2>1. Project(rows, new) = IF gone = {} THEN rows ELSE (rows \ gone) \cup {new}
    BY <1>3 DEF Project
  <2>2. gone \subseteq rows
    BY DEF Replaced, Oldest
  <2> HIDE DEF gone
  <2>3. ASSUME gone # {}
        PROVE  Cardinality((rows \ gone) \cup {new}) <= Cardinality(rows)
    <3>1. PICK s \in gone : TRUE
      BY <2>3
    <3>2. IsFiniteSet(rows \ {s}) /\ Cardinality(rows \ {s}) = Cardinality(rows) - 1
      BY <2>2, <3>1, FS_RemoveElement
    <3>3. rows \ gone \subseteq rows \ {s}
      BY <3>1
    <3>4. IsFiniteSet(rows \ gone) /\ Cardinality(rows \ gone) <= Cardinality(rows) - 1
      BY <3>2, <3>3, FS_Subset
    <3>5. /\ Cardinality(rows \ gone) \in Nat /\ Cardinality((rows \ gone) \cup {new}) \in Nat
          /\ Cardinality((rows \ gone) \cup {new}) <= Cardinality(rows \ gone) + 1
      BY <3>4, OneMore
    <3> QED BY <1>0, <3>4, <3>5
  <2>4. \A x \in rows : x.result # new.result
    BY <1>3
  <2>5. CASE gone = {}
    BY <2>1, <2>5
  <2>6. CASE gone # {}
    <3>1. Project(rows, new) = (rows \ gone) \cup {new}
      BY <2>1, <2>6
    <3>2. Cardinality(Project(rows, new)) <= Cardinality(rows)
      BY <2>3, <2>6, <3>1
    <3>3. IsFiniteSet(Project(rows, new))
      BY ProjectIn
    <3>4. Cardinality(Project(rows, new)) \in Nat
      BY <3>3, FS_CardinalityType
    <3> QED BY <1>0, <2>4, <3>1, <3>2, <3>4
  <2> QED BY <2>5, <2>6
<1> QED BY <1>1, <1>2, <1>3

\* What a step that claims nothing leaves of the workers and the attempts
LEMMA SparedDelivery ==
  ASSUME IntentsOK, WorkersOK, AttemptsOK, Spares(intents, intents', incident'.episode),
         DOMAIN intents' \subseteq DOMAIN intents \/ incident'.episode >= 1,
         UNCHANGED worker, troubles' \in {troubles, troubles + 1}, troubles' <= MaxTroubles,
         caught' \subseteq DOMAIN intents'
  PROVE  WorkersOK' /\ AttemptsOK'
<1>1. troubles' \in 0 .. MaxTroubles
  BY TroublesAreBounded DEF WorkersOK
<1>2. ASSUME NEW k \in DOMAIN intents'
      PROVE  k.episode >= 1 /\ Whole(intents'[k])
  <2>1. CASE k \in DOMAIN intents
    BY <2>1 DEF WorkersOK, Spares, Spared
  <2>2. CASE k \notin DOMAIN intents
    BY <2>2, <1>2 DEF Spares, Fresh, Whole
  <2> QED BY <2>1, <2>2
<1>3. ASSUME NEW k \in DOMAIN intents', Resting(intents'[k])
      PROVE  intents'[k].attempts < MaxAttempts
  <2>1. CASE k \in DOMAIN intents
    BY <1>3, <2>1 DEF Spares, Spared, AttemptsOK
  <2>2. CASE k \notin DOMAIN intents
    BY <2>2, SomeAttempt DEF Spares, Fresh
  <2> QED BY <2>1, <2>2
<1>4. WorkersOK'
  BY <1>1, <1>2 DEF WorkersOK, Spares
<1> QED BY <1>3, <1>4 DEF AttemptsOK

LEMMA DeliveryInit == Init => DeliveryOK
<1> SUFFICES ASSUME Init PROVE DeliveryOK
  OBVIOUS
<1>1. DOMAIN intents = {}
  BY DEF Init
<1>2. Cardinality(recent) = 0
  BY FS_EmptySet DEF Init
<1>3. EpisodesOK /\ SlotsOK
  BY <1>2, TwoSlots, RunsAreBounded DEF Init, EpisodesOK, SlotsOK
<1>4. WorkersOK /\ AttemptsOK
  BY <1>1, TroublesAreBounded DEF Init, WorkersOK, AttemptsOK, WorkerRows, Phases, Off, Tokens
<1> QED BY <1>3, <1>4 DEF DeliveryOK

\* A run that is processed, now or after it was looked at
LEMMA DeliveryApply ==
  ASSUME Inv, IntentsOK, DeliveryOK, NEW n \in DOMAIN results, ~Pointless(n), Apply(n),
         UNCHANGED <<results, recent, worker, troubles>>
  PROVE  DeliveryOK'
<1>1. /\ incident \in Incidents /\ incident' \in Incidents /\ incident'.last = n
      /\ incident'.status # "NONE"
  BY ApplyFits DEF Inv, IncidentOK
<1>2. n \in Runs /\ n \in Nat /\ MaxRuns \in Nat /\ n <= MaxRuns /\ n >= 1
  BY RunsAreBounded DEF Inv, Committed, Runs
<1>3. incident.status # "NONE" => n > incident.last
  BY <1>1, <1>2 DEF Pointless, Incidents
<1>4. /\ incident'.episode \in {incident.episode, incident.episode + 1}
      /\ incident'.seen \in {incident.seen, n}
      /\ incident'.episode = incident.episode => Active
  <2>1. CASE ResolvedBy(n) /\ results[n].health = "HEALTHY"
    BY <1>1, <2>1 DEF ResolvedBy, Incidents, Pointless, Failures
  <2>2. CASE EnteredBy(n) /\ results[n].health = "MAINTENANCE"
    BY <1>1, <2>2 DEF EnteredBy, Incidents, Pointless, Failures
  <2>3. CASE Active /\ FailedAgain(n)
    BY <1>1, <2>3 DEF FailedAgain, Incidents
  <2>4. CASE OpenedBy(n)
    BY <1>1, <2>4 DEF OpenedBy, Incidents, Now
  <2> QED BY <2>1, <2>2, <2>3, <2>4 DEF Apply
<1>5. EpisodesOK'
  BY <1>1, <1>2, <1>3, <1>4 DEF DeliveryOK, EpisodesOK, Incidents, Active
<1>6. SlotsOK'
  BY DEF DeliveryOK, SlotsOK
<1>7. Spares(intents, intents', incident'.episode) /\ Follows(intents, intents')
  BY ApplySpares, IntentsApply
<1>8. caught' \subseteq DOMAIN intents \cup {} /\ DOMAIN intents \subseteq DOMAIN intents'
  BY <1>7 DEF Apply, ResolvedBy, EnteredBy, FailedAgain, OpenedBy, ProductKeys, DeliveryOK, WorkersOK, Follows
<1>9. incident'.episode >= 1
  BY <1>1, <1>5 DEF EpisodesOK
<1>10. troubles' <= MaxTroubles
  BY TroublesAreBounded DEF DeliveryOK, WorkersOK
<1>11. WorkersOK' /\ AttemptsOK'
  BY <1>7, <1>8, <1>9, <1>10, SparedDelivery DEF DeliveryOK
<1> QED BY <1>5, <1>6, <1>11 DEF DeliveryOK

\* Steps that leave the incident and the intents alone
LEMMA DeliveryKept ==
  ASSUME IntentsOK, DeliveryOK, UNCHANGED <<incident, intents, worker, caught>>,
         troubles' = troubles \/ Trouble, SlotsOK'
  PROVE  DeliveryOK'
<1>1. Spares(intents, intents', incident'.episode)
  BY SparedNothing
<1>2. troubles' \in {troubles, troubles + 1} /\ troubles' <= MaxTroubles
  BY TroublesAreBounded DEF DeliveryOK, WorkersOK, Trouble
<1>3. caught' \subseteq DOMAIN intents'
  BY DEF DeliveryOK, WorkersOK
<1>4. WorkersOK' /\ AttemptsOK'
  BY <1>1, <1>2, <1>3, SparedDelivery DEF DeliveryOK
<1> QED BY <1>4 DEF DeliveryOK, EpisodesOK

LEMMA DeliveryCommit ==
  ASSUME Inv, IntentsOK, DeliveryOK, NEW n \in Runs, NEW r \in Results, Commit(n, r)
  PROVE  DeliveryOK'
<1>1. recent' = Project(recent, [result |-> r, run |-> n])
      /\ UNCHANGED <<incident, intents, worker, caught, troubles>>
  BY DEF Commit, episodes
<1>2. SlotsOK'
  BY <1>1, ProjectSlots DEF Inv, RecentOK, DeliveryOK, SlotsOK
<1> QED BY <1>1, <1>2, DeliveryKept

\* The workers
LEMMA KeysOfIntents ==
  ASSUME IntentsOK, EpisodesOK, WorkersOK
  PROVE  DOMAIN intents \subseteq Keys
<1> SUFFICES ASSUME NEW k \in DOMAIN intents PROVE k \in Keys
  OBVIOUS
<1>1. k \in [episode : Nat, kind : Kinds] /\ k.episode <= Now /\ Now \in Nat /\ k.episode >= 1
  BY DEF IntentsOK, Typed, Incidents, Now, WorkersOK
<1>2. Now <= MaxRuns
  BY RunsAreBounded DEF EpisodesOK, IntentsOK, Incidents, Now
<1>3. k.episode \in Runs
  BY <1>1, <1>2, RunsAreBounded DEF Runs
<1> QED BY <1>1, <1>3 DEF Keys

LEMMA ClaimDelivery ==
  ASSUME IntentsOK, DeliveryOK, NEW w \in Workers, Claim(w)
  PROVE  WorkersOK' /\ AttemptsOK'
<1>1. /\ \A k \in DOMAIN intents : intents[k] \in IntentRows /\ intents[k].attempts \in Nat
      /\ worker \in [Workers -> WorkerRows]
  BY DEF DeliveryOK, WorkersOK, IntentsOK, Typed, IntentRows
<1>2. PICK k \in DOMAIN intents :
        /\ \/ intents[k].state \in Waiting /\ UNCHANGED troubles
           \/ intents[k].state = "CLAIMED" /\ (IF Deserted(k) THEN UNCHANGED troubles ELSE Trouble)
        /\ intents' = [intents EXCEPT ![k].state = "CLAIMED", ![k].attempts = @ + 1,
                                      ![k].token = intents[k].attempts + 1]
        /\ worker' = [worker EXCEPT ![w] = [Off EXCEPT !.phase = "claimed", !.key = k]]
  BY DEF Claim
<1>3. UNCHANGED caught
  BY DEF Claim, episodes
<1>4. /\ DOMAIN intents' = DOMAIN intents
      /\ \A o \in DOMAIN intents : o # k => intents'[o] = intents[o]
      /\ intents'[k].state = "CLAIMED" /\ intents'[k].token = intents[k].attempts + 1
  BY <1>1, <1>2 DEF IntentRows
<1>5. /\ \A v \in Workers \ {w} : worker'[v] = worker[v]
      /\ worker'[w] = [phase |-> "claimed", key |-> k, token |-> None, code |-> None]
  BY <1>1, <1>2 DEF Off
<1>6. troubles' \in 0 .. MaxTroubles
  BY <1>2, TroublesAreBounded DEF Trouble, DeliveryOK, WorkersOK
<1>7. k \in Keys
  BY KeysOfIntents DEF DeliveryOK
<1>8. worker' \in [Workers -> WorkerRows]
  <2> DEFINE row == [Off EXCEPT !.phase = "claimed", !.key = k]
  <2>1. row \in WorkerRows
    BY <1>7 DEF Off, WorkerRows, Phases, Tokens
  <2>2. worker' = [worker EXCEPT ![w] = row]
    BY <1>2
  <2> HIDE DEF row
  <2> QED BY <1>1, <2>1, <2>2
<1>9. Whole(intents'[k])
  BY <1>1, <1>4, NoneIsNothing DEF Whole
<1>10. WorkersOK'
  BY <1>3, <1>4, <1>5, <1>6, <1>8, <1>9 DEF DeliveryOK, WorkersOK
<1>11. ~Resting(intents'[k])
  BY <1>4 DEF Resting, Waiting
<1>12. AttemptsOK'
  BY <1>4, <1>11 DEF DeliveryOK, AttemptsOK
<1> QED BY <1>10, <1>12

\* Steps of a worker that write no intent
LEMMA SilentDelivery ==
  ASSUME DeliveryOK, NEW w \in Workers,
         UNCHANGED <<intents, caught>>, troubles' = troubles \/ Trouble,
         NEW row \in WorkerRows, worker' = [worker EXCEPT ![w] = row],
         row.phase \in {"claimed", "accepted", "failing"} => row.key \in DOMAIN intents
  PROVE  WorkersOK' /\ AttemptsOK'
<1>1. worker \in [Workers -> WorkerRows]
  BY DEF DeliveryOK, WorkersOK
<1>2. /\ \A v \in Workers \ {w} : worker'[v] = worker[v]
      /\ worker'[w] = row /\ worker' \in [Workers -> WorkerRows]
  BY <1>1
<1>3. troubles' \in 0 .. MaxTroubles
  BY TroublesAreBounded DEF Trouble, DeliveryOK, WorkersOK
<1> QED BY <1>2, <1>3 DEF DeliveryOK, WorkersOK, AttemptsOK

\* A worker ends an attempt it still holds.
LEMMA EndedDelivery ==
  ASSUME DeliveryOK, NEW w \in Workers, worker[w].phase \in {"accepted", "failing"},
         UNCHANGED <<caught, troubles>>, worker' = [worker EXCEPT ![w] = Off],
         NEW row \in IntentRows, row.state # "CLAIMED", row.token = None,
         Resting(row) => row.attempts < MaxAttempts,
         intents' = [intents EXCEPT ![worker[w].key] = row]
  PROVE  WorkersOK' /\ AttemptsOK'
<1> DEFINE k == worker[w].key
<1>1. worker \in [Workers -> WorkerRows] /\ k \in DOMAIN intents
  BY DEF DeliveryOK, WorkersOK
<1>2. /\ \A v \in Workers \ {w} : worker'[v] = worker[v]
      /\ worker'[w] = Off /\ worker' \in [Workers -> WorkerRows]
  BY <1>1 DEF Off, WorkerRows, Phases, Tokens
<1>3. /\ DOMAIN intents' = DOMAIN intents /\ intents'[k] = row
      /\ \A o \in DOMAIN intents : o # k => intents'[o] = intents[o]
  BY <1>1
<1> HIDE DEF k
<1>4. WorkersOK'
  BY <1>2, <1>3 DEF DeliveryOK, WorkersOK, Off, Whole
<1>5. AttemptsOK'
  BY <1>3 DEF DeliveryOK, AttemptsOK
<1> QED BY <1>4, <1>5

LEMMA DeliverDelivery ==
  ASSUME IntentsOK, DeliveryOK, NEW w \in Workers, Deliver(w)
  PROVE  WorkersOK' /\ AttemptsOK'
<1> DEFINE k == worker[w].key
           token == intents[k].token
           read == [worker[w] EXCEPT !.token = token]
<1>1. /\ worker[w] \in WorkerRows /\ worker[w].phase = "claimed"
      /\ k \in DOMAIN intents /\ token \in Tokens
      /\ UNCHANGED <<intents, troubles, caught>>
  BY DEF Deliver, DeliveryOK, WorkersOK, IntentsOK, Typed, IntentRows, episodes
<1>2. \E row \in WorkerRows :
        /\ worker' = [worker EXCEPT ![w] = row]
        /\ \/ row.phase = "stopped"
           \/ row.phase \in {"accepted", "failing"} /\ row.key = k
  <2>1. CASE token = None /\ worker' = [worker EXCEPT ![w] = [Off EXCEPT !.phase = "stopped"]]
    <3> DEFINE row == [Off EXCEPT !.phase = "stopped"]
    <3>1. row \in WorkerRows /\ row.phase = "stopped"
      BY DEF Off, WorkerRows, Phases, Tokens
    <3> HIDE DEF row
    <3> QED BY <2>1, <3>1 DEF row
  <2>2. CASE token # None /\ worker' = [worker EXCEPT ![w] = [read EXCEPT !.phase = "accepted"]]
    <3> DEFINE row == [read EXCEPT !.phase = "accepted"]
    <3>1. row \in WorkerRows /\ row.phase = "accepted" /\ row.key = k
      BY <1>1 DEF WorkerRows, Phases
    <3> HIDE DEF row
    <3> QED BY <2>2, <3>1 DEF row
  <2>3. ASSUME token # None, NEW c \in Codes,
               worker' = [worker EXCEPT ![w] = [read EXCEPT !.phase = "failing", !.code = c]]
        PROVE  \E row \in WorkerRows :
                 /\ worker' = [worker EXCEPT ![w] = row]
                 /\ row.phase \in {"accepted", "failing"} /\ row.key = k
    <3> DEFINE row == [read EXCEPT !.phase = "failing", !.code = c]
    <3>1. row \in WorkerRows /\ row.phase = "failing" /\ row.key = k
      BY <1>1 DEF WorkerRows, Phases
    <3> HIDE DEF row
    <3> QED BY <2>3, <3>1 DEF row
  <2> QED BY <2>1, <2>2, <2>3 DEF Deliver
<1>3. PICK row \in WorkerRows :
        /\ worker' = [worker EXCEPT ![w] = row]
        /\ \/ row.phase = "stopped"
           \/ row.phase \in {"accepted", "failing"} /\ row.key = k
  BY <1>2
<1>4. row.phase \in {"claimed", "accepted", "failing"} => row.key \in DOMAIN intents
  BY <1>1, <1>3
<1> QED BY <1>1, <1>3, <1>4, SilentDelivery

LEMMA MarkDelivery ==
  ASSUME IntentsOK, DeliveryOK, NEW w \in Workers, MarkDelivered(w)
  PROVE  WorkersOK' /\ AttemptsOK'
<1> DEFINE k == worker[w].key
<1>1. /\ worker[w] \in WorkerRows /\ worker[w].phase = "accepted"
      /\ k \in DOMAIN intents /\ intents[k] \in IntentRows
      /\ UNCHANGED caught
  BY DEF MarkDelivered, DeliveryOK, WorkersOK, IntentsOK, Typed, episodes
<1>2. CASE /\ UNCHANGED troubles /\ worker' = [worker EXCEPT ![w] = Off]
           /\ intents' = [intents EXCEPT ![k].state = "DELIVERED", ![k].token = None]
  <2> DEFINE row == [intents[k] EXCEPT !.state = "DELIVERED", !.token = None]
  <2>1. row \in IntentRows /\ row.state = "DELIVERED" /\ row.token = None
    BY <1>1 DEF IntentRows, States, Settled, Tokens
  <2>2. intents' = [intents EXCEPT ![k] = row]
    BY <1>2
  <2>3. ~Resting(row)
    BY <2>1 DEF Resting, Waiting
  <2> HIDE DEF row
  <2> QED BY <1>1, <1>2, <2>1, <2>2, <2>3, EndedDelivery
<1>3. CASE /\ troubles' = troubles \/ Trouble
           /\ worker' = [worker EXCEPT ![w].phase = "failing", ![w].code = "TRANSIENT"]
           /\ UNCHANGED intents
  <2> DEFINE row == [worker[w] EXCEPT !.phase = "failing", !.code = "TRANSIENT"]
  <2>1. row \in WorkerRows /\ row.phase = "failing" /\ row.key = k
    BY <1>1 DEF WorkerRows, Phases, Codes
  <2>2. worker' = [worker EXCEPT ![w] = row]
    BY <1>3
  <2> HIDE DEF row
  <2> QED BY <1>1, <1>3, <2>1, <2>2, SilentDelivery
<1> QED BY <1>2, <1>3 DEF MarkDelivered

LEMMA FailDelivery ==
  ASSUME IntentsOK, DeliveryOK, NEW w \in Workers, FailClaim(w)
  PROVE  WorkersOK' /\ AttemptsOK'
<1> DEFINE k == worker[w].key
           state == CASE worker[w].code = "DISABLED_ROUTE" -> "SUPPRESSED"
                      [] worker[w].code = "PERMANENT" \/ Exhausted(intents[k]) -> "FAILED_TERMINAL"
                      [] OTHER -> "FAILED_RETRYABLE"
<1>1. /\ worker[w] \in WorkerRows /\ worker[w].phase = "failing"
      /\ k \in DOMAIN intents /\ intents[k] \in IntentRows
      /\ UNCHANGED <<caught, troubles>>
  BY DEF FailClaim, DeliveryOK, WorkersOK, IntentsOK, Typed, episodes
<1>2. CASE HoldsClaim(w)
  <2> DEFINE reason == IF state = "SUPPRESSED" THEN "DISABLED" ELSE None
             row == [intents[k] EXCEPT !.state = state, !.token = None, !.reason = reason,
                                       !.disabled = state = "SUPPRESSED"]
  <2>1. /\ state \in {"SUPPRESSED", "FAILED_TERMINAL", "FAILED_RETRYABLE"}
        /\ state = "FAILED_RETRYABLE" => ~Exhausted(intents[k])
    OBVIOUS
  <2>2. intents' = [intents EXCEPT ![k] = row] /\ worker' = [worker EXCEPT ![w] = Off]
    BY <1>2 DEF FailClaim
  <2> HIDE DEF state
  <2>3. /\ row \in IntentRows /\ row.state = state /\ row.token = None
        /\ row.attempts = intents[k].attempts /\ row.reason = reason
    BY <1>1, <2>1 DEF IntentRows, States, Settled, Waiting, Tokens
  <2>4. row.attempts \in Nat /\ MaxAttempts \in Nat
    BY <2>3, SomeAttempt DEF IntentRows
  <2> HIDE DEF row
  <2>5. Resting(row) => row.attempts < MaxAttempts
    BY <2>1, <2>3, <2>4 DEF Resting, Waiting, Exhausted
  <2> QED BY <1>1, <2>1, <2>2, <2>3, <2>5, EndedDelivery
<1>3. CASE ~HoldsClaim(w)
  <2> DEFINE row == [Off EXCEPT !.phase = "stopped"]
  <2>1. row \in WorkerRows /\ row.phase = "stopped"
    BY DEF Off, WorkerRows, Phases, Tokens
  <2>2. worker' = [worker EXCEPT ![w] = row] /\ UNCHANGED intents
    BY <1>3 DEF FailClaim
  <2> HIDE DEF row
  <2> QED BY <1>1, <2>1, <2>2, SilentDelivery
<1> QED BY <1>2, <1>3

LEMMA RestartDelivery ==
  ASSUME IntentsOK, DeliveryOK, NEW w \in Workers, Restart(w)
  PROVE  WorkersOK' /\ AttemptsOK'
<1>1. Off \in WorkerRows /\ Off.phase = "idle"
  BY DEF Off, WorkerRows, Phases, Tokens
<1>2. worker' = [worker EXCEPT ![w] = Off] /\ UNCHANGED <<intents, caught>>
  BY DEF Restart, episodes
<1>3. troubles' = troubles \/ Trouble
  BY DEF Restart
<1> QED BY <1>1, <1>2, <1>3, SilentDelivery

LEMMA DeliveryNext == Inv /\ IntentsOK /\ DeliveryOK /\ [Next]_vars => DeliveryOK'
<1> SUFFICES ASSUME Inv, IntentsOK, DeliveryOK, [Next]_vars PROVE DeliveryOK'
  OBVIOUS
<1>1. recent' = recent => SlotsOK'
  BY DEF DeliveryOK, SlotsOK
<1>2. ASSUME NEW n \in Runs, Process(n) PROVE DeliveryOK'
  <2>1. UNCHANGED <<results, recent, looked, worker, troubles>> /\ n \in DOMAIN results
    BY <1>2 DEF Process
  <2>2. CASE Superseded(n) \/ Pointless(n)
    BY <1>1, <1>2, <2>1, <2>2, DeliveryKept DEF Process
  <2>3. CASE ~(Superseded(n) \/ Pointless(n))
    BY <1>2, <2>1, <2>3, DeliveryApply DEF Process
  <2> QED BY <2>2, <2>3
<1>3. ASSUME NEW n \in Runs, Look(n) PROVE DeliveryOK'
  BY <1>1, <1>3, DeliveryKept DEF Look
<1>4. ASSUME ProcessLooked PROVE DeliveryOK'
  <2>1. looked \in DOMAIN results /\ UNCHANGED <<results, recent, worker, troubles>>
    BY <1>4 DEF ProcessLooked, Inv, IncidentOK
  <2>2. CASE Pointless(looked)
    BY <1>1, <1>4, <2>1, <2>2, DeliveryKept DEF ProcessLooked
  <2>3. CASE ~Pointless(looked)
    BY <1>4, <2>1, <2>3, DeliveryApply DEF ProcessLooked
  <2> QED BY <2>2, <2>3
<1>5. ASSUME NEW w \in Workers,
             Claim(w) \/ Deliver(w) \/ MarkDelivered(w) \/ FailClaim(w) \/ Restart(w)
      PROVE  DeliveryOK'
  <2>1. WorkersOK' /\ AttemptsOK'
    BY <1>5, ClaimDelivery, DeliverDelivery, MarkDelivery, FailDelivery, RestartDelivery
  <2>2. UNCHANGED <<recent, incident>>
    BY <1>5 DEF Claim, Deliver, MarkDelivered, FailClaim, Restart, episodes
  <2> QED BY <1>1, <2>1, <2>2 DEF DeliveryOK, EpisodesOK
<1>6. CASE UNCHANGED vars
  BY <1>1, <1>6, DeliveryKept DEF vars, episodes
<1> QED BY <1>2, <1>3, <1>4, <1>5, <1>6, DeliveryCommit DEF Next

\* Attempts, claims and slots fit together in every reachable state.
THEOREM DeliveryInvariance == Spec => []DeliveryOK
<1>1. Init => Inv /\ IntentsOK /\ DeliveryOK
  BY InvInit, IntentsInit, DeliveryInit
<1>2. Inv /\ IntentsOK /\ DeliveryOK /\ [Next]_vars => Inv' /\ IntentsOK' /\ DeliveryOK'
  BY InvNext, IntentsNext, DeliveryNext
<1> QED BY <1>1, <1>2, PTL DEF Spec

\* An intent that has its MaxAttempts attempts is attempted again only when somebody takes it
\* over from a worker that claimed it and did not say how it went: one that failed, that
\* maintenance silenced or gave back, or that was given, is not (failClaim, claimDue).
THEOREM AttemptsBounded == Spec => RetriesBounded
<1>1. ASSUME Inv, IntentsOK, DeliveryOK, [Next]_vars, NEW k \in DOMAIN intents,
             intents'[k].attempts > intents[k].attempts, intents[k].attempts >= MaxAttempts
      PROVE  intents[k].state = "CLAIMED"
  <2>1. intents[k] \in IntentRows /\ intents[k].attempts \in Nat /\ MaxAttempts \in Nat
    BY <1>1, SomeAttempt DEF IntentsOK, Typed, IntentRows
  <2>2. CASE intents'[k].attempts = intents[k].attempts
    BY <1>1, <2>1, <2>2
  <2>3. ASSUME NEW w \in Workers, Claim(w) PROVE intents[k].state = "CLAIMED"
    <3>1. PICK o \in DOMAIN intents :
            /\ intents[o].state \in Waiting \cup {"CLAIMED"}
            /\ intents' = [intents EXCEPT ![o].state = "CLAIMED", ![o].attempts = @ + 1,
                                          ![o].token = intents[o].attempts + 1]
      BY <2>3 DEF Claim
    <3>2. o = k
      BY <1>1, <2>1, <3>1
    <3>3. ~Resting(intents[k])
      BY <1>1, <2>1 DEF DeliveryOK, AttemptsOK
    <3> QED BY <3>1, <3>2, <3>3 DEF Resting
  <2>4. ASSUME NEW w \in Workers,
               Deliver(w) \/ MarkDelivered(w) \/ FailClaim(w) \/ Restart(w)
        PROVE  intents'[k].attempts = intents[k].attempts
    <3> DEFINE o == worker[w].key
    <3>1. CASE Deliver(w) \/ Restart(w)
      BY <3>1 DEF Deliver, Restart
    <3>2. CASE MarkDelivered(w)
      <4>1. \/ intents' = intents
            \/ intents' = [intents EXCEPT ![o].state = "DELIVERED", ![o].token = None]
        BY <3>2 DEF MarkDelivered
      <4> HIDE DEF o
      <4> QED BY <2>1, <4>1 DEF IntentRows
    <3>3. CASE FailClaim(w)
      <4> DEFINE state == CASE worker[w].code = "DISABLED_ROUTE" -> "SUPPRESSED"
                            [] worker[w].code = "PERMANENT" \/ Exhausted(intents[o]) -> "FAILED_TERMINAL"
                            [] OTHER -> "FAILED_RETRYABLE"
                 reason == IF state = "SUPPRESSED" THEN "DISABLED" ELSE None
                 disabled == state = "SUPPRESSED"
      <4>1. \/ intents' = intents
            \/ intents' = [intents EXCEPT ![o].state = state, ![o].token = None,
                                          ![o].reason = reason, ![o].disabled = disabled]
        BY <3>3 DEF FailClaim
      <4> HIDE DEF o, state, reason, disabled
      <4> QED BY <2>1, <4>1 DEF IntentRows
    <3> QED BY <2>4, <3>1, <3>2, <3>3
  <2>5. ASSUME NEW n \in DOMAIN results, ~Pointless(n), Apply(n)
        PROVE  intents'[k].attempts = intents[k].attempts
    <3>1. Spares(intents, intents', incident'.episode)
      BY <1>1, <2>5, ApplySpares
    <3> QED BY <1>1, <3>1 DEF Spares, Spared
  <2>6. ASSUME NEW n \in Runs, Process(n) PROVE intents'[k].attempts = intents[k].attempts
    BY <2>5, <2>6 DEF Process
  <2>7. ASSUME ProcessLooked PROVE intents'[k].attempts = intents[k].attempts
    <3>1. looked \in DOMAIN results
      BY <1>1, <2>7 DEF ProcessLooked, Inv, IncidentOK
    <3> QED BY <2>5, <2>7, <3>1 DEF ProcessLooked
  <2>8. ASSUME NEW n \in Runs, Look(n) \/ \E r \in Results : Commit(n, r)
        PROVE  intents'[k].attempts = intents[k].attempts
    BY <2>8 DEF Look, Commit, episodes
  <2>9. CASE UNCHANGED vars
    BY <2>2, <2>9 DEF vars
  <2> QED BY <1>1, <2>2, <2>3, <2>4, <2>6, <2>7, <2>8, <2>9 DEF Next
<1>2. Inv /\ IntentsOK /\ DeliveryOK /\ [Next]_vars =>
        [\A k \in DOMAIN intents :
           /\ intents'[k].attempts > intents[k].attempts
           /\ intents[k].attempts >= MaxAttempts
           => intents[k].state = "CLAIMED"]_vars
  BY <1>1
<1> QED BY <1>2, Invariance, IntentsInvariance, DeliveryInvariance, PTL DEF Spec, RetriesBounded

\* Every row of the database keeps its type and the slots their number, and an intent has
\* a token exactly while it is claimed.
THEOREM TypeCorrect == Spec => []TypeOK
<1>1. Inv /\ IntentsOK /\ DeliveryOK => TypeOK
  <2> SUFFICES ASSUME Inv, IntentsOK, DeliveryOK PROVE TypeOK
    OBVIOUS
  <2>1. /\ DOMAIN results \subseteq Runs /\ \A n \in DOMAIN results : results[n] \in Results
        /\ recent \subseteq [result : Results, run : Runs]
        /\ Cardinality(recent) <= MaxSlots
        /\ \A x, y \in recent : x.result = y.result => x = y
    BY DEF Inv, Committed, RecentOK, Rows, DeliveryOK, SlotsOK
  <2>2. incident \in [episode : 0 .. MaxRuns, status : {"NONE", "OPEN", "MAINTENANCE", "RESOLVED"},
                      seen : 0 .. MaxRuns, last : 0 .. MaxRuns, late : BOOLEAN]
    <3>1. incident \in Incidents /\ MaxRuns \in Nat
      BY RunsAreBounded DEF IntentsOK
    <3>2. incident.episode \in 0 .. MaxRuns /\ incident.seen \in 0 .. MaxRuns /\ incident.last \in 0 .. MaxRuns
      BY <3>1 DEF Incidents, DeliveryOK, EpisodesOK
    <3> QED BY <3>1, <3>2 DEF Incidents
  <2>3. DOMAIN intents \subseteq Keys
    BY KeysOfIntents DEF DeliveryOK
  <2>4. \A k \in DOMAIN intents : intents[k] \in IntentRows /\ Whole(intents[k])
    BY DEF IntentsOK, Typed, DeliveryOK, WorkersOK
  <2>5. worker \in [Workers -> WorkerRows] /\ troubles \in 0 .. MaxTroubles /\ caught \subseteq DOMAIN intents
    BY DEF DeliveryOK, WorkersOK
  <2>6. heard \in {0} \cup DOMAIN results /\ looked \in 0 .. MaxRuns
    BY <2>1, RunsAreBounded DEF Inv, IncidentOK, DecisiveRuns, Runs
  <2> QED BY <2>1, <2>2, <2>3, <2>4, <2>5, <2>6 DEF TypeOK, IntentRows, Whole, WorkerRows, Phases
<1> QED BY <1>1, Invariance, IntentsInvariance, DeliveryInvariance, PTL

================================================================================
