--------------------------- MODULE HealthScheduler ---------------------------
(***************************************************************************)
(* The durable scheduler of the AI health monitoring: worker processes     *)
(* that share one PostgreSQL database, lease due slots, run probes against *)
(* live AI sites, and record one result per slot.                          *)
(*                                                                         *)
(*   packages/server/health/src/scheduler.ts             the worker cycle  *)
(*   packages/server/db/src/health-scheduler-repository.ts  the tables     *)
(*   apps/telegram-operator/src/health-runtime.ts        the executors     *)
(*                                                                         *)
(* A repository method is one transaction, so one action.  Between two of  *)
(* them anything may happen: a lease ends, the other worker acts, the      *)
(* process dies.  A deadline does not cancel the probe it gives up on: the *)
(* probe goes on by itself and may still write its result.                 *)
(*                                                                         *)
(* Time is abstracted to what has passed: the lease of an attempt, or the  *)
(* backoff after it, is in past once its moment is over.  A cycle reads    *)
(* the clock once, at its start, for its claims; asOf is past as it was    *)
(* then.  Finalisations read the clock again.                              *)
(***************************************************************************)
EXTENDS Naturals, FiniteSets

CONSTANTS
  Workers,      \* scheduler processes
  Slots,        \* due slots: (schedule, revision, due time), one run at most each
  Deep,         \* slots of AUTHENTICATED_DEEP schedules; the rest are NO_SESSION
  MaxAttempts,  \* cadence.maxAttempts
  MaxClaims,    \* maxConcurrency: claims of one cycle
  MaxCrashes,   \* bound: processes that die
  None

ASSUME SchedulerConstants ==
  /\ Deep \subseteq Slots
  /\ MaxAttempts \in Nat \ {0}
  /\ MaxClaims \in Nat \ {0}
  /\ MaxCrashes \in Nat
  /\ None \notin 1 .. MaxAttempts

VARIABLES
  run,      \* health_scheduled_runs: state, attempt and failure of every slot
  result,   \* health_runs: the attempt that committed the slot's result
  link,     \* health_run_id: the result the finished run points to
  incident, \* slots whose result went through incident processing
  past,     \* leases and backoffs that are over
  worker,   \* process memory: each worker's cycle
  probes,   \* process memory: executions that have not ended
  sends,    \* history: prompts sent to the AI site, per slot
  crashes   \* bound: processes that died

store == <<run, result, link, incident>>
vars  == <<run, result, link, incident, past, worker, probes, sends, crashes>>

Attempts == 1 .. MaxAttempts

\* The states of a run; a slot without one is WAITING, or SKIPPED when its
\* schedule was disabled or revised first.
RunStates == {"WAITING", "SKIPPED", "PENDING", "CLAIMED", "RUNNING",
              "SUCCEEDED", "FAILED_RETRYABLE", "FAILED_TERMINAL", "TIMED_OUT"}

\* Failure codes, up to what the scheduler tells apart: UNCERTAIN stands for
\* SEND_UNCERTAIN and AUTHENTICATED_DEEP_PERSISTENCE_REJECTED, which a later
\* result may still overrule, FINAL for the other terminal ones.
Codes == {"NONE", "UNCERTAIN", "FINAL", "TRANSIENT"}

Runs == [state : RunStates, attempt : Attempts, code : Codes]

\* What time brings: a slot falls due, the lease or the backoff of an attempt
\* ends.
Moments == [slot : Slots, attempt : Attempts, what : {"DUE", "LEASE", "BACKOFF"}]

\* How an execution ends, and how far it can be before that.
Outcomes == {"SAVED", "UNCERTAIN", "FINAL", "TRANSIENT", "THROWN"}
Stages   == {"started", "sent", "saved"} \cup Outcomes
Probes   == [slot : Slots, attempt : Attempts, by : Workers, stage : Stages]

\* The memory of a worker, by where it is in its cycle.
Idle       == [pc |-> "idle"]
Listing    == [pc : {"reconciling", "materializing"},
               asOf : SUBSET Moments, todo : SUBSET Slots]
Claiming   == [pc : {"claiming"}, asOf : SUBSET Moments, claims : 0 .. MaxClaims]
Executing  == [pc : {"claimed", "executing"}, asOf : SUBSET Moments,
               claims : 1 .. MaxClaims, slot : Slots, attempt : Attempts]
ClaimedOut == [pc |-> "claimed out"]
Closing    == [pc : {"closing"}, todo : SUBSET Slots]

WorkerStates ==
  {Idle, ClaimedOut} \cup Listing \cup Claiming \cup Executing \cup Closing

TypeOK ==
  /\ run \in [Slots -> Runs]
  /\ result \in [Slots -> Attempts \cup {None}]
  /\ link \in [Slots -> Attempts \cup {None}]
  /\ incident \subseteq Slots
  /\ past \subseteq Moments
  /\ worker \in [Workers -> WorkerStates]
  /\ probes \subseteq Probes
  /\ sends \in [Slots -> Nat]
  /\ crashes \in 0 .. MaxCrashes

NewRun == [state |-> "WAITING", attempt |-> 1, code |-> "NONE"]

Init ==
  /\ run = [s \in Slots |-> NewRun]
  /\ result = [s \in Slots |-> None]
  /\ link = [s \in Slots |-> None]
  /\ incident = {}
  /\ past = {}
  /\ worker = [w \in Workers |-> Idle]
  /\ probes = {}
  /\ sends = [s \in Slots |-> 0]
  /\ crashes = 0

-----------------------------------------------------------------------------
(* The rows. *)

\* A moment that does not matter any more never will again: no run returns to an
\* attempt, and none to WAITING.  Only those that matter are remembered.
Matters(m) ==
  /\ m.attempt = run[m.slot].attempt
  /\ CASE m.what = "DUE"     -> run[m.slot].state = "WAITING"
       [] m.what = "LEASE"   -> run[m.slot].state \in {"CLAIMED", "RUNNING"}
       [] m.what = "BACKOFF" -> run[m.slot].state \in {"FAILED_RETRYABLE", "TIMED_OUT"}

Over(times, s, what) ==
  [slot |-> s, attempt |-> run[s].attempt, what |-> what] \in times

SetState(s, state, code) ==
  run' = [run EXCEPT ![s].state = state, ![s].code = code]

\* Mutant: a deep run that failed terminally stays as it is.
ReconcilableUnlessFailed(s) ==
  /\ result[s] # None /\ link[s] = None
  /\ run[s].state \in {"CLAIMED", "RUNNING", "TIMED_OUT", "FAILED_RETRYABLE"}

\* reconcilePersistedResults: the rows its query and its update accept.
Reconcilable(s) ==
  /\ result[s] # None /\ link[s] = None
  /\ \/ run[s].state \in {"CLAIMED", "RUNNING", "TIMED_OUT", "FAILED_RETRYABLE"}
     \/ /\ run[s].state = "FAILED_TERMINAL"
        /\ s \in Deep /\ run[s].code = "UNCERTAIN"

\* claimNext, first: what a lease over leaves behind.  A deep run that may have
\* sent is not run again; one out of attempts is closed.
SendUncertain(times, s) ==
  /\ run[s].state = "RUNNING" /\ s \in Deep
  /\ Over(times, s, "LEASE")
  /\ link[s] = None /\ result[s] = None

OutOfAttempts(times, s) ==
  /\ \/ run[s].state = "CLAIMED"
     \/ run[s].state = "RUNNING" /\ s \notin Deep
  /\ Over(times, s, "LEASE")
  /\ run[s].attempt >= MaxAttempts

\* Mutant: no row is ever swept.
SweptNever(times, s) == run[s]

Swept(times, s) ==
  IF SendUncertain(times, s)
  THEN [run[s] EXCEPT !.state = "FAILED_TERMINAL", !.code = "UNCERTAIN"]
  ELSE IF OutOfAttempts(times, s)
  THEN [run[s] EXCEPT !.state = "TIMED_OUT", !.code = "TRANSIENT"]
  ELSE run[s]

\* Mutant: one attempt too many.
ClaimableOneMore(times, s) ==
  \/ run[s].state = "PENDING"
  \/ /\ run[s].attempt <= MaxAttempts
     /\ \/ /\ run[s].state \in {"FAILED_RETRYABLE", "TIMED_OUT"}
           /\ Over(times, s, "BACKOFF")
        \/ /\ \/ run[s].state = "CLAIMED"
              \/ run[s].state = "RUNNING" /\ s \notin Deep
           /\ Over(times, s, "LEASE")

\* claimNext, then: the rows it may lease.
Claimable(times, s) ==
  \/ run[s].state = "PENDING"
  \/ /\ run[s].attempt < MaxAttempts
     /\ \/ /\ run[s].state \in {"FAILED_RETRYABLE", "TIMED_OUT"}
           /\ Over(times, s, "BACKOFF")
        \/ /\ \/ run[s].state = "CLAIMED"
              \/ run[s].state = "RUNNING" /\ s \notin Deep
           /\ Over(times, s, "LEASE")

\* Mutant: the lease is compared, the state is not.
HoldsLeaseInAnyState(s, attempt) ==
  /\ run[s].attempt = attempt
  /\ ~ Over(past, s, "LEASE")

\* Finalisations compare and set: running, this lease, and not yet over.
HoldsLease(s, attempt) ==
  /\ run[s].state = "RUNNING" /\ run[s].attempt = attempt
  /\ ~ Over(past, s, "LEASE")

\* Mutant: a failure of class TRANSIENT_ENVIRONMENT is retried, whatever its
\* code.
TerminalByClass(code) == code = "FINAL"

\* classifyFailure.
Terminal(code) == code \in {"FINAL", "UNCERTAIN"}

\* The failure an execution's end is recorded as.
FailureOf(s, outcome) ==
  IF outcome # "THROWN" THEN outcome
  ELSE IF s \in Deep THEN "UNCERTAIN" ELSE "TRANSIENT"

FinishFailure(s, code) ==
  SetState(s, IF run[s].attempt >= MaxAttempts \/ Terminal(code)
              THEN "FAILED_TERMINAL" ELSE "FAILED_RETRYABLE", code)

-----------------------------------------------------------------------------
(* The cycle of a worker: runDurableHealthSchedulerCycle. *)

Become(w, state) == worker' = [worker EXCEPT ![w] = state]

BeginCycle(w) ==
  /\ worker[w] = Idle
  /\ Become(w, [pc |-> "reconciling", asOf |-> {m \in past : Matters(m)},
                todo |-> {s \in Slots : Reconcilable(s)}])
  /\ UNCHANGED <<store, past, probes, sends, crashes>>

\* reconcilePersistedResults, per row it read: the incident first, ...
ReconcileIncident(w, s) ==
  /\ worker[w].pc \in {"reconciling", "closing"}
  /\ s \in worker[w].todo \ incident
  /\ incident' = incident \cup {s}
  /\ UNCHANGED <<run, result, link, past, worker, probes, sends, crashes>>

\* Mutant: the incident is left for later.
IncidentDoneLater(s) == TRUE

\* Closing waits for the incident of the row.
IncidentDone(s) == s \in incident

\* ... then the row, if it is still open.
ReconcileClose(w, s) ==
  /\ worker[w].pc \in {"reconciling", "closing"}
  /\ s \in worker[w].todo /\ IncidentDone(s)
  /\ IF Reconcilable(s)
     THEN /\ run' = [run EXCEPT ![s].state = "SUCCEEDED"]
          /\ link' = [link EXCEPT ![s] = result[s]]
     ELSE UNCHANGED <<run, link>>
  /\ Become(w, [worker[w] EXCEPT !.todo = @ \ {s}])
  /\ UNCHANGED <<result, incident, past, probes, sends, crashes>>

\* listDueSchedules.
ListDue(w) ==
  /\ worker[w].pc = "reconciling" /\ worker[w].todo = {}
  /\ Become(w, [pc |-> "materializing", asOf |-> worker[w].asOf,
                todo |-> {s \in Slots : /\ run[s].state = "WAITING"
                                        /\ Over(worker[w].asOf, s, "DUE")}])
  /\ UNCHANGED <<store, past, probes, sends, crashes>>

\* materializeDueSlot: the schedule row is locked and read again.
MaterializeDueSlot(w, s) ==
  /\ worker[w].pc = "materializing" /\ s \in worker[w].todo
  /\ run' = IF run[s].state = "WAITING"
            THEN [run EXCEPT ![s].state = "PENDING"] ELSE run
  /\ Become(w, [worker[w] EXCEPT !.todo = @ \ {s}])
  /\ UNCHANGED <<result, link, incident, past, probes, sends, crashes>>

BeginClaims(w) ==
  /\ worker[w].pc = "materializing" /\ worker[w].todo = {}
  /\ Become(w, [pc |-> "claiming", asOf |-> worker[w].asOf, claims |-> 0])
  /\ UNCHANGED <<store, past, probes, sends, crashes>>

\* claimNext, as of the start of the cycle.
ClaimNext(w, s) ==
  LET times == worker[w].asOf
      swept == [t \in Slots |-> Swept(times, t)]
  IN  /\ worker[w].pc = "claiming" /\ worker[w].claims < MaxClaims
      /\ Claimable(times, s)
      /\ run' = [swept EXCEPT
           ![s].state = "CLAIMED",
           ![s].attempt = IF run[s].state = "PENDING" THEN @ ELSE @ + 1]
      /\ Become(w, [pc |-> "claimed", asOf |-> times, slot |-> s,
                    claims |-> worker[w].claims + 1,
                    attempt |-> run'[s].attempt])
      /\ UNCHANGED <<result, link, incident, past, probes, sends, crashes>>

\* The claims end: nothing to claim, or maxConcurrency claims made.
EndClaims(w) ==
  LET times == worker[w].asOf
      more  == worker[w].claims < MaxClaims
  IN  /\ worker[w].pc = "claiming"
      /\ more => \A s \in Slots : ~ Claimable(times, s)
      /\ run' = IF more THEN [s \in Slots |-> Swept(times, s)] ELSE run
      /\ Become(w, ClaimedOut)
      /\ UNCHANGED <<result, link, incident, past, probes, sends, crashes>>

\* The last reconcilePersistedResults of the cycle.
BeginClosing(w) ==
  /\ worker[w].pc = "claimed out"
  /\ Become(w, [pc |-> "closing", todo |-> {s \in Slots : Reconcilable(s)}])
  /\ UNCHANGED <<store, past, probes, sends, crashes>>

EndCycle(w) ==
  /\ worker[w].pc = "closing" /\ worker[w].todo = {}
  /\ Become(w, Idle)
  /\ UNCHANGED <<store, past, probes, sends, crashes>>

\* startRun and the call of the executor.  The lease was granted as of asOf,
\* so as of asOf it is not over.
StartRun(w) ==
  LET s == worker[w].slot
  IN  /\ worker[w].pc = "claimed"
      /\ run[s].state = "CLAIMED" /\ run[s].attempt = worker[w].attempt
      /\ run' = [run EXCEPT ![s].state = "RUNNING"]
      /\ probes' = probes \cup {[slot |-> s, attempt |-> worker[w].attempt,
                                 by |-> w, stage |-> "started"]}
      /\ Become(w, [worker[w] EXCEPT !.pc = "executing"])
      /\ UNCHANGED <<result, link, incident, past, sends, crashes>>

\* startRun of a run another worker took or closed: the cycle throws.
StartStale(w) ==
  /\ worker[w].pc = "claimed"
  /\ ~ (/\ run[worker[w].slot].state = "CLAIMED"
        /\ run[worker[w].slot].attempt = worker[w].attempt)
  /\ Become(w, Idle)
  /\ UNCHANGED <<store, past, probes, sends, crashes>>

Awaits(w, p) ==
  /\ worker[w].pc = "executing" /\ p.by = w
  /\ worker[w].slot = p.slot /\ worker[w].attempt = p.attempt

NextClaim(w) == Become(w, [pc |-> "claiming", asOf |-> worker[w].asOf,
                           claims |-> worker[w].claims])

\* The execution ended in time: finishSuccess or finishFailure; a stale owner
\* throws and the cycle is over.
Finish(w, p) ==
  LET s == p.slot
  IN  /\ Awaits(w, p) /\ p.stage \in Outcomes
      /\ probes' = probes \ {p}
      /\ \/ /\ HoldsLease(s, p.attempt)
            /\ IF p.stage = "SAVED"
               THEN /\ run' = [run EXCEPT ![s].state = "SUCCEEDED"]
                    /\ link' = [link EXCEPT ![s] = p.attempt]
               ELSE /\ FinishFailure(s, FailureOf(s, p.stage))
                    /\ UNCHANGED link
            /\ NextClaim(w)
         \/ /\ ~ HoldsLease(s, p.attempt)
            /\ Become(w, Idle)
            /\ UNCHANGED <<run, link>>
      /\ UNCHANGED <<result, incident, past, sends, crashes>>

\* The deadline came first.  It is counted from the start of the cycle, so it
\* may come at once; the probe goes on unobserved.
Deadline(w, p) ==
  LET s == p.slot
  IN  /\ Awaits(w, p) /\ p.stage \notin Outcomes
      /\ \/ /\ HoldsLease(s, p.attempt)
            /\ IF s \in Deep THEN FinishFailure(s, "UNCERTAIN")
                             ELSE SetState(s, "TIMED_OUT", "TRANSIENT")
            /\ NextClaim(w)
         \/ /\ ~ HoldsLease(s, p.attempt)
            /\ Become(w, Idle)
            /\ UNCHANGED run
      /\ UNCHANGED <<result, link, incident, past, probes, sends, crashes>>

-----------------------------------------------------------------------------
(* An execution: executeScheduledNoSessionHealthRun, executeOneDeepRun. *)

Advance(p, stage) == probes' = (probes \ {p}) \cup {[p EXCEPT !.stage = stage]}

\* The end of an execution nobody awaits any more goes unheard.
Ends(p, outcome) ==
  IF Awaits(p.by, p) THEN Advance(p, outcome) ELSE probes' = probes \ {p}

\* The prompt of a deep probe is submitted on the AI site.
SendPrompt(p) ==
  /\ p.slot \in Deep /\ p.stage = "started"
  /\ Advance(p, "sent")
  /\ sends' = [sends EXCEPT ![p.slot] = @ + 1]
  /\ UNCHANGED <<store, past, worker, crashes>>

\* There is something to persist: an observation, or the end of a deep probe,
\* whether it came to send its prompt or met a login page.
Observed(p) == p.stage \in {"started", "sent"}

\* One result per scheduled run.  A NO_SESSION result also needs the run to be
\* RUNNING, under whatever lease.
MayPersist(p) ==
  /\ result[p.slot] = None
  /\ p.slot \in Deep \/ run[p.slot].state = "RUNNING"

\* persistCompletedHealthRun, persistCompletedNoSessionHealthRun.
PersistResult(p) ==
  /\ Observed(p) /\ MayPersist(p)
  /\ result' = [result EXCEPT ![p.slot] = p.attempt]
  /\ Advance(p, "saved")
  /\ UNCHANGED <<run, link, incident, past, worker, sends, crashes>>

\* The result is refused: AUTHENTICATED_DEEP_PERSISTENCE_REJECTED, or a conflict
\* that counts as TERMINAL_CONFIGURATION.
PersistRejected(p) ==
  /\ Observed(p) /\ ~ MayPersist(p)
  /\ Ends(p, IF p.slot \in Deep THEN "UNCERTAIN" ELSE "FINAL")
  /\ UNCHANGED <<store, past, worker, sends, crashes>>

\* processCompletedHealthRun.
ProcessIncident(p) ==
  /\ p.stage = "saved"
  /\ incident' = incident \cup {p.slot}
  /\ Ends(p, "SAVED")
  /\ UNCHANGED <<run, result, link, past, worker, sends, crashes>>

\* What else an execution may end with, by how far it came.
Failures(p) ==
  IF p.slot \in Deep
  THEN CASE p.stage = "started" -> {"FINAL", "TRANSIENT", "UNCERTAIN", "THROWN"}
         [] p.stage = "sent"    -> {"FINAL", "UNCERTAIN", "THROWN"}
         [] p.stage = "saved"   -> {"UNCERTAIN"}
         [] OTHER               -> {}
  ELSE CASE p.stage = "started" -> {"FINAL", "THROWN"}
         [] p.stage = "saved"   -> {"THROWN"}
         [] OTHER               -> {}

ExecutionFails(p, outcome) ==
  /\ outcome \in Failures(p)
  /\ Ends(p, outcome)
  /\ UNCHANGED <<store, past, worker, sends, crashes>>

-----------------------------------------------------------------------------
(* The environment. *)

\* Time passes.
Pass(m) ==
  /\ m \notin past /\ Matters(m)
  /\ past' = {n \in past : Matters(n)} \cup {m}
  /\ UNCHANGED <<store, worker, probes, sends, crashes>>

\* updateSchedule: the schedule is disabled, or goes on as a new revision.
UpdateSchedule(s) ==
  /\ run[s].state = "WAITING"
  /\ run' = [run EXCEPT ![s].state = "SKIPPED"]
  /\ UNCHANGED <<result, link, incident, past, worker, probes, sends, crashes>>

\* A process dies with its cycle and its executions.
Crash(w) ==
  /\ crashes < MaxCrashes
  /\ worker[w] # Idle \/ \E p \in probes : p.by = w
  /\ crashes' = crashes + 1
  /\ Become(w, Idle)
  /\ probes' = {p \in probes : p.by # w}
  /\ UNCHANGED <<store, past, sends>>

-----------------------------------------------------------------------------
Cycle(w) ==
  \/ BeginCycle(w) \/ ListDue(w) \/ BeginClaims(w) \/ EndClaims(w)
  \/ BeginClosing(w) \/ EndCycle(w)
  \/ StartRun(w) \/ StartStale(w)
  \/ \E s \in Slots : \/ ReconcileIncident(w, s) \/ ReconcileClose(w, s)
                      \/ MaterializeDueSlot(w, s) \/ ClaimNext(w, s)
  \/ \E p \in probes : Finish(w, p) \/ Deadline(w, p)

Execution ==
  \E p \in probes :
    \/ SendPrompt(p) \/ PersistResult(p) \/ PersistRejected(p) \/ ProcessIncident(p)
    \/ \E outcome \in Outcomes : ExecutionFails(p, outcome)

Environment ==
  \/ \E m \in Moments : Pass(m)
  \/ \E s \in Slots : UpdateSchedule(s)
  \/ \E w \in Workers : Crash(w)

Next == (\E w \in Workers : Cycle(w)) \/ Execution \/ Environment

Spec == Init /\ [][Next]_vars

\* A worker process that runs is woken by a timer and every step of its cycle is
\* awaited only on the database or on a deadline; time passes.  Nothing is
\* assumed of the executions.
FairSpec ==
  /\ Spec
  /\ \A w \in Workers : WF_vars(Cycle(w))
  /\ \A m \in Moments : WF_vars(Pass(m))

-----------------------------------------------------------------------------
(* What the scheduler is for. *)

\* At most one prompt is sent to an AI site per deep run: not again after a
\* lost lease, a deadline, a crash or a failed write, whichever worker acts.
OneSend == \A s \in Slots : sends[s] <= 1

\* A run is SUCCEEDED exactly when it points to its one committed result, and
\* then that result went through incident processing, whoever closed the run.
SuccessIsComplete ==
  \A s \in Slots :
    /\ run[s].state = "SUCCEEDED" <=> link[s] # None
    /\ link[s] # None => link[s] = result[s] /\ s \in incident

\* A success is final, a terminal failure changes only into the success of a
\* result that was committed after all, and no owner of an earlier attempt
\* moves a run: attempts never go back.
SettledStays ==
  [][\A s \in Slots :
       /\ run'[s].attempt >= run[s].attempt
       /\ run[s].state = "SUCCEEDED" => run'[s] = run[s] /\ link'[s] = link[s]
       /\ run[s].state = "FAILED_TERMINAL" =>
            \/ run'[s] = run[s]
            \/ run'[s].state = "SUCCEEDED" /\ result[s] # None /\ s \in Deep]_vars

\* A run that was materialized is settled in the end: it succeeds, fails for
\* good, or times out in its last attempt, although probes may hang for ever.
Settled(s) ==
  \/ run[s].state \in {"SUCCEEDED", "FAILED_TERMINAL"}
  \/ run[s].state = "TIMED_OUT" /\ run[s].attempt = MaxAttempts
RunsSettle == \A s \in Slots : run[s].state = "PENDING" ~> Settled(s)

\* A deep result that was committed is linked in the end, even after the run was
\* given up as SEND_UNCERTAIN.
DeepResultsLinked == \A s \in Deep : result[s] # None ~> link[s] = result[s]

-----------------------------------------------------------------------------
(* A statement of the repository's documents that the code does not keep. *)

\* "A recovery reconciliation finds a committed linked result ...": a committed
\* result is linked, or its run is one the reconciliation still closes.
CommittedResultRecovered ==
  \A s \in Slots : result[s] # None => link[s] = result[s] \/ Reconcilable(s)
=============================================================================
