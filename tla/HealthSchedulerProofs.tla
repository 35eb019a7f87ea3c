------------------------ MODULE HealthSchedulerProofs ------------------------
(***************************************************************************)
(* What the health scheduler keeps, for any number of workers, slots,      *)
(* attempts, claims and crashes: its types, that a deep run sends at most  *)
(* one prompt, that a success is complete, and that settled runs stay so.  *)
(***************************************************************************)
EXTENDS HealthScheduler, TLAPS

\* A success and its link belong together, and the link to a processed result.
Linked ==
  \A s \in Slots :
    /\ run[s].state = "SUCCEEDED" <=> link[s] # None
    /\ link[s] # None => link[s] = result[s] /\ s \in incident

\* What an execution says it saved is there.
Persisted ==
  \A p \in probes :
    /\ p.stage \in {"saved", "SAVED"} => result[p.slot] = p.attempt
    /\ p.stage = "SAVED" => p.slot \in incident

\* The states of a deep run that may have an execution, or had one that sent.
Sending == {"RUNNING", "FAILED_TERMINAL", "SUCCEEDED"}

\* A deep run in another state has neither sent nor an execution; it never has
\* two executions, and one that has not sent, or may be repeated, is the only
\* that could have.
Unsent ==
  \A s \in Deep :
    /\ sends[s] <= 1
    /\ run[s].state \notin Sending =>
         sends[s] = 0 /\ \A p \in probes : p.slot # s
    /\ \A p \in probes :
         p.slot = s =>
           /\ p.stage \in {"started", "TRANSIENT"} => sends[s] = 0
           /\ \A q \in probes : q.slot = s => q = p

\* Only deep executions send.
OthersSilent == \A s \in Slots \ Deep : sends[s] = 0

IInv == TypeOK /\ Linked /\ Persisted /\ Unsent /\ OthersSilent

-----------------------------------------------------------------------------
(* Types. *)

\* A worker's memory, by its program counter.
LEMMA WorkerFields ==
  ASSUME NEW state \in WorkerStates
  PROVE  /\ state.pc \in {"reconciling", "materializing"} => state \in Listing
         /\ state.pc = "claiming" => state \in Claiming
         /\ state.pc \in {"claimed", "executing"} => state \in Executing
         /\ state.pc = "closing" => state \in Closing
<1>1. state \in Listing => state.pc \in {"reconciling", "materializing"}
  BY DEF Listing
<1>2. state \in Claiming => state.pc = "claiming"
  BY DEF Claiming
<1>3. state \in Executing => state.pc \in {"claimed", "executing"}
  BY DEF Executing
<1>4. state \in Closing => state.pc = "closing"
  BY DEF Closing
<1>5. Idle.pc = "idle" /\ ClaimedOut.pc = "claimed out"
  BY DEF Idle, ClaimedOut
<1> QED BY <1>1, <1>2, <1>3, <1>4, <1>5 DEF WorkerStates

\* A worker's next memory is one of its states.
LEMMA BecomeType ==
  ASSUME TypeOK, NEW w \in Workers, NEW state \in WorkerStates, Become(w, state)
  PROVE  worker' \in [Workers -> WorkerStates]
BY DEF TypeOK, Become

\* A worker with one row less to do is in a state of the same kind.
LEMMA TodoType ==
  ASSUME NEW state \in WorkerStates, NEW s,
         state.pc \in {"reconciling", "materializing", "closing"}
  PROVE  [state EXCEPT !.todo = @ \ {s}] \in WorkerStates
<1> DEFINE next == [state EXCEPT !.todo = @ \ {s}]
<1>1. state \in Listing \cup Closing
  BY WorkerFields
<1>2. state \in Listing => next \in Listing
  BY DEF Listing
<1>3. state \in Closing => next \in Closing
  BY DEF Closing
<1> QED BY <1>1, <1>2, <1>3 DEF WorkerStates

\* A row of a run.
LEMMA RowType ==
  ASSUME TypeOK, NEW s \in Slots
  PROVE  /\ run[s] \in Runs
         /\ run[s].state \in RunStates /\ run[s].attempt \in Attempts
         /\ run[s].attempt \in Nat
BY DEF TypeOK, Runs, Attempts

\* A new state and code leave a row a row.
LEMMA SetStateType ==
  ASSUME TypeOK, NEW s \in Slots, NEW state \in RunStates, NEW code \in Codes,
         SetState(s, state, code)
  PROVE  run' \in [Slots -> Runs]
BY DEF TypeOK, SetState, Runs

\* So does a new state.
LEMMA NewStateType ==
  ASSUME NEW rows \in [Slots -> Runs], NEW s \in Slots, NEW state \in RunStates
  PROVE  [rows EXCEPT ![s].state = state] \in [Slots -> Runs]
BY DEF Runs

\* What the sweep leaves is a row of the same attempt.
LEMMA SweptType ==
  ASSUME TypeOK, NEW times, NEW s \in Slots
  PROVE  Swept(times, s) \in Runs /\ Swept(times, s).attempt = run[s].attempt
BY RowType DEF Swept, Runs, RunStates, Codes

\* An execution that advances is an execution of the same run.
LEMMA AdvanceType ==
  ASSUME TypeOK, NEW p \in probes, NEW stage \in Stages, Advance(p, stage)
  PROVE  probes' \subseteq Probes
<1>1. p \in Probes
  BY DEF TypeOK
<1>2. [p EXCEPT !.stage = stage] \in Probes
  BY <1>1 DEF Probes
<1> QED BY <1>2 DEF TypeOK, Advance

\* So is one that ends, heard or unheard.
LEMMA EndsType ==
  ASSUME TypeOK, NEW p \in probes, NEW outcome \in Outcomes, Ends(p, outcome)
  PROVE  probes' \subseteq Probes
<1>1. outcome \in Stages
  BY DEF Stages
<1> QED BY <1>1, AdvanceType DEF TypeOK, Ends

\* The types survive the steps of a worker that list rows and write none.
LEMMA ReadingType ==
  ASSUME TypeOK, NEW w \in Workers,
         BeginCycle(w) \/ ListDue(w) \/ BeginClaims(w) \/ BeginClosing(w)
           \/ EndCycle(w) \/ StartStale(w)
  PROVE  TypeOK'
<1>1. \E state \in WorkerStates :
        Become(w, state) /\ UNCHANGED <<store, past, probes, sends, crashes>>
  <2>1. CASE BeginCycle(w)
    <3>1. [pc |-> "reconciling", asOf |-> {m \in past : Matters(m)},
           todo |-> {s \in Slots : Reconcilable(s)}] \in Listing
      BY DEF Listing, TypeOK
    <3> QED BY <2>1, <3>1 DEF BeginCycle, WorkerStates
  <2>2. CASE ListDue(w)
    <3>1. worker[w] \in Listing
      BY <2>2, WorkerFields DEF ListDue, TypeOK
    <3>2. [pc |-> "materializing", asOf |-> worker[w].asOf,
           todo |-> {s \in Slots : /\ run[s].state = "WAITING"
                                   /\ Over(worker[w].asOf, s, "DUE")}] \in Listing
      BY <3>1 DEF Listing
    <3> QED BY <2>2, <3>2 DEF ListDue, WorkerStates
  <2>3. CASE BeginClaims(w)
    <3>1. worker[w] \in Listing
      BY <2>3, WorkerFields DEF BeginClaims, TypeOK
    <3>2. [pc |-> "claiming", asOf |-> worker[w].asOf, claims |-> 0] \in Claiming
      BY <3>1, SchedulerConstants DEF Listing, Claiming
    <3> QED BY <2>3, <3>2 DEF BeginClaims, WorkerStates
  <2>4. CASE BeginClosing(w)
    <3>1. [pc |-> "closing", todo |-> {s \in Slots : Reconcilable(s)}] \in Closing
      BY DEF Closing
    <3> QED BY <2>4, <3>1 DEF BeginClosing, WorkerStates
  <2>5. CASE EndCycle(w) \/ StartStale(w)
    BY <2>5 DEF EndCycle, StartStale, WorkerStates
  <2> QED BY <2>1, <2>2, <2>3, <2>4, <2>5
<1> QED BY <1>1, BecomeType DEF TypeOK, store

\* They survive a reconciliation.
LEMMA ReconcileType ==
  ASSUME TypeOK, NEW w \in Workers, NEW s \in Slots,
         ReconcileIncident(w, s) \/ ReconcileClose(w, s)
  PROVE  TypeOK'
<1>1. CASE ReconcileIncident(w, s)
  BY <1>1 DEF ReconcileIncident, TypeOK
<1>2. CASE ReconcileClose(w, s)
  <2>1. run' \in [Slots -> Runs]
    BY <1>2 DEF ReconcileClose, TypeOK, Runs, RunStates
  <2>2. link' \in [Slots -> Attempts \cup {None}]
    BY <1>2 DEF ReconcileClose, TypeOK
  <2>3. [worker[w] EXCEPT !.todo = @ \ {s}] \in WorkerStates
    BY <1>2, TodoType DEF ReconcileClose, TypeOK
  <2>4. worker' \in [Workers -> WorkerStates]
    BY <1>2, <2>3, BecomeType DEF ReconcileClose
  <2> QED BY <1>2, <2>1, <2>2, <2>4 DEF ReconcileClose, TypeOK
<1> QED BY <1>1, <1>2

\* They survive a materialization.
LEMMA MaterializeType ==
  ASSUME TypeOK, NEW w \in Workers, NEW s \in Slots, MaterializeDueSlot(w, s)
  PROVE  TypeOK'
<1>1. run' \in [Slots -> Runs]
  <2>1. run \in [Slots -> Runs]
    BY DEF TypeOK
  <2>2. "PENDING" \in RunStates
    BY DEF RunStates
  <2>3. [run EXCEPT ![s].state = "PENDING"] \in [Slots -> Runs]
    BY <2>1, <2>2, NewStateType
  <2> QED BY <2>1, <2>3 DEF MaterializeDueSlot
<1>2. [worker[w] EXCEPT !.todo = @ \ {s}] \in WorkerStates
  <2>1. worker[w] \in WorkerStates
    BY DEF TypeOK
  <2>2. worker[w].pc = "materializing"
    BY DEF MaterializeDueSlot
  <2> QED BY <2>1, <2>2, TodoType
<1>3. worker' \in [Workers -> WorkerStates]
  BY <1>2, BecomeType DEF MaterializeDueSlot
<1> QED BY <1>1, <1>3 DEF MaterializeDueSlot, TypeOK

\* A claim is of an attempt there is.
LEMMA ClaimType ==
  ASSUME TypeOK, NEW w \in Workers, NEW s \in Slots, ClaimNext(w, s)
  PROVE  TypeOK' /\ run'[s].state = "CLAIMED" /\ run'[s].attempt >= run[s].attempt
<1> DEFINE times == worker[w].asOf
           swept == [t \in Slots |-> Swept(times, t)]
           attempt == IF run[s].state = "PENDING" THEN swept[s].attempt
                                                  ELSE swept[s].attempt + 1
<1>1. worker[w] \in Claiming /\ worker[w].claims < MaxClaims
  BY WorkerFields DEF ClaimNext, TypeOK
<1>2. swept \in [Slots -> Runs] /\ swept[s].attempt = run[s].attempt
  BY SweptType
<1>3. attempt \in Attempts /\ attempt >= run[s].attempt
  BY <1>2, RowType, SchedulerConstants DEF ClaimNext, Claimable, Attempts
<1>4. run' = [swept EXCEPT ![s].state = "CLAIMED", ![s].attempt = attempt]
  BY <1>2 DEF ClaimNext
<1>5. run' \in [Slots -> Runs] /\ run'[s].state = "CLAIMED" /\ run'[s].attempt = attempt
  <2> HIDE DEF swept, attempt
  <2>1. DOMAIN run' = Slots /\ \A t \in Slots \ {s} : run'[t] = swept[t]
    BY <1>2, <1>4
  <2>2. run'[s] = [swept[s] EXCEPT !.state = "CLAIMED", !.attempt = attempt]
    BY <1>2, <1>4
  <2>3. swept[s] \in Runs
    BY <1>2
  <2>4. run'[s] \in Runs /\ run'[s].state = "CLAIMED" /\ run'[s].attempt = attempt
    BY <1>3, <2>2, <2>3 DEF Runs, RunStates
  <2> QED BY <1>2, <1>4, <2>1, <2>4
<1>6. [pc |-> "claimed", asOf |-> times, slot |-> s,
       claims |-> worker[w].claims + 1, attempt |-> run'[s].attempt] \in Executing
  BY <1>1, <1>3, <1>5, SchedulerConstants DEF Claiming, Executing
<1>7. worker' \in [Workers -> WorkerStates]
  BY <1>6, BecomeType DEF ClaimNext, WorkerStates
<1> QED BY <1>3, <1>5, <1>7 DEF ClaimNext, TypeOK

\* They survive the end of the claims.
LEMMA EndClaimsType ==
  ASSUME TypeOK, NEW w \in Workers, EndClaims(w)
  PROVE  TypeOK'
<1>1. run' \in [Slots -> Runs]
  BY SweptType DEF EndClaims, TypeOK
<1>2. worker' \in [Workers -> WorkerStates]
  BY BecomeType DEF EndClaims, WorkerStates
<1> QED BY <1>1, <1>2 DEF EndClaims, TypeOK

\* They survive the start of an execution.
LEMMA StartType ==
  ASSUME TypeOK, NEW w \in Workers, StartRun(w)
  PROVE  TypeOK' /\ worker[w].slot \in Slots
<1> DEFINE s == worker[w].slot
           p == [slot |-> s, attempt |-> worker[w].attempt, by |-> w, stage |-> "started"]
<1>1. worker[w] \in Executing
  BY WorkerFields DEF StartRun, TypeOK
<1>2. run' \in [Slots -> Runs]
  BY <1>1 DEF StartRun, TypeOK, Runs, RunStates, Executing
<1>3. p \in Probes
  BY <1>1 DEF Executing, Probes, Stages
<1>4. [worker[w] EXCEPT !.pc = "executing"] \in Executing
  BY <1>1 DEF Executing
<1>5. worker' \in [Workers -> WorkerStates]
  BY <1>4, BecomeType DEF StartRun, WorkerStates
<1> QED BY <1>1, <1>2, <1>3, <1>5 DEF StartRun, TypeOK, Executing

\* The next claim of a worker.
LEMMA NextClaimType ==
  ASSUME TypeOK, NEW w \in Workers, worker[w].pc = "executing", NextClaim(w)
  PROVE  worker' \in [Workers -> WorkerStates]
<1>1. worker[w] \in Executing
  BY WorkerFields DEF TypeOK
<1>2. [pc |-> "claiming", asOf |-> worker[w].asOf, claims |-> worker[w].claims] \in Claiming
  BY <1>1, SchedulerConstants DEF Executing, Claiming
<1> QED BY <1>2, BecomeType DEF NextClaim, WorkerStates

\* What an execution is recorded as.
LEMMA FailureOfType ==
  ASSUME NEW s, NEW outcome \in Outcomes, outcome # "SAVED"
  PROVE  FailureOf(s, outcome) \in Codes
BY DEF FailureOf, Outcomes, Codes

\* A failure is a new state and code.
LEMMA FinishFailureType ==
  ASSUME TypeOK, NEW s \in Slots, NEW code \in Codes, FinishFailure(s, code)
  PROVE  run' \in [Slots -> Runs]
BY SetStateType DEF FinishFailure, RunStates

\* They survive the end of a worker's wait.
LEMMA FinishType ==
  ASSUME TypeOK, NEW w \in Workers, NEW p \in probes, Finish(w, p) \/ Deadline(w, p)
  PROVE  TypeOK'
<1>1. p \in Probes /\ p.slot \in Slots /\ p.attempt \in Attempts
  BY DEF TypeOK, Probes
<1>2. worker' \in [Workers -> WorkerStates]
  BY NextClaimType, BecomeType DEF Finish, Deadline, Awaits, WorkerStates
<1>3. run' \in [Slots -> Runs]
  <2>1. CASE Finish(w, p) /\ HoldsLease(p.slot, p.attempt) /\ p.stage = "SAVED"
    BY <2>1, <1>1 DEF Finish, HoldsLease, TypeOK, Runs, RunStates
  <2>2. CASE Finish(w, p) /\ HoldsLease(p.slot, p.attempt) /\ p.stage # "SAVED"
    <3>1. FinishFailure(p.slot, FailureOf(p.slot, p.stage)) /\ p.stage \in Outcomes
      BY <2>2 DEF Finish
    <3> QED BY <3>1, <2>2, <1>1, FailureOfType, FinishFailureType
  <2>3. CASE Finish(w, p) /\ ~ HoldsLease(p.slot, p.attempt)
    BY <2>3 DEF Finish, TypeOK
  <2>4. CASE Deadline(w, p) /\ HoldsLease(p.slot, p.attempt) /\ p.slot \in Deep
    BY <2>4, <1>1, FinishFailureType DEF Deadline, Codes
  <2>5. CASE Deadline(w, p) /\ HoldsLease(p.slot, p.attempt) /\ p.slot \notin Deep
    BY <2>5, <1>1, SetStateType DEF Deadline, Codes, RunStates
  <2>6. CASE Deadline(w, p) /\ ~ HoldsLease(p.slot, p.attempt)
    BY <2>6 DEF Deadline, TypeOK
  <2> QED BY <2>1, <2>2, <2>3, <2>4, <2>5, <2>6
<1>4. link' \in [Slots -> Attempts \cup {None}]
  BY <1>1 DEF Finish, Deadline, TypeOK
<1>5. /\ probes' \subseteq Probes
      /\ UNCHANGED <<result, incident, past, sends, crashes>>
  BY DEF Finish, Deadline, TypeOK
<1> QED BY <1>2, <1>3, <1>4, <1>5 DEF TypeOK

\* They survive the steps of an execution.
LEMMA ExecutionType ==
  ASSUME TypeOK, NEW p \in probes,
         \/ SendPrompt(p) \/ PersistResult(p) \/ PersistRejected(p) \/ ProcessIncident(p)
         \/ \E outcome \in Outcomes : ExecutionFails(p, outcome)
  PROVE  TypeOK'
<1>1. p \in Probes /\ p.slot \in Slots /\ p.attempt \in Attempts
  BY DEF TypeOK, Probes
<1>2. CASE SendPrompt(p)
  <2>1. probes' \subseteq Probes
    BY <1>2, AdvanceType DEF SendPrompt, Stages
  <2>2. sends' \in [Slots -> Nat]
    BY <1>1, <1>2 DEF SendPrompt, TypeOK
  <2> QED BY <1>2, <2>1, <2>2 DEF SendPrompt, TypeOK, store
<1>3. CASE PersistResult(p)
  <2>1. probes' \subseteq Probes
    BY <1>3, AdvanceType DEF PersistResult, Stages
  <2>2. result' \in [Slots -> Attempts \cup {None}]
    BY <1>1, <1>3 DEF PersistResult, TypeOK
  <2> QED BY <1>3, <2>1, <2>2 DEF PersistResult, TypeOK
<1>4. CASE PersistRejected(p)
  <2>1. probes' \subseteq Probes
    BY <1>4, EndsType DEF PersistRejected, Outcomes
  <2> QED BY <1>4, <2>1 DEF PersistRejected, TypeOK, store
<1>5. CASE ProcessIncident(p)
  <2>1. probes' \subseteq Probes
    BY <1>5, EndsType DEF ProcessIncident, Outcomes
  <2>2. incident' \subseteq Slots
    BY <1>1, <1>5 DEF ProcessIncident, TypeOK
  <2> QED BY <1>5, <2>1, <2>2 DEF ProcessIncident, TypeOK
<1>6. ASSUME NEW outcome \in Outcomes, ExecutionFails(p, outcome)
      PROVE  TypeOK'
  <2>1. probes' \subseteq Probes
    BY <1>6, EndsType DEF ExecutionFails
  <2> QED BY <1>6, <2>1 DEF ExecutionFails, TypeOK, store
<1> QED BY <1>2, <1>3, <1>4, <1>5, <1>6

\* They survive time, a new revision of a schedule and the end of a process.
LEMMA EnvironmentType ==
  ASSUME TypeOK, Environment
  PROVE  TypeOK'
<1>1. ASSUME NEW m \in Moments, Pass(m)
      PROVE  TypeOK'
  BY <1>1 DEF Pass, TypeOK, store
<1>2. ASSUME NEW s \in Slots, UpdateSchedule(s)
      PROVE  TypeOK'
  <2>1. run' \in [Slots -> Runs]
    BY <1>2 DEF UpdateSchedule, TypeOK, Runs, RunStates
  <2> QED BY <1>2, <2>1 DEF UpdateSchedule, TypeOK
<1>3. ASSUME NEW w \in Workers, Crash(w)
      PROVE  TypeOK'
  <2>1. worker' \in [Workers -> WorkerStates]
    BY <1>3, BecomeType DEF Crash, WorkerStates
  <2>2. crashes' \in 0 .. MaxCrashes
    BY <1>3, SchedulerConstants DEF Crash, TypeOK
  <2> QED BY <1>3, <2>1, <2>2 DEF Crash, TypeOK, store
<1> QED BY <1>1, <1>2, <1>3 DEF Environment

\* Every step keeps the types.
LEMMA TypeStep ==
  ASSUME TypeOK, [Next]_vars
  PROVE  TypeOK'
<1>1. ASSUME NEW w \in Workers, Cycle(w)
      PROVE  TypeOK'
  BY <1>1, ReadingType, ReconcileType, MaterializeType, ClaimType, EndClaimsType,
     StartType, FinishType
     DEF Cycle
<1>2. CASE Execution
  BY <1>2, ExecutionType DEF Execution
<1>3. CASE Environment
  BY <1>3, EnvironmentType
<1>4. CASE UNCHANGED vars
  BY <1>4 DEF vars, TypeOK
<1> QED BY <1>1, <1>2, <1>3, <1>4 DEF Next

-----------------------------------------------------------------------------
(* The steps, by what they write. *)

\* An open run changes, but not into a success, and no deep run that may be
\* executing is opened again.
Moves(s) ==
  \/ run'[s] = run[s]
  \/ /\ run[s].state \notin {"SUCCEEDED", "FAILED_TERMINAL"}
     /\ run'[s].state # "SUCCEEDED"
     /\ run'[s].attempt >= run[s].attempt
     /\ s \in Deep /\ run[s].state = "RUNNING" => run'[s].state = "FAILED_TERMINAL"

\* Rows move, executions end unheard, and nothing is sent, saved or linked.
RowsMove ==
  /\ \A s \in Slots : Moves(s)
  /\ UNCHANGED <<result, link, sends>>
  /\ incident \subseteq incident'
  /\ probes' \subseteq probes

\* An execution comes to its next stage.
Advances(p, stage) ==
  /\ UNCHANGED <<run, link>>
  /\ incident \subseteq incident'
  /\ Advance(p, stage)

\* A sweep moves rows.
LEMMA SweepMoves ==
  ASSUME TypeOK, NEW times, NEW s \in Slots, run'[s] = Swept(times, s)
  PROVE  Moves(s)
<1>1. CASE SendUncertain(times, s)
  BY <1>1, RowType DEF Swept, SendUncertain, Moves, Runs
<1>2. CASE ~ SendUncertain(times, s) /\ OutOfAttempts(times, s)
  BY <1>2, RowType DEF Swept, OutOfAttempts, Moves, Runs
<1>3. CASE ~ SendUncertain(times, s) /\ ~ OutOfAttempts(times, s)
  BY <1>3 DEF Swept, Moves
<1> QED BY <1>1, <1>2, <1>3

\* The claimed row moves, and the sweep moves the others.
LEMMA ClaimMoves ==
  ASSUME TypeOK, NEW w \in Workers, NEW s \in Slots, ClaimNext(w, s)
  PROVE  RowsMove
<1> DEFINE times == worker[w].asOf
           swept == [t \in Slots |-> Swept(times, t)]
<1>1. Moves(s)
  <2>1. run[s].state \notin {"SUCCEEDED", "FAILED_TERMINAL"}
        /\ ~ (s \in Deep /\ run[s].state = "RUNNING")
    BY DEF ClaimNext, Claimable
  <2> QED BY <2>1, ClaimType DEF Moves
<1>2. ASSUME NEW t \in Slots, t # s
      PROVE  Moves(t)
  <2>1. run'[t] = swept[t]
    BY <1>2 DEF ClaimNext
  <2> QED BY <2>1, SweepMoves
<1> QED BY <1>1, <1>2 DEF ClaimNext, RowsMove

\* A deadline moves the row of a lease that holds.
LEMMA DeadlineMoves ==
  ASSUME TypeOK, NEW w \in Workers, NEW p \in probes, Deadline(w, p)
  PROVE  RowsMove
<1>1. p.slot \in Slots
  BY DEF TypeOK, Probes
<1>2. ASSUME NEW s \in Slots, s # p.slot
      PROVE  run'[s] = run[s]
  BY <1>2 DEF Deadline, FinishFailure, SetState, TypeOK
<1>3. Moves(p.slot)
  <2>1. CASE HoldsLease(p.slot, p.attempt) /\ p.slot \in Deep
    BY <1>1, <2>1, RowType
       DEF Deadline, HoldsLease, FinishFailure, Terminal, SetState, TypeOK, Runs, Moves
  <2>2. CASE HoldsLease(p.slot, p.attempt) /\ p.slot \notin Deep
    BY <1>1, <2>2, RowType DEF Deadline, HoldsLease, SetState, TypeOK, Runs, Moves
  <2>3. CASE ~ HoldsLease(p.slot, p.attempt)
    BY <2>3 DEF Deadline, Moves
  <2> QED BY <2>1, <2>2, <2>3
<1> QED BY <1>2, <1>3 DEF Deadline, RowsMove, Moves

\* The steps that move rows and no more.
LEMMA RowSteps ==
  ASSUME TypeOK,
         \/ UNCHANGED vars
         \/ Environment
         \/ \E w \in Workers :
              \/ BeginCycle(w) \/ ListDue(w) \/ BeginClaims(w) \/ EndClaims(w)
              \/ BeginClosing(w) \/ EndCycle(w) \/ StartStale(w)
              \/ \E s \in Slots : ReconcileIncident(w, s) \/ MaterializeDueSlot(w, s)
                                    \/ ClaimNext(w, s)
              \/ \E p \in probes : Deadline(w, p)
  PROVE  RowsMove
<1>1. CASE UNCHANGED vars
  BY <1>1 DEF vars, RowsMove, Moves
<1>2. CASE Environment
  <2>1. ASSUME NEW m \in Moments, Pass(m)
        PROVE  RowsMove
    BY <2>1 DEF Pass, store, RowsMove, Moves
  <2>2. ASSUME NEW s \in Slots, UpdateSchedule(s)
        PROVE  RowsMove
    <3>1. \A t \in Slots : Moves(t)
      BY <2>2, RowType DEF UpdateSchedule, TypeOK, Runs, Moves
    <3> QED BY <2>2, <3>1 DEF UpdateSchedule, RowsMove
  <2>3. ASSUME NEW w \in Workers, Crash(w)
        PROVE  RowsMove
    BY <2>3 DEF Crash, store, RowsMove, Moves
  <2> QED BY <1>2, <2>1, <2>2, <2>3 DEF Environment
<1>3. ASSUME NEW w \in Workers,
             BeginCycle(w) \/ ListDue(w) \/ BeginClaims(w)
               \/ BeginClosing(w) \/ EndCycle(w) \/ StartStale(w)
      PROVE  RowsMove
  BY <1>3
     DEF BeginCycle, ListDue, BeginClaims, BeginClosing, EndCycle, StartStale, store,
         RowsMove, Moves
<1>4. ASSUME NEW w \in Workers, EndClaims(w)
      PROVE  RowsMove
  <2>1. \A s \in Slots : run'[s] = run[s] \/ run'[s] = Swept(worker[w].asOf, s)
    BY <1>4 DEF EndClaims
  <2>2. \A s \in Slots : Moves(s)
    BY <2>1, SweepMoves DEF Moves
  <2> QED BY <1>4, <2>2 DEF EndClaims, RowsMove
<1>5. ASSUME NEW w \in Workers, NEW s \in Slots, ReconcileIncident(w, s)
      PROVE  RowsMove
  BY <1>5 DEF ReconcileIncident, RowsMove, Moves
<1>6. ASSUME NEW w \in Workers, NEW s \in Slots, MaterializeDueSlot(w, s)
      PROVE  RowsMove
  <2>1. \A t \in Slots : Moves(t)
    BY <1>6, RowType DEF MaterializeDueSlot, TypeOK, Runs, Moves
  <2> QED BY <1>6, <2>1 DEF MaterializeDueSlot, RowsMove
<1> QED BY <1>1, <1>2, <1>3, <1>4, <1>5, <1>6, ClaimMoves, DeadlineMoves

\* An execution that ends is heard, or is gone.
LEMMA EndsMoves ==
  ASSUME NEW p \in probes, NEW outcome, Ends(p, outcome),
         UNCHANGED <<run, result, link, sends>>, incident \subseteq incident'
  PROVE  RowsMove \/ Advances(p, outcome)
BY DEF Ends, RowsMove, Moves, Advances

-----------------------------------------------------------------------------
(* What each kind of step keeps. *)

Parts == Linked /\ Persisted /\ Unsent /\ OthersSilent

\* Rows that move keep the parts.
LEMMA RowsKeep ==
  ASSUME TypeOK, Parts, RowsMove
  PROVE  Parts'
<1>1. \A s \in Slots : /\ run'[s].state = "SUCCEEDED" <=> run[s].state = "SUCCEEDED"
                       /\ run'[s].state \notin Sending /\ s \in Deep =>
                            run[s].state \notin Sending
  <2> SUFFICES ASSUME NEW s \in Slots
               PROVE  /\ run'[s].state = "SUCCEEDED" <=> run[s].state = "SUCCEEDED"
                      /\ run'[s].state \notin Sending /\ s \in Deep =>
                           run[s].state \notin Sending
    OBVIOUS
  <2> Moves(s)
    BY DEF RowsMove
  <2> QED BY DEF Moves, Sending
<1>2. Linked'
  BY <1>1 DEF Parts, Linked, RowsMove
<1>3. Persisted'
  BY DEF Parts, Persisted, RowsMove
<1>4. Unsent'
  BY <1>1, SchedulerConstants DEF Parts, Unsent, RowsMove
<1>5. OthersSilent'
  BY DEF Parts, OthersSilent, RowsMove
<1> QED BY <1>2, <1>3, <1>4, <1>5 DEF Parts

\* The fields of an execution that advanced.
LEMMA AdvanceFields ==
  ASSUME TypeOK, NEW p \in probes, NEW stage, Advance(p, stage), NEW q \in probes'
  PROVE  \/ q \in probes \ {p}
         \/ q.slot = p.slot /\ q.attempt = p.attempt /\ q.stage = stage
                /\ q = [p EXCEPT !.stage = stage]
BY DEF TypeOK, Advance, Probes

\* An execution that advances without sending keeps the deep runs as they were,
\* if it may only be repeated when it had not begun.
LEMMA AdvanceUnsent ==
  ASSUME TypeOK, Unsent, NEW p \in probes, NEW stage, Advance(p, stage),
         UNCHANGED <<run, sends>>,
         p.slot \in Deep /\ stage \in {"started", "TRANSIENT"} => p.stage = "started"
  PROVE  Unsent'
<1> SUFFICES ASSUME NEW s \in Deep
             PROVE  /\ sends[s] <= 1
                    /\ run[s].state \notin Sending =>
                         sends[s] = 0 /\ \A q \in probes' : q.slot # s
                    /\ \A q \in probes' :
                         q.slot = s =>
                           /\ q.stage \in {"started", "TRANSIENT"} => sends[s] = 0
                           /\ \A r \in probes' : r.slot = s => r = q
  BY DEF Unsent
<1>1. sends[s] <= 1
  BY DEF Unsent
<1>2. run[s].state \notin Sending => sends[s] = 0 /\ \A q \in probes' : q.slot # s
  BY AdvanceFields DEF Unsent
<1>3. ASSUME NEW q \in probes', q.slot = s
      PROVE  /\ q.stage \in {"started", "TRANSIENT"} => sends[s] = 0
             /\ \A r \in probes' : r.slot = s => r = q
  <2>1. CASE q \in probes \ {p}
    <3>1. p.slot # s
      BY <1>3, <2>1 DEF Unsent
    <3> QED BY <1>3, <2>1, <3>1, AdvanceFields DEF Unsent
  <2>2. CASE q \notin probes \ {p}
    <3>1. p.slot = s /\ q.stage = stage /\ q = [p EXCEPT !.stage = stage]
      BY <1>3, <2>2, AdvanceFields
    <3>2. \A r \in probes : r.slot = s => r = p
      BY <3>1 DEF Unsent
    <3>3. \A r \in probes' : r.slot = s => r = [p EXCEPT !.stage = stage]
      BY <3>2, AdvanceFields
    <3> QED BY <3>1, <3>3 DEF Unsent
  <2> QED BY <2>1, <2>2
<1> QED BY <1>1, <1>2, <1>3

\* An execution that advances keeps the parts.
LEMMA AdvanceKeeps ==
  ASSUME TypeOK, Parts, NEW p \in probes, NEW stage, Advances(p, stage),
         UNCHANGED <<result, sends>>,
         stage \in {"saved", "SAVED"} => p.stage = "saved",
         stage = "SAVED" => p.slot \in incident',
         p.slot \in Deep /\ stage \in {"started", "TRANSIENT"} => p.stage = "started"
  PROVE  Parts'
<1>1. Linked' /\ OthersSilent'
  BY DEF Parts, Advances, Linked, OthersSilent
<1>2. Persisted'
  BY AdvanceFields DEF Parts, Advances, Persisted
<1>3. Unsent'
  BY AdvanceUnsent DEF Parts, Advances
<1> QED BY <1>1, <1>2, <1>3 DEF Parts

\* A reconciliation links the result of a row whose incident is done.
LEMMA CloseKeeps ==
  ASSUME TypeOK, Parts, NEW w \in Workers, NEW s \in Slots, ReconcileClose(w, s)
  PROVE  Parts'
<1>1. CASE Reconcilable(s)
  <2>1. /\ \A t \in Slots : t # s => run'[t] = run[t] /\ link'[t] = link[t]
        /\ run'[s].state = "SUCCEEDED" /\ link'[s] = result[s]
        /\ result[s] # None /\ s \in incident
        /\ UNCHANGED <<result, incident, probes, sends>>
    BY <1>1 DEF ReconcileClose, Reconcilable, IncidentDone, TypeOK, Runs
  <2>2. Linked'
    BY <2>1 DEF Parts, Linked
  <2>3. Persisted' /\ OthersSilent'
    BY <2>1 DEF Parts, Persisted, OthersSilent
  <2>4. Unsent'
    BY <2>1, SchedulerConstants DEF Parts, Unsent, Sending
  <2> QED BY <2>2, <2>3, <2>4 DEF Parts
<1>2. CASE ~ Reconcilable(s)
  BY <1>2, RowsKeep DEF ReconcileClose, RowsMove, Moves
<1> QED BY <1>1, <1>2

\* A run that starts has neither sent nor an execution.
LEMMA StartKeeps ==
  ASSUME TypeOK, Parts, NEW w \in Workers, StartRun(w)
  PROVE  Parts'
<1> DEFINE s == worker[w].slot
           p == [slot |-> s, attempt |-> worker[w].attempt, by |-> w, stage |-> "started"]
<1>1. /\ s \in Slots /\ run[s].state = "CLAIMED" /\ run'[s].state = "RUNNING"
      /\ \A t \in Slots : t # s => run'[t] = run[t]
      /\ probes' = probes \cup {p}
      /\ UNCHANGED <<result, link, incident, sends>>
  BY StartType DEF StartRun, TypeOK, Runs
<1>2. Linked'
  BY <1>1 DEF Parts, Linked
<1>3. Persisted' /\ OthersSilent'
  BY <1>1 DEF Parts, Persisted, OthersSilent
<1>4. s \in Deep => sends[s] = 0 /\ \A q \in probes : q.slot # s
  BY <1>1 DEF Parts, Unsent, Sending
<1>5. Unsent'
  <2> SUFFICES ASSUME NEW d \in Deep
               PROVE  /\ sends'[d] <= 1
                      /\ run'[d].state \notin Sending =>
                           sends'[d] = 0 /\ \A q \in probes' : q.slot # d
                      /\ \A q \in probes' :
                           q.slot = d =>
                             /\ q.stage \in {"started", "TRANSIENT"} => sends'[d] = 0
                             /\ \A r \in probes' : r.slot = d => r = q
    BY DEF Unsent
  <2>1. CASE d = s
    BY <1>1, <1>4, <2>1 DEF Parts, Unsent, Sending
  <2>2. CASE d # s
    BY <1>1, <2>2, SchedulerConstants DEF Parts, Unsent
  <2> QED BY <2>1, <2>2
<1> QED BY <1>2, <1>3, <1>5 DEF Parts

\* A worker that hears the end of its execution keeps the parts: a deep run is
\* opened again only when its one execution had not sent.
LEMMA FinishKeeps ==
  ASSUME TypeOK, Parts, NEW w \in Workers, NEW p \in probes, Finish(w, p)
  PROVE  Parts'
<1> DEFINE s == p.slot
<1>1. s \in Slots /\ p.attempt \in Attempts /\ None \notin Attempts
  BY SchedulerConstants DEF TypeOK, Probes, Attempts
<1>2. /\ p.stage \in Outcomes
      /\ probes' = probes \ {p}
      /\ UNCHANGED <<result, incident, sends>>
  BY DEF Finish
<1>3. CASE ~ HoldsLease(s, p.attempt)
  BY <1>3, <1>2, RowsKeep DEF Finish, RowsMove, Moves
<1>4. CASE HoldsLease(s, p.attempt) /\ p.stage = "SAVED"
  <2>1. /\ run'[s].state = "SUCCEEDED" /\ link'[s] = p.attempt
        /\ result[s] = p.attempt /\ s \in incident
        /\ \A t \in Slots : t # s => run'[t] = run[t] /\ link'[t] = link[t]
    BY <1>1, <1>4 DEF Finish, TypeOK, Runs, Parts, Persisted
  <2>2. Linked'
    BY <1>1, <1>2, <2>1 DEF Parts, Linked
  <2>3. Persisted' /\ OthersSilent'
    BY <1>2 DEF Parts, Persisted, OthersSilent
  <2>4. Unsent'
    BY <1>2, <2>1, SchedulerConstants DEF Parts, Unsent, Sending
  <2> QED BY <2>2, <2>3, <2>4 DEF Parts
<1>5. CASE HoldsLease(s, p.attempt) /\ p.stage # "SAVED"
  <2>1. FinishFailure(s, FailureOf(s, p.stage)) /\ UNCHANGED link
    BY <1>5 DEF Finish
  <2>2. /\ run[s].state = "RUNNING"
        /\ run'[s].state \in {"FAILED_TERMINAL", "FAILED_RETRYABLE"}
        /\ \A t \in Slots : t # s => run'[t] = run[t]
        /\ s \in Deep /\ run'[s].state = "FAILED_RETRYABLE" => p.stage = "TRANSIENT"
    BY <1>1, <1>2, <1>5, <2>1
       DEF HoldsLease, FinishFailure, SetState, FailureOf, Terminal, Outcomes, TypeOK, Runs
  <2>3. Linked'
    BY <1>1, <1>2, <2>1, <2>2 DEF Parts, Linked
  <2>4. Persisted' /\ OthersSilent'
    BY <1>2 DEF Parts, Persisted, OthersSilent
  <2>5. s \in Deep /\ run'[s].state = "FAILED_RETRYABLE" =>
          sends[s] = 0 /\ \A q \in probes' : q.slot # s
    BY <1>2, <2>2 DEF Parts, Unsent
  <2>6. Unsent'
    <3> SUFFICES ASSUME NEW d \in Deep
                 PROVE  /\ sends'[d] <= 1
                        /\ run'[d].state \notin Sending =>
                             sends'[d] = 0 /\ \A q \in probes' : q.slot # d
                        /\ \A q \in probes' :
                             q.slot = d =>
                               /\ q.stage \in {"started", "TRANSIENT"} => sends'[d] = 0
                               /\ \A r \in probes' : r.slot = d => r = q
      BY DEF Unsent
    <3>1. CASE d = s
      BY <1>2, <2>2, <2>5, <3>1 DEF Parts, Unsent, Sending
    <3>2. CASE d # s
      BY <1>2, <2>2, <3>2, SchedulerConstants DEF Parts, Unsent
    <3> QED BY <3>1, <3>2
  <2> QED BY <2>3, <2>4, <2>6 DEF Parts
<1> QED BY <1>3, <1>4, <1>5

\* The one prompt of a deep run is sent by its one execution.
LEMMA SendKeeps ==
  ASSUME TypeOK, Parts, NEW p \in probes, SendPrompt(p)
  PROVE  Parts'
<1> DEFINE s == p.slot
<1>1. /\ s \in Deep /\ p.stage = "started" /\ Advance(p, "sent")
      /\ UNCHANGED <<run, result, link, incident>>
      /\ s \in Slots
  BY SchedulerConstants DEF SendPrompt, store
<1>2. sends[s] = 0 /\ run[s].state \in Sending
  BY <1>1 DEF Parts, Unsent
<1>3. sends'[s] = 1 /\ \A t \in Slots : t # s => sends'[t] = sends[t]
  BY <1>1, <1>2 DEF SendPrompt, TypeOK
<1>4. Linked'
  BY <1>1 DEF Parts, Linked
<1>5. Persisted'
  BY <1>1, AdvanceFields DEF Parts, Persisted
<1>6. OthersSilent'
  BY <1>1, <1>3 DEF Parts, OthersSilent
<1>7. Unsent'
  <2> SUFFICES ASSUME NEW d \in Deep
               PROVE  /\ sends'[d] <= 1
                      /\ run[d].state \notin Sending =>
                           sends'[d] = 0 /\ \A q \in probes' : q.slot # d
                      /\ \A q \in probes' :
                           q.slot = d =>
                             /\ q.stage \in {"started", "TRANSIENT"} => sends'[d] = 0
                             /\ \A r \in probes' : r.slot = d => r = q
    BY <1>1 DEF Unsent
  <2>1. CASE d = s
    <3>1. \A q \in probes : q.slot = s => q = p
      BY <1>1 DEF Parts, Unsent
    <3>2. \A q \in probes' : q.slot = s => q = [p EXCEPT !.stage = "sent"] /\ q.stage = "sent"
      BY <1>1, <3>1, AdvanceFields
    <3> QED BY <1>2, <1>3, <2>1, <3>2
  <2>2. CASE d # s
    <3>1. \A q \in probes' : q.slot = d => q \in probes
      BY <1>1, <2>2, AdvanceFields
    <3>2. sends'[d] = sends[d]
      BY <1>3, <2>2, SchedulerConstants
    <3> QED BY <3>1, <3>2, <1>1, <2>2, AdvanceFields DEF Parts, Unsent
  <2> QED BY <2>1, <2>2
<1> QED BY <1>4, <1>5, <1>6, <1>7 DEF Parts

\* The one result of a run is saved by the execution that says so.
LEMMA PersistKeeps ==
  ASSUME TypeOK, Parts, NEW p \in probes, PersistResult(p)
  PROVE  Parts'
<1>1. /\ p.slot \in Slots /\ result[p.slot] = None /\ result'[p.slot] = p.attempt
      /\ \A t \in Slots : t # p.slot => result'[t] = result[t]
      /\ Advance(p, "saved") /\ UNCHANGED <<run, link, incident, sends>>
  BY DEF PersistResult, MayPersist, TypeOK, Probes
<1>2. Linked'
  BY <1>1 DEF Parts, Linked
<1>3. Persisted'
  <2> SUFFICES ASSUME NEW q \in probes'
               PROVE  /\ q.stage \in {"saved", "SAVED"} => result'[q.slot] = q.attempt
                      /\ q.stage = "SAVED" => q.slot \in incident'
    BY DEF Persisted
  <2>1. CASE q \in probes
    <3>1. q.slot \in Slots /\ q.attempt \in Attempts /\ None \notin Attempts
      BY <2>1, SchedulerConstants DEF TypeOK, Probes, Attempts
    <3> QED BY <1>1, <2>1, <3>1 DEF Parts, Persisted
  <2>2. CASE q \notin probes
    BY <1>1, <2>2, AdvanceFields
  <2> QED BY <2>1, <2>2
<1>4. Unsent'
  BY <1>1, AdvanceUnsent DEF Parts
<1> QED BY <1>1, <1>2, <1>3, <1>4 DEF Parts, OthersSilent

\* The other steps of an execution keep the parts.
LEMMA ExecutionKeeps ==
  ASSUME TypeOK, Parts, NEW p \in probes,
         \/ PersistRejected(p) \/ ProcessIncident(p)
         \/ \E outcome \in Outcomes : ExecutionFails(p, outcome)
  PROVE  Parts'
<1>1. PICK outcome \in Outcomes :
        /\ Ends(p, outcome)
        /\ UNCHANGED <<run, result, link, sends>>
        /\ incident \subseteq incident'
        /\ outcome = "SAVED" => p.stage = "saved" /\ p.slot \in incident'
        /\ p.slot \in Deep /\ outcome = "TRANSIENT" => p.stage = "started"
  <2>1. CASE PersistRejected(p)
    BY <2>1 DEF PersistRejected, Outcomes, store
  <2>2. CASE ProcessIncident(p)
    BY <2>2 DEF ProcessIncident, Outcomes
  <2>3. ASSUME NEW outcome \in Outcomes, ExecutionFails(p, outcome)
        PROVE  /\ Ends(p, outcome)
               /\ UNCHANGED <<run, result, link, sends>>
               /\ incident \subseteq incident'
               /\ outcome = "SAVED" => p.stage = "saved" /\ p.slot \in incident'
               /\ p.slot \in Deep /\ outcome = "TRANSIENT" => p.stage = "started"
    <3>1. outcome # "SAVED" /\ (p.slot \in Deep /\ outcome = "TRANSIENT" => p.stage = "started")
      BY <2>3 DEF ExecutionFails, Failures
    <3> QED BY <2>3, <3>1 DEF ExecutionFails, store
  <2> QED BY <2>1, <2>2, <2>3
<1>2. RowsMove \/ Advances(p, outcome)
  BY <1>1, EndsMoves
<1>3. outcome \notin {"saved", "started"}
  BY DEF Outcomes
<1> QED BY <1>1, <1>2, <1>3, RowsKeep, AdvanceKeeps

-----------------------------------------------------------------------------
(* The theorems. *)

\* Every step keeps the parts.
LEMMA PartsStep ==
  ASSUME TypeOK, Parts, [Next]_vars
  PROVE  Parts'
<1>1. ASSUME NEW w \in Workers, Cycle(w)
      PROVE  Parts'
  <2>1. ASSUME NEW s \in Slots, ReconcileClose(w, s)
        PROVE  Parts'
    BY <2>1, CloseKeeps
  <2>2. CASE StartRun(w)
    BY <2>2, StartKeeps
  <2>3. ASSUME NEW p \in probes, Finish(w, p)
        PROVE  Parts'
    BY <2>3, FinishKeeps
  <2>4. CASE /\ ~ StartRun(w)
             /\ \A s \in Slots : ~ ReconcileClose(w, s)
             /\ \A p \in probes : ~ Finish(w, p)
    <3>1. RowsMove
      BY <1>1, <2>4, RowSteps DEF Cycle
    <3> QED BY <3>1, RowsKeep
  <2> QED BY <2>1, <2>2, <2>3, <2>4
<1>2. CASE Execution
  BY <1>2, SendKeeps, PersistKeeps, ExecutionKeeps DEF Execution
<1>3. CASE Environment \/ UNCHANGED vars
  BY <1>3, RowSteps, RowsKeep
<1> QED BY <1>1, <1>2, <1>3 DEF Next

\* What a step may do to a settled run.
Stays(s) ==
  /\ run'[s].attempt >= run[s].attempt
  /\ run[s].state = "SUCCEEDED" => run'[s] = run[s] /\ link'[s] = link[s]
  /\ run[s].state = "FAILED_TERMINAL" =>
       \/ run'[s] = run[s]
       \/ run'[s].state = "SUCCEEDED" /\ result[s] # None /\ s \in Deep

\* Every step leaves settled runs as they are.
LEMMA StaysStep ==
  ASSUME TypeOK, [Next]_vars, NEW s \in Slots
  PROVE  Stays(s)
<1>1. CASE RowsMove
  BY <1>1, RowType DEF Stays, RowsMove, Moves
<1>2. ASSUME NEW w \in Workers, NEW t \in Slots, ReconcileClose(w, t)
      PROVE  Stays(s)
  BY <1>2, RowType DEF Stays, ReconcileClose, Reconcilable, TypeOK, Runs
<1>3. ASSUME NEW w \in Workers, StartRun(w)
      PROVE  Stays(s)
  BY <1>3, RowType, StartType DEF Stays, StartRun, TypeOK, Runs
<1>4. ASSUME NEW w \in Workers, NEW p \in probes, Finish(w, p)
      PROVE  Stays(s)
  <2>1. p.slot \in Slots
    BY DEF TypeOK, Probes
  <2>2. CASE HoldsLease(p.slot, p.attempt)
    BY <1>4, <2>1, <2>2, RowType
       DEF Stays, Finish, HoldsLease, FinishFailure, SetState, TypeOK, Runs
  <2>3. CASE ~ HoldsLease(p.slot, p.attempt)
    BY <1>4, <2>3, RowType DEF Stays, Finish
  <2> QED BY <2>2, <2>3
<1>5. CASE Execution
  <2>1. UNCHANGED <<run, link>>
    BY <1>5 DEF Execution, SendPrompt, PersistResult, PersistRejected, ProcessIncident,
                ExecutionFails, store
  <2> QED BY <2>1, RowType DEF Stays
<1>6. CASE Environment \/ UNCHANGED vars
  BY <1>1, <1>6, RowSteps
<1>7. ASSUME NEW w \in Workers, Cycle(w)
      PROVE  Stays(s)
  <2>1. CASE /\ ~ StartRun(w)
             /\ \A t \in Slots : ~ ReconcileClose(w, t)
             /\ \A p \in probes : ~ Finish(w, p)
    <3>1. RowsMove
      BY <1>7, <2>1, RowSteps DEF Cycle
    <3> QED BY <1>1, <3>1
  <2> QED BY <2>1, <1>2, <1>3, <1>4
<1> QED BY <1>5, <1>6, <1>7 DEF Next

\* The inductive invariant holds in every state the workers, their executions
\* and the database reach.
THEOREM Invariance == Spec => []IInv
<1>1. Init => IInv
  <2> SUFFICES ASSUME Init
               PROVE  IInv
    OBVIOUS
  <2>1. TypeOK
    BY SchedulerConstants
       DEF Init, TypeOK, NewRun, Runs, RunStates, Attempts, Codes, WorkerStates
  <2>2. \A s \in Slots : run[s].state = "WAITING" /\ link[s] = None /\ sends[s] = 0
    BY DEF Init, NewRun
  <2>3. Linked /\ Persisted /\ OthersSilent
    BY <2>2 DEF Init, Linked, Persisted, OthersSilent
  <2>4. Unsent
    BY <2>2, SchedulerConstants DEF Init, Unsent
  <2> QED BY <2>1, <2>3, <2>4 DEF IInv
<1>2. IInv /\ [Next]_vars => IInv'
  BY TypeStep, PartsStep DEF IInv, Parts
<1> QED BY <1>1, <1>2, PTL DEF Spec

\* Rows, leases, results and worker memory keep their types: no attempt beyond
\* cadence.maxAttempts is ever claimed, no cycle claims more than maxConcurrency.
THEOREM TypeCorrect == Spec => []TypeOK
<1>1. IInv => TypeOK
  BY DEF IInv
<1> QED BY <1>1, Invariance, PTL

\* At most one prompt is sent for a deep run, through lost leases, deadlines,
\* crashes and failed writes, by however many workers.
THEOREM AtMostOneSend == Spec => []OneSend
<1>1. IInv => OneSend
  BY SchedulerConstants DEF IInv, Unsent, OthersSilent, OneSend
<1> QED BY <1>1, Invariance, PTL

\* A succeeded run points to its one committed result, and incident processing
\* saw that result.
THEOREM SuccessLinked == Spec => []SuccessIsComplete
<1>1. IInv => SuccessIsComplete
  BY DEF IInv, Linked, SuccessIsComplete
<1> QED BY <1>1, Invariance, PTL

\* Attempts never go back, a success is final, and a terminal failure becomes
\* nothing but the success of a committed deep result.
THEOREM SettledForGood == Spec => SettledStays
<1>1. TypeOK /\ [Next]_vars => [\A s \in Slots : Stays(s)]_vars
  BY StaysStep
<1>2. [\A s \in Slots : Stays(s)]_vars =>
        [\A s \in Slots :
           /\ run'[s].attempt >= run[s].attempt
           /\ run[s].state = "SUCCEEDED" => run'[s] = run[s] /\ link'[s] = link[s]
           /\ run[s].state = "FAILED_TERMINAL" =>
                \/ run'[s] = run[s]
                \/ run'[s].state = "SUCCEEDED" /\ result[s] # None /\ s \in Deep]_vars
  BY DEF Stays
<1> QED BY <1>1, <1>2, TypeCorrect, PTL DEF Spec, SettledStays

=============================================================================
