----------------------- MODULE TechnicalSchedulerProofs -----------------------
(***************************************************************************)
(* The technical scheduler, proved for any tasks, times and troubles.       *)
(*                                                                         *)
(* The backoff of a kept task: as long as something is left of the delay,   *)
(* the task is there, of the present authority, failed, claimed by nobody   *)
(* and not due earlier (Backed): every reconstruction then keeps its time,  *)
(* and no wake claims it.                                                  *)
(*                                                                         *)
(* No work forgotten: the reconstruction that ends a wake puts every task   *)
(* down again, whatever the handlers did to it; as it goes through them,    *)
(* those it has been past are in time (CaredTaken), and what a worker that  *)
(* died had left is known before its turn comes (StrandedKnown).  The alarm *)
(* is set for the earliest one when the wake ends (AlarmSet).               *)
(***************************************************************************)
EXTENDS TechnicalScheduler, WellFoundedInduction, TLAPS

--------------------------------------------------------------------------------
\* The inductive invariant

Workers == [phase : {"off", "idle", "reconstruct", "serve", "dispatch", "close"},
            todo : Seq(Tasks), seen : SUBSET Immediate, due : SUBSET Tasks,
            held : Tasks \cup {None}]

Typed ==
  /\ need \in [Tasks -> Nat \cup {None}]
  /\ entry \in [Tasks -> Entries \cup {None}]
  /\ owed \in [Tasks -> Nat]
  /\ worker \in Workers

\* A task is held only while its handler runs.
Holding == worker.held # None => worker.phase = "dispatch"

\* A kept task that is held has its attempt on record.
Attempted == \A t \in Kept : worker.held = t => entry[t] # None /\ entry[t].failed

\* A kept task of the present authority has a plan.
Planned == \A t \in Kept : entry[t] # None /\ entry[t].current => need[t] # None

\* What is left of a delay is backed by the task.
Backed ==
  \A t \in Kept : owed[t] > 0 =>
    /\ entry[t] # None /\ entry[t].current /\ entry[t].failed
    /\ entry[t].claim = 0 /\ entry[t].wait >= owed[t]
    /\ worker.held # t

BackoffInv == Typed /\ Holding /\ Attempted /\ Planned /\ Backed

--------------------------------------------------------------------------------
\* Tasks

\* The earlier of two times is one of them.
LEMMA EarlierTime ==
  ASSUME NEW a \in Nat, NEW b \in Nat
  PROVE  Min({a, b}) \in {a, b}
<1>1. \E x \in {a, b} : \A y \in {a, b} : x <= y
  <2>1. CASE a <= b
    BY <2>1
  <2>2. CASE b <= a
    BY <2>2
  <2> QED BY <2>1, <2>2
<1> QED BY <1>1 DEF Min

\* What a task keeps when its revision does not matter any more.
Alike(f, g, t) ==
  /\ f[t] = None <=> g[t] = None
  /\ f[t] # None => /\ f[t].wait = g[t].wait /\ f[t].claim = g[t].claim
                    /\ f[t].current = g[t].current /\ f[t].failed = g[t].failed

\* finish() and a worker's death change nothing of the tasks but what the revision is to.
LEMMA ReleasedAlike ==
  ASSUME NEW f \in [Tasks -> Entries \cup {None}]
  PROVE  /\ Released(f) \in [Tasks -> Entries \cup {None}]
         /\ \A t \in Tasks : Alike(Released(f), f, t)
<1> SUFFICES ASSUME NEW t \in Tasks
             PROVE  Released(f)[t] \in Entries \cup {None} /\ Alike(Released(f), f, t)
  BY DEF Released
<1>1. CASE f[t] = None
  BY <1>1 DEF Released, Alike
<1>2. CASE f[t] # None
  <2>1. f[t] \in Entries
    BY <1>2
  <2>2. Released(f)[t] = [f[t] EXCEPT !.revision = "beyond"]
    BY <1>2 DEF Released
  <2>3. Released(f)[t] \in Entries
    BY <2>1, <2>2 DEF Entries
  <2>4. Released(f)[t] # None
    BY <2>3, SchedulerTasks
  <2> QED BY <1>2, <2>1, <2>2, <2>3, <2>4 DEF Alike, Entries
<1> QED BY <1>1, <1>2

\* A write puts the tasks down as they were made, whether the worker dies after it or not.
LEMMA Written ==
  ASSUME NEW f \in [Tasks -> Entries \cup {None}], NEW next, Write(f, next)
  PROVE  /\ entry' \in [Tasks -> Entries \cup {None}]
         /\ \A t \in Tasks : Alike(entry', f, t)
         /\ worker' \in {next, Off}
<1>1. CASE entry' = f /\ worker' = next
  BY <1>1 DEF Alike
<1>2. CASE entry' = Released(f) /\ worker' = Off
  BY <1>2, ReleasedAlike
<1> QED BY <1>1, <1>2 DEF Write

\* A scheduled task is of the present authority and claimed by nobody.
LEMMA ScheduledIs ==
  ASSUME Typed, NEW t \in Tasks, NEW wait \in Nat, NEW r \in {"same", "anew", "beyond"},
         NEW f, f = Scheduled(t, wait, r)
  PROVE  /\ f \in [Tasks -> Entries \cup {None}]
         /\ f[t] \in Entries
         /\ f[t].wait = wait /\ f[t].claim = 0 /\ f[t].current
         /\ f[t].failed = (entry[t] # None /\ entry[t].failed)
         /\ \A u \in Tasks \ {t} : f[u] = entry[u]
<1>1. entry \in [Tasks -> Entries \cup {None}]
  BY DEF Typed
<1>2. (entry[t] # None /\ entry[t].failed) \in BOOLEAN
  OBVIOUS
<1>3. f[t] = [wait |-> wait, claim |-> 0, revision |-> r, current |-> TRUE, pushed |-> FALSE,
              failed |-> entry[t] # None /\ entry[t].failed]
  BY <1>1 DEF Scheduled
<1>4. f[t] \in Entries
  BY <1>2, <1>3 DEF Entries
<1>5. \A u \in Tasks \ {t} : f[u] = entry[u]
  BY <1>1 DEF Scheduled
<1>6. f \in [Tasks -> Entries \cup {None}]
  BY <1>1, <1>4 DEF Scheduled
<1> QED BY <1>3, <1>4, <1>5, <1>6

LEMMA RevisionsIn ==
  ASSUME NEW t, NEW r \in Revisions(t)
  PROVE  r \in {"same", "anew", "beyond"}
BY DEF Revisions

\* The type of a worker that is woken, idle or gone.
LEMMA RestingWorkers ==
  /\ Off \in Workers /\ Idle \in Workers /\ Woken \in Workers
  /\ Off.held = None /\ Idle.held = None /\ Woken.held = None
  /\ [Woken EXCEPT !.phase = "close"] \in Workers
  /\ [Woken EXCEPT !.phase = "close"].held = None
<1>1. Order \in Seq(Tasks) /\ <<>> \in Seq(Tasks)
  BY SchedulerTasks
<1>2. Off \in Workers /\ Off.held = None
  BY <1>1 DEF Off, Workers
<1>3. Idle \in Workers /\ Idle.held = None
  BY <1>2 DEF Idle, Workers
<1>4. Woken \in Workers /\ Woken.held = None
  BY <1>1, <1>2 DEF Woken, Workers
<1>5. [Woken EXCEPT !.phase = "close"] \in Workers /\ [Woken EXCEPT !.phase = "close"].held = None
  BY <1>4 DEF Workers
<1> QED BY <1>2, <1>3, <1>4, <1>5

\* Nothing of the invariant depends on a worker that holds no task, or what it held before.
LEMMA SameTasks ==
  ASSUME BackoffInv, UNCHANGED <<need, entry, owed>>, worker' \in Workers,
         worker'.held \in {None, worker.held}, Holding'
  PROVE  BackoffInv'
<1> USE DEF BackoffInv
<1>1. Typed'
  BY DEF Typed
<1>2. \A t \in Kept : t # None
  BY SchedulerTasks DEF Tasks
<1>3. Attempted'
  BY <1>2 DEF Attempted
<1>4. Planned'
  BY DEF Planned
<1>5. Backed'
  BY <1>2 DEF Backed
<1> QED BY <1>1, <1>3, <1>4, <1>5

--------------------------------------------------------------------------------
\* The steps

\* A kept task in backoff keeps its time.
LEMMA BackoffWait ==
  ASSUME BackoffInv, NEW t \in Kept, owed[t] > 0
  PROVE  Wait(t) = entry[t].wait
<1>1. entry[t] \in Entries /\ owed[t] \in Nat /\ t \notin Immediate \cup Deadline
  BY SchedulerTasks DEF BackoffInv, Typed, Backed, Tasks
<1>2. entry[t].wait > 0
  BY <1>1 DEF BackoffInv, Backed, Entries
<1>3. KeptWait(t) = entry[t].wait
  BY <1>2 DEF KeptWait, BackoffInv, Backed
<1> QED BY <1>1, <1>3 DEF Wait

\* What reconstruct() schedules a task for is a time.
LEMMA WaitIsTime ==
  ASSUME Typed, NEW t \in Tasks, Wanted(t)
  PROVE  Wait(t) \in Nat /\ (t \in Kept => need[t] # None)
<1>1. CASE t \in Immediate
  BY <1>1, SchedulerTasks DEF Wait, Tasks
<1>2. CASE t \in Deadline
  BY <1>2, SchedulerTasks DEF Wait, Wanted, Typed
<1>3. CASE t \in Kept
  <2>1. need[t] \in Nat
    BY <1>3, SchedulerTasks DEF Wanted, Typed, Tasks
  <2>2. entry[t] # None => entry[t].wait \in Nat
    BY DEF Typed, Entries
  <2>3. KeptWait(t) \in Nat
    BY <2>1, <2>2, EarlierTime DEF KeptWait
  <2> QED BY <1>3, <2>1, <2>3, SchedulerTasks DEF Wait, Tasks
<1> QED BY <1>1, <1>2, <1>3 DEF Tasks

\* The task that is reconstructed: whose failure it keeps, and when.
LEMMA ReplacedIs ==
  ASSUME BackoffInv, NEW t \in Tasks, Wanted(t), NEW r \in Revisions(t),
         NEW f, f = Replaced(t, r)
  PROVE  /\ f \in [Tasks -> Entries \cup {None}]
         /\ f[t] \in Entries
         /\ \A u \in Tasks \ {t} : f[u] = entry[u]
         /\ t \in Kept /\ owed[t] > 0 =>
              /\ f[t].current /\ f[t].failed /\ f[t].claim = 0
              /\ f[t].wait = entry[t].wait
<1> DEFINE g == Scheduled(t, Wait(t), r)
<1>1. Wait(t) \in Nat
  BY WaitIsTime DEF BackoffInv
<1>2. /\ g \in [Tasks -> Entries \cup {None}]
      /\ g[t] \in Entries
      /\ g[t].wait = Wait(t) /\ g[t].claim = 0 /\ g[t].current
      /\ g[t].failed = (entry[t] # None /\ entry[t].failed)
      /\ \A u \in Tasks \ {t} : g[u] = entry[u]
  <2>1. r \in {"same", "anew", "beyond"} /\ Typed
    BY RevisionsIn DEF BackoffInv
  <2> DEFINE w == Wait(t)
  <2>2. w \in Nat /\ g = Scheduled(t, w, r)
    BY <1>1
  <2> HIDE DEF g, w
  <2>3. /\ g \in [Tasks -> Entries \cup {None}]
        /\ g[t] \in Entries
        /\ g[t].wait = w /\ g[t].claim = 0 /\ g[t].current
        /\ g[t].failed = (entry[t] # None /\ entry[t].failed)
        /\ \A u \in Tasks \ {t} : g[u] = entry[u]
    BY <2>1, <2>2, ScheduledIs
  <2> QED BY <2>3 DEF w
<1> HIDE DEF g
<1>3. CASE t \in Kept /\ entry[t] # None /\ ~ entry[t].current
  <2>1. f = [g EXCEPT ![t].failed = FALSE]
    BY <1>3 DEF Replaced, g
  <2>2. ~ (owed[t] > 0)
    BY <1>3 DEF BackoffInv, Backed
  <2>3. f[t] \in Entries
    <3>1. f[t] = [g[t] EXCEPT !.failed = FALSE]
      BY <1>2, <2>1
    <3>2. \A x \in Entries : [x EXCEPT !.failed = FALSE] \in Entries
      BY DEF Entries
    <3> QED BY <1>2, <3>1, <3>2
  <2>4. \A u \in Tasks \ {t} : f[u] = entry[u]
    BY <1>2, <2>1
  <2>5. f \in [Tasks -> Entries \cup {None}]
    BY <1>2, <2>1, <2>3
  <2> QED BY <2>2, <2>3, <2>4, <2>5
<1>4. CASE ~ (t \in Kept /\ entry[t] # None /\ ~ entry[t].current)
  <2>1. f = g
    BY <1>4 DEF Replaced, g
  <2>2. t \in Kept /\ owed[t] > 0 => g[t].failed /\ Wait(t) = entry[t].wait
    BY <1>2, BackoffWait DEF BackoffInv, Backed
  <2> QED BY <1>2, <2>1, <2>2
<1> QED BY <1>3, <1>4

\* A write between two handlers, of tasks that are a plan for each kept task.
LEMMA WriteKeeps ==
  ASSUME BackoffInv, UNCHANGED <<need, owed>>,
         NEW f \in [Tasks -> Entries \cup {None}], NEW next \in Workers, next.held = None,
         Write(f, next),
         \A t \in Kept : f[t] # None /\ f[t].current => need[t] # None,
         \A t \in Kept : owed[t] > 0 =>
            /\ f[t] # None /\ f[t].current /\ f[t].failed /\ f[t].claim = 0
            /\ f[t].wait >= owed[t]
  PROVE  BackoffInv'
<1>1. /\ entry' \in [Tasks -> Entries \cup {None}]
      /\ \A t \in Tasks : Alike(entry', f, t)
      /\ worker' \in Workers /\ worker'.held = None
  BY Written, RestingWorkers
<1>2. Kept \subseteq Tasks /\ None \notin Kept
  BY SchedulerTasks DEF Tasks
<1>3. Typed'
  BY <1>1 DEF BackoffInv, Typed
<1>4. Holding' /\ Attempted'
  BY <1>1, <1>2 DEF Holding, Attempted
<1>5. Planned'
  BY <1>1, <1>2 DEF Planned, Alike
<1>6. Backed'
  BY <1>1, <1>2 DEF Backed, Alike
<1> QED BY <1>3, <1>4, <1>5, <1>6 DEF BackoffInv

LEMMA ReconstructKeeps == BackoffInv /\ Reconstruct => BackoffInv'
<1> SUFFICES ASSUME BackoffInv, Reconstruct PROVE BackoffInv'
  OBVIOUS
<1> DEFINE t == Head(worker.todo)
           next == [worker EXCEPT !.todo = Tail(@), !.seen = Seen]
<1>1. worker.todo \in Seq(Tasks) /\ worker.todo # <<>> /\ worker.held = None
  BY DEF Reconstruct, BackoffInv, Typed, Workers, Holding
<1>2. t \in Tasks /\ Tail(worker.todo) \in Seq(Tasks)
  BY <1>1
<1>3. Seen \in SUBSET Immediate
  BY DEF Seen, BackoffInv, Typed, Workers
<1>4. next \in Workers /\ next.held = None
  BY <1>1, <1>2, <1>3 DEF BackoffInv, Typed, Workers
<1>5. UNCHANGED <<need, owed>>
  BY DEF Reconstruct
<1>6. Kept \subseteq Tasks /\ None \notin Entries
  BY SchedulerTasks DEF Tasks
<1>7. CASE ~ Wanted(t) /\ Write(Cancelled(t), next)
  <2> DEFINE f == Cancelled(t)
  <2>1. f \in [Tasks -> Entries \cup {None}] /\ f[t] = None
        /\ \A u \in Tasks \ {t} : f[u] = entry[u]
    BY <1>2 DEF Cancelled, BackoffInv, Typed
  <2>2. t \in Kept => need[t] = None
    BY <1>7, SchedulerTasks DEF Wanted, Tasks
  <2>3. t \in Kept => ~ (owed[t] > 0)
    BY <2>2 DEF BackoffInv, Backed, Planned
  <2> HIDE DEF f
  <2>4. \A u \in Kept : f[u] # None /\ f[u].current => need[u] # None
    BY <1>6, <2>1 DEF BackoffInv, Planned
  <2>5. \A u \in Kept : owed[u] > 0 =>
          /\ f[u] # None /\ f[u].current /\ f[u].failed /\ f[u].claim = 0
          /\ f[u].wait >= owed[u]
    BY <1>6, <2>1, <2>3 DEF BackoffInv, Backed
  <2>6. Write(f, next)
    BY <1>7 DEF f
  <2> HIDE DEF next
  <2> QED BY <1>4, <1>5, <2>1, <2>4, <2>5, <2>6, WriteKeeps
<1>8. CASE Wanted(t) /\ \E r \in Revisions(t) : Write(Replaced(t, r), next)
  <2>1. PICK r \in Revisions(t) : Write(Replaced(t, r), next)
    BY <1>8
  <2> DEFINE f == Replaced(t, r)
  <2> HIDE DEF t, next
  <2>2. /\ f \in [Tasks -> Entries \cup {None}]
        /\ f[t] \in Entries
        /\ \A u \in Tasks \ {t} : f[u] = entry[u]
        /\ t \in Kept /\ owed[t] > 0 =>
             /\ f[t].current /\ f[t].failed /\ f[t].claim = 0
             /\ f[t].wait = entry[t].wait
    BY <1>2, <1>8, ReplacedIs
  <2>3. t \in Kept => need[t] # None
    BY <1>2, <1>8, WaitIsTime DEF BackoffInv
  <2>4. Write(f, next)
    BY <2>1
  <2> HIDE DEF f
  <2>5. \A u \in Kept : f[u] # None /\ f[u].current => need[u] # None
    BY <1>6, <2>2, <2>3 DEF BackoffInv, Planned
  <2>6. \A u \in Kept : owed[u] > 0 =>
          /\ f[u] # None /\ f[u].current /\ f[u].failed /\ f[u].claim = 0
          /\ f[u].wait >= owed[u]
    <3> SUFFICES ASSUME NEW u \in Kept, owed[u] > 0
                 PROVE  /\ f[u] # None /\ f[u].current /\ f[u].failed /\ f[u].claim = 0
                        /\ f[u].wait >= owed[u]
      OBVIOUS
    <3>1. CASE u = t
      BY <1>6, <2>2, <3>1 DEF BackoffInv, Backed
    <3>2. CASE u # t
      BY <1>6, <2>2, <3>2 DEF BackoffInv, Backed
    <3> QED BY <3>1, <3>2
  <2> QED BY <1>4, <1>5, <2>2, <2>4, <2>5, <2>6, WriteKeeps
<1> QED BY <1>7, <1>8 DEF Reconstruct

LEMMA ClaimKeeps ==
  ASSUME BackoffInv, NEW t \in Tasks, Claim(t)
  PROVE  BackoffInv'
<1>1. t # None /\ Kept \subseteq Tasks /\ None \notin Entries /\ None \notin Kept
  BY SchedulerTasks DEF Tasks
<1>2. CASE ~ Due(t)
  <2>1. worker' \in Workers /\ worker'.held = worker.held /\ Holding'
    BY <1>2 DEF Claim, BackoffInv, Typed, Workers, Holding
  <2> QED BY <1>2, <2>1, SameTasks DEF Claim
<1>3. CASE Due(t)
  <2>1. /\ entry' = [entry EXCEPT ![t].claim = Lease, ![t].failed = t \in Kept,
                                  ![t].revision = "same"]
        /\ worker' = [worker EXCEPT !.phase = "dispatch", !.due = @ \ {t}, !.held = t]
        /\ UNCHANGED <<need, owed>>
    BY <1>3 DEF Claim
  <2>2. entry[t] \in Entries /\ entry[t].wait = 0
    BY <1>3 DEF Due, BackoffInv, Typed
  <2>3. entry'[t] \in Entries /\ entry'[t].failed = (t \in Kept)
        /\ entry'[t].current = entry[t].current
    <3>1. entry'[t] = [entry[t] EXCEPT !.claim = Lease, !.failed = t \in Kept, !.revision = "same"]
      BY <2>1 DEF BackoffInv, Typed
    <3>2. (t \in Kept) \in BOOLEAN
      OBVIOUS
    <3> QED BY <2>2, <3>1, <3>2, SchedulerTimes DEF Entries
  <2>4. entry' \in [Tasks -> Entries \cup {None}] /\ \A u \in Tasks \ {t} : entry'[u] = entry[u]
    BY <2>1, <2>3 DEF BackoffInv, Typed
  <2>5. worker' \in Workers /\ worker'.held = t /\ worker'.phase = "dispatch"
    BY <2>1 DEF BackoffInv, Typed, Workers
  <2>6. worker.held = None
    BY DEF Claim, BackoffInv, Holding
  <2>7. t \in Kept => ~ (owed[t] > 0)
    BY <2>2 DEF BackoffInv, Backed, Typed
  <2>8. Typed'
    BY <2>1, <2>4, <2>5 DEF BackoffInv, Typed
  <2>9. Holding' /\ Attempted'
    BY <1>1, <2>3, <2>5 DEF Holding, Attempted
  <2>10. Planned'
    BY <1>1, <1>3, <2>1, <2>3, <2>4 DEF BackoffInv, Planned, Due
  <2>11. Backed'
    BY <1>1, <2>1, <2>4, <2>5, <2>7 DEF BackoffInv, Backed
  <2> QED BY <2>8, <2>9, <2>10, <2>11 DEF BackoffInv
<1> QED BY <1>2, <1>3

\* What finish() writes while the handler's task is released.
LEMMA ServedWorker ==
  ASSUME BackoffInv, worker.phase = "dispatch"
  PROVE  Served \in Workers /\ Served.held = None
BY DEF Served, BackoffInv, Typed, Workers

LEMMA FinishKeeps == BackoffInv /\ Finish => BackoffInv'
<1> SUFFICES ASSUME BackoffInv, Finish PROVE BackoffInv'
  OBVIOUS
<1> DEFINE f == IF Mine THEN Cancelled(worker.held) ELSE entry
<1>1. /\ f \in [Tasks -> Entries \cup {None}]
      /\ \A u \in Tasks \ {worker.held} : f[u] = entry[u]
      /\ \A u \in Tasks : f[u] \in {None, entry[u]}
  BY DEF Cancelled, BackoffInv, Typed
<1>2. Write(Released(f), Served) /\ UNCHANGED <<need, owed>> /\ worker.phase = "dispatch"
  BY DEF Finish
<1> HIDE DEF f
<1>3. Released(f) \in [Tasks -> Entries \cup {None}]
      /\ \A u \in Tasks : Alike(Released(f), f, u)
  BY <1>1, ReleasedAlike
<1>4. Kept \subseteq Tasks
  BY DEF Tasks
<1> DEFINE g == Released(f)
<1>5. \A u \in Tasks : Alike(g, f, u)
  BY <1>3
<1> HIDE DEF g
<1>6. \A u \in Kept : g[u] # None /\ g[u].current => need[u] # None
  <2> SUFFICES ASSUME NEW u \in Kept, g[u] # None, g[u].current PROVE need[u] # None
    OBVIOUS
  <2>1. f[u] # None
    BY <1>4, <1>5 DEF Alike
  <2>2. f[u].current
    BY <1>4, <1>5 DEF Alike
  <2>3. f[u] = entry[u]
    BY <1>1, <1>4, <2>1
  <2> QED BY <2>1, <2>2, <2>3 DEF BackoffInv, Planned
<1>7. \A u \in Kept : owed[u] > 0 =>
        /\ g[u] # None /\ g[u].current /\ g[u].failed /\ g[u].claim = 0
        /\ g[u].wait >= owed[u]
  <2> SUFFICES ASSUME NEW u \in Kept, owed[u] > 0
               PROVE  /\ g[u] # None /\ g[u].current /\ g[u].failed /\ g[u].claim = 0
                      /\ g[u].wait >= owed[u]
    OBVIOUS
  <2>1. f[u] = entry[u]
    <3>1. worker.held # u
      BY DEF BackoffInv, Backed
    <3> QED BY <1>1, <1>4, <3>1
  <2> QED BY <1>4, <1>5, <2>1 DEF Alike, BackoffInv, Backed
<1>8. g \in [Tasks -> Entries \cup {None}] /\ Write(g, Served)
  BY <1>2, <1>3 DEF g
<1> QED BY <1>2, <1>6, <1>7, <1>8, ServedWorker, WriteKeeps

LEMMA FinishFailedKeeps == BackoffInv /\ FinishFailed => BackoffInv'
<1> SUFFICES ASSUME BackoffInv, FinishFailed PROVE BackoffInv'
  OBVIOUS
<1> DEFINE t == worker.held
           f == IF Mine THEN [entry EXCEPT ![t].wait = Retry, ![t].claim = 0] ELSE entry
<1>1. Kept \subseteq Tasks /\ None \notin Entries /\ None \notin Kept /\ Retry \in Nat
  BY SchedulerTasks, SchedulerTimes DEF Tasks
<1>2. /\ worker.phase = "dispatch" /\ need' = need
      /\ Write(Released(f), Served)
      /\ owed' = IF Mine /\ entry[t].current /\ t \in Watched THEN [owed EXCEPT ![t] = Retry] ELSE owed
  BY DEF FinishFailed
<1>3. f \in [Tasks -> Entries \cup {None}] /\ \A u \in Tasks \ {t} : f[u] = entry[u]
  <2>1. CASE Mine /\ t \in Tasks
    <3>1. entry[t] \in Entries
      BY <2>1 DEF Mine, BackoffInv, Typed
    <3>2. [entry[t] EXCEPT !.wait = Retry, !.claim = 0] \in Entries
      BY <1>1, <3>1 DEF Entries
    <3> QED BY <2>1, <3>2 DEF BackoffInv, Typed
  <2>2. CASE ~ (Mine /\ t \in Tasks)
    BY <2>2 DEF BackoffInv, Typed
  <2> QED BY <2>1, <2>2
<1>4. t \in Tasks => (f[t] # None <=> entry[t] # None)
      /\ (entry[t] # None => f[t].current = entry[t].current /\ f[t].failed = entry[t].failed)
  <2> SUFFICES ASSUME t \in Tasks, Mine
               PROVE  (f[t] # None <=> entry[t] # None)
                      /\ (entry[t] # None => f[t].current = entry[t].current /\ f[t].failed = entry[t].failed)
    OBVIOUS
  <2>1. entry[t] \in Entries /\ f[t] = [entry[t] EXCEPT !.wait = Retry, !.claim = 0]
    BY DEF Mine, BackoffInv, Typed
  <2> HIDE DEF f, t
  <2>2. [entry[t] EXCEPT !.wait = Retry, !.claim = 0] \in Entries
    BY <1>1, <2>1 DEF Entries
  <2>3. f[t] \in Entries
    BY <2>1, <2>2
  <2> QED BY <1>1, <2>1, <2>3 DEF Entries
<1>5. t \in Kept /\ owed'[t] > 0 =>
        /\ owed'[t] = Retry /\ f[t] # None /\ f[t].current /\ f[t].failed /\ f[t].claim = 0 /\ f[t].wait = Retry
  <2> SUFFICES ASSUME t \in Kept, owed'[t] > 0
               PROVE  /\ owed'[t] = Retry /\ f[t] # None /\ f[t].current /\ f[t].failed
                      /\ f[t].claim = 0 /\ f[t].wait = Retry
    OBVIOUS
  <2>1. ~ (owed[t] > 0)
    BY DEF BackoffInv, Backed
  <2>2. Mine /\ entry[t].current /\ owed' = [owed EXCEPT ![t] = Retry]
    BY <1>2, <2>1
  <2>3. entry[t] \in Entries /\ f[t] = [entry[t] EXCEPT !.wait = Retry, !.claim = 0]
    BY <1>1, <2>2 DEF Mine, BackoffInv, Typed
  <2>4. entry[t].failed /\ owed'[t] = Retry
    BY <1>1, <2>2 DEF BackoffInv, Attempted, Typed
  <2>5. f[t].claim = 0 /\ f[t].wait = Retry
    <3>1. PICK g, h : g = entry[t] /\ h = f[t]
      OBVIOUS
    <3> HIDE DEF f, t
    <3>2. g \in Entries /\ h = [g EXCEPT !.wait = Retry, !.claim = 0]
      BY <2>3, <3>1
    <3>3. h.claim = 0 /\ h.wait = Retry
      BY <3>2 DEF Entries
    <3> QED BY <3>1, <3>3
  <2> HIDE DEF f
  <2> QED BY <1>1, <1>4, <2>2, <2>3, <2>4, <2>5
<1> HIDE DEF f
<1> DEFINE g == Released(f)
<1>6. g \in [Tasks -> Entries \cup {None}] /\ \A u \in Tasks : Alike(g, f, u)
  BY <1>3, ReleasedAlike
<1>7. owed' \in [Tasks -> Nat] /\ \A u \in Tasks \ {t} : owed'[u] = owed[u]
  BY <1>1, <1>2 DEF BackoffInv, Typed
<1> HIDE DEF g
<1>8. /\ entry' \in [Tasks -> Entries \cup {None}]
      /\ \A u \in Tasks : Alike(entry', g, u)
      /\ worker' \in Workers /\ worker'.held = None
  <2>1. Write(g, Served)
    BY <1>2 DEF g
  <2> QED BY <1>2, <1>6, <2>1, ServedWorker, Written, RestingWorkers
<1>9. Typed' /\ Holding' /\ Attempted'
  BY <1>1, <1>2, <1>7, <1>8 DEF BackoffInv, Typed, Holding, Attempted
<1>10. \A u \in Tasks : Alike(entry', f, u)
  BY <1>6, <1>8 DEF Alike
<1>11. Planned'
  <2> SUFFICES ASSUME NEW u \in Kept, f[u] # None, f[u].current PROVE need[u] # None
    BY <1>1, <1>2, <1>10 DEF Planned, Alike
  <2>1. CASE u = t
    BY <1>1, <1>4, <2>1 DEF BackoffInv, Planned
  <2>2. CASE u # t
    BY <1>1, <1>3, <2>2 DEF BackoffInv, Planned
  <2> QED BY <2>1, <2>2
<1>12. Backed'
  <2> SUFFICES ASSUME NEW u \in Kept, owed'[u] > 0
               PROVE  /\ f[u] # None /\ f[u].current /\ f[u].failed /\ f[u].claim = 0
                      /\ f[u].wait >= owed'[u]
    BY <1>1, <1>8, <1>10 DEF Backed, Alike
  <2>1. CASE u = t
    BY <1>1, <1>5, <2>1
  <2>2. CASE u # t
    BY <1>1, <1>3, <1>7, <2>2 DEF BackoffInv, Backed
  <2> QED BY <2>1, <2>2
<1> QED BY <1>9, <1>11, <1>12 DEF BackoffInv

LEMMA TickKeeps == BackoffInv /\ Tick => BackoffInv'
<1> SUFFICES ASSUME BackoffInv, Tick PROVE BackoffInv'
  OBVIOUS
<1>1. Kept \subseteq Tasks /\ None \notin Entries \cup Nat /\ None \notin Kept
  BY SchedulerTasks DEF Tasks
<1>2. \A n \in Nat : Passed(n) \in Nat /\ Passed(n) <= n /\ (Passed(n) > 0 => Passed(n) = n - 1)
  BY <1>1 DEF Passed
<1>3. \A t \in Tasks : (need'[t] = None <=> need[t] = None) /\ need'[t] \in Nat \cup {None}
  <2> SUFFICES ASSUME NEW t \in Tasks
               PROVE  (need'[t] = None <=> need[t] = None) /\ need'[t] \in Nat \cup {None}
    OBVIOUS
  <2>1. need'[t] = Passed(need[t]) /\ need[t] \in Nat \cup {None}
    BY DEF Tick, BackoffInv, Typed
  <2>2. CASE need[t] = None
    BY <2>1, <2>2 DEF Passed
  <2>3. CASE need[t] \in Nat
    BY <1>1, <1>2, <2>1, <2>3
  <2> QED BY <2>1, <2>2, <2>3
<1>4. \A t \in Tasks : owed'[t] = Passed(owed[t]) /\ owed[t] \in Nat
  BY DEF Tick, BackoffInv, Typed
<1>5. \A t \in Tasks : entry[t] = None => entry'[t] = None
  BY DEF Tick
<1>6. \A t \in Tasks : entry[t] # None =>
        /\ entry[t] \in Entries /\ entry'[t] \in Entries
        /\ entry'[t].current = entry[t].current /\ entry'[t].failed = entry[t].failed
        /\ entry'[t].wait = Passed(entry[t].wait) /\ entry'[t].claim = Passed(entry[t].claim)
  <2> SUFFICES ASSUME NEW t \in Tasks, entry[t] # None
               PROVE  /\ entry[t] \in Entries /\ entry'[t] \in Entries
                      /\ entry'[t].current = entry[t].current /\ entry'[t].failed = entry[t].failed
                      /\ entry'[t].wait = Passed(entry[t].wait)
                      /\ entry'[t].claim = Passed(entry[t].claim)
    OBVIOUS
  <2>1. entry[t] \in Entries
    BY DEF BackoffInv, Typed
  <2>2. entry'[t] = [entry[t] EXCEPT !.wait = Passed(entry[t].wait), !.claim = Passed(entry[t].claim)]
    <3>1. entry'[t] = [entry[t] EXCEPT !.wait = Passed(@), !.claim = Passed(@)]
      BY DEF Tick
    <3> QED BY <3>1
  <2>3. Passed(entry[t].wait) \in Nat /\ Passed(entry[t].claim) \in Nat
    BY <1>2, <2>1 DEF Entries
  <2> QED BY <2>1, <2>2, <2>3 DEF Entries
<1>7. need' \in [Tasks -> Nat \cup {None}] /\ owed' \in [Tasks -> Nat]
      /\ entry' \in [Tasks -> Entries \cup {None}]
  <2>1. need' \in [Tasks -> Nat \cup {None}]
    BY <1>3 DEF Tick
  <2>2. owed' \in [Tasks -> Nat]
    BY <1>2, <1>4 DEF Tick
  <2>3. entry' \in [Tasks -> Entries \cup {None}]
    BY <1>5, <1>6 DEF Tick
  <2> QED BY <2>1, <2>2, <2>3
<1>8. worker' = worker
  BY DEF Tick
<1>9. Typed' /\ Holding'
  BY <1>7, <1>8 DEF BackoffInv, Typed, Holding
<1>10. Attempted'
  BY <1>1, <1>6, <1>8 DEF BackoffInv, Attempted
<1>11. Planned'
  BY <1>1, <1>3, <1>5, <1>6 DEF BackoffInv, Planned
<1>12. Backed'
  <2> SUFFICES ASSUME NEW t \in Kept, owed'[t] > 0
               PROVE  /\ entry'[t] # None /\ entry'[t].current /\ entry'[t].failed
                      /\ entry'[t].claim = 0 /\ entry'[t].wait >= owed'[t]
                      /\ worker'.held # t
    BY DEF Backed
  <2>1. owed'[t] = owed[t] - 1 /\ owed[t] > 0 /\ owed[t] \in Nat
    BY <1>1, <1>2, <1>4
  <2>2. /\ entry[t] # None /\ entry[t].current /\ entry[t].failed
        /\ entry[t].claim = 0 /\ entry[t].wait >= owed[t] /\ worker.held # t
    BY <2>1 DEF BackoffInv, Backed
  <2>3. entry[t].wait \in Nat /\ Passed(entry[t].wait) >= entry[t].wait - 1 /\ Passed(0) = 0
    BY <1>1, <1>6, <2>2 DEF Entries, Passed
  <2>4. entry'[t].wait >= owed'[t]
    <3>1. entry'[t].wait = Passed(entry[t].wait) /\ Passed(entry[t].wait) \in Nat
      BY <1>1, <1>2, <1>6, <2>2, <2>3
    <3> QED BY <2>1, <2>2, <2>3, <3>1
  <2>5. entry'[t].claim = 0
    BY <1>1, <1>6, <2>2, <2>3
  <2> QED BY <1>1, <1>6, <1>8, <2>2, <2>4, <2>5
<1> QED BY <1>9, <1>10, <1>11, <1>12 DEF BackoffInv

LEMMA ChangeKeeps ==
  ASSUME BackoffInv, NEW t \in Tasks, NEW wait \in 0 .. MaxWait \cup {None}, Change(t, wait)
  PROVE  BackoffInv'
<1>1. Kept \subseteq Tasks /\ None \notin Entries /\ wait \in Nat \cup {None}
  BY SchedulerTasks, SchedulerTimes DEF Tasks
<1>2. /\ need' = [need EXCEPT ![t] = wait] /\ owed' = [owed EXCEPT ![t] = 0]
      /\ worker' = worker
      /\ entry' = IF t \in Kept /\ entry[t] # None THEN [entry EXCEPT ![t].current = FALSE] ELSE entry
  BY DEF Change
<1>3. /\ need' \in [Tasks -> Nat \cup {None}] /\ owed' \in [Tasks -> Nat] /\ owed'[t] = 0
      /\ \A u \in Tasks \ {t} : need'[u] = need[u] /\ owed'[u] = owed[u]
  BY <1>1, <1>2 DEF BackoffInv, Typed
<1>4. /\ entry' \in [Tasks -> Entries \cup {None}]
      /\ \A u \in Tasks \ {t} : entry'[u] = entry[u]
      /\ t \in Kept => \/ entry'[t] = None /\ entry[t] = None
                       \/ /\ entry'[t] # None /\ entry[t] # None /\ ~ entry'[t].current
                          /\ entry'[t].failed = entry[t].failed
  <2>1. CASE t \in Kept /\ entry[t] # None
    <3>1. entry[t] \in Entries /\ entry'[t] = [entry[t] EXCEPT !.current = FALSE]
      BY <1>2, <2>1 DEF BackoffInv, Typed
    <3>2. entry'[t] \in Entries /\ ~ entry'[t].current /\ entry'[t].failed = entry[t].failed
      BY <3>1 DEF Entries
    <3> QED BY <1>1, <1>2, <2>1, <3>2 DEF BackoffInv, Typed
  <2>2. CASE ~ (t \in Kept /\ entry[t] # None)
    BY <1>2, <2>2 DEF BackoffInv, Typed
  <2> QED BY <2>1, <2>2
<1>5. Typed' /\ Holding'
  BY <1>2, <1>3, <1>4 DEF BackoffInv, Typed, Holding
<1>6. Attempted'
  BY <1>1, <1>2, <1>4 DEF BackoffInv, Attempted
<1>7. Planned'
  BY <1>1, <1>3, <1>4 DEF BackoffInv, Planned
<1>8. Backed'
  BY <1>1, <1>2, <1>3, <1>4 DEF BackoffInv, Backed
<1> QED BY <1>5, <1>6, <1>7, <1>8 DEF BackoffInv

\* A task that is no kept one is scheduled by its owner.
LEMMA AnnouncementKeeps ==
  ASSUME BackoffInv, NEW t \in Deadline, NEW wait \in Nat, NEW pushed \in BOOLEAN,
         ScheduleWake(t, wait, pushed), UNCHANGED <<need, owed>>
  PROVE  BackoffInv'
<1>1. t \in Tasks /\ t \notin Kept /\ Kept \subseteq Tasks /\ wait \in Nat
  BY SchedulerTasks, SchedulerTimes DEF Tasks
<1>2. PICK r \in Revisions(t) : entry' = [Scheduled(t, wait, r) EXCEPT ![t].pushed = pushed]
  BY DEF ScheduleWake
<1> DEFINE g == Scheduled(t, wait, r)
<1>3. g = Scheduled(t, wait, r) /\ r \in {"same", "anew", "beyond"} /\ Typed
  BY RevisionsIn DEF BackoffInv
<1>4. entry' = [g EXCEPT ![t].pushed = pushed]
  BY <1>2
<1> HIDE DEF g
<1>5. /\ g \in [Tasks -> Entries \cup {None}] /\ g[t] \in Entries
      /\ \A u \in Tasks \ {t} : g[u] = entry[u]
  BY <1>1, <1>3, ScheduledIs
<1>6. entry' \in [Tasks -> Entries \cup {None}] /\ \A u \in Tasks \ {t} : entry'[u] = entry[u]
  <2>1. [g[t] EXCEPT !.pushed = pushed] \in Entries
    BY <1>5 DEF Entries
  <2> QED BY <1>4, <1>5, <2>1
<1>7. worker' \in Workers /\ worker'.held = worker.held /\ worker'.phase = worker.phase
  BY DEF ScheduleWake, BackoffInv, Typed, Workers
<1>8. Typed' /\ Holding'
  BY <1>6, <1>7 DEF BackoffInv, Typed, Holding
<1>9. \A u \in Kept : entry'[u] = entry[u]
  BY <1>1, <1>6
<1>10. Attempted' /\ Planned' /\ Backed'
  BY <1>7, <1>9 DEF BackoffInv, Attempted, Planned, Backed
<1> QED BY <1>8, <1>10 DEF BackoffInv

\* The steps that leave the tasks and the delays alone.
LEMMA WorkerKeeps ==
  ASSUME BackoffInv, ListDue \/ Close \/ EndWake \/ Fail \/ AlarmFires \/ Event \/ Stop
  PROVE  BackoffInv'
<1>1. UNCHANGED <<need, entry, owed>>
  BY DEF ListDue, Close, EndWake, Fail, AlarmFires, Event, Stop
<1>2. worker \in Workers
  BY DEF BackoffInv, Typed
<1>3. CASE ListDue
  <2>1. worker' = [worker EXCEPT !.phase = "serve", !.due = {t \in Tasks : Due(t)}]
        /\ worker.phase = "reconstruct"
    BY <1>3 DEF ListDue
  <2>2. worker' \in Workers /\ worker'.held = worker.held /\ worker.held = None
    BY <1>2, <2>1 DEF Workers, BackoffInv, Holding
  <2> QED BY <1>1, <2>2, SameTasks DEF Holding
<1>4. CASE Fail
  <2>1. CASE worker.phase # "dispatch" /\ worker' = [worker EXCEPT !.todo = <<>>]
    <3>1. <<>> \in Seq(Tasks)
      OBVIOUS
    <3>2. worker' \in Workers /\ worker'.held = worker.held
      BY <1>2, <2>1, <3>1 DEF Workers
    <3>3. worker.held = None
      BY <2>1 DEF BackoffInv, Holding
    <3> QED BY <1>1, <3>2, <3>3, SameTasks DEF Holding
  <2>2. CASE worker' = Idle
    BY <1>1, <2>2, RestingWorkers, SameTasks DEF Holding
  <2> QED BY <1>4, <2>1, <2>2 DEF Fail
<1>5. CASE Close \/ EndWake \/ AlarmFires \/ Event \/ Stop
  <2>1. \/ worker' \in Workers /\ worker'.held = None
        \/ worker' = worker
    BY <1>5, RestingWorkers DEF Close, EndWake, AlarmFires, Event, Stop, Wakes
  <2>2. Holding'
    BY <2>1 DEF Holding, BackoffInv
  <2> QED BY <1>1, <1>2, <2>1, <2>2, SameTasks
<1> QED BY <1>3, <1>4, <1>5

LEMMA DieKeeps == BackoffInv /\ Die => BackoffInv'
<1> SUFFICES ASSUME BackoffInv, Die PROVE BackoffInv'
  OBVIOUS
<1>1. /\ worker' = Off /\ UNCHANGED <<need, owed>> /\ entry' = Released(entry)
  BY DEF Die
<1>2. entry' \in [Tasks -> Entries \cup {None}] /\ \A t \in Tasks : Alike(entry', entry, t)
  BY <1>1, ReleasedAlike DEF BackoffInv, Typed
<1>3. Kept \subseteq Tasks /\ None \notin Kept
  BY SchedulerTasks DEF Tasks
<1>4. Typed' /\ Holding' /\ Attempted'
  BY <1>1, <1>2, <1>3, RestingWorkers DEF BackoffInv, Typed, Holding, Attempted
<1>5. Planned'
  BY <1>1, <1>2, <1>3 DEF BackoffInv, Planned, Alike
<1>6. Backed'
  <2> SUFFICES ASSUME NEW t \in Kept, owed[t] > 0
               PROVE  /\ entry'[t] # None /\ entry'[t].current /\ entry'[t].failed
                      /\ entry'[t].claim = 0 /\ entry'[t].wait >= owed[t]
    BY <1>1, <1>3, RestingWorkers DEF Backed
  <2> QED BY <1>2, <1>3 DEF BackoffInv, Backed, Alike
<1> QED BY <1>4, <1>5, <1>6 DEF BackoffInv

--------------------------------------------------------------------------------
\* The theorems

\* The inductive invariant: what is left of a delay is backed by a task that no
\* reconstruction moves and no wake claims.
THEOREM Invariance == Spec => []BackoffInv
<1>1. Init => BackoffInv
  <2> SUFFICES ASSUME Init PROVE BackoffInv
    OBVIOUS
  <2>1. Kept \subseteq Tasks /\ None \notin Tasks
    BY SchedulerTasks DEF Tasks
  <2> QED BY <2>1, RestingWorkers
          DEF Init, BackoffInv, Typed, Holding, Attempted, Planned, Backed
<1>2. BackoffInv /\ [Next]_vars => BackoffInv'
  <2> SUFFICES ASSUME BackoffInv, [Next]_vars PROVE BackoffInv'
    OBVIOUS
  <2>1. CASE Reconstruct
    BY <2>1, ReconstructKeeps
  <2>2. CASE \E t \in Tasks : Claim(t)
    BY <2>2, ClaimKeeps
  <2>3. CASE Finish
    BY <2>3, FinishKeeps
  <2>4. CASE FinishFailed
    BY <2>4, FinishFailedKeeps
  <2>5. CASE ListDue \/ Close \/ EndWake \/ Fail \/ AlarmFires \/ Event \/ Stop
    BY <2>5, WorkerKeeps
  <2>6. CASE Die
    BY <2>6, DieKeeps
  <2>7. CASE Tick
    BY <2>7, TickKeeps
  <2>8. CASE \E t \in Deadline : Announce(t)
    <3>1. PICK t \in Deadline : Announce(t)
      BY <2>8
    <3>2. t \in Tasks
      BY DEF Tasks
    <3>3. need[t] = None \/ need[t] \in Nat
      BY <3>2 DEF BackoffInv, Typed
    <3>4. PICK wait \in IF need[t] = None THEN 0 .. MaxWait ELSE {need[t]} :
                 ScheduleWake(t, wait, FALSE)
      BY <3>1 DEF Announce
    <3>5. wait \in Nat /\ UNCHANGED <<need, owed>>
      BY <3>1, <3>3, <3>4, SchedulerTimes DEF Announce
    <3> QED BY <3>4, <3>5, AnnouncementKeeps
  <2>9. CASE \E t \in Deadline : PushBack(t)
    <3>1. PICK t \in Deadline : PushBack(t)
      BY <2>9
    <3>2. t \in Tasks
      BY DEF Tasks
    <3>3. need[t] \in Nat
      BY <3>1, <3>2 DEF PushBack, BackoffInv, Typed
    <3>4. PICK wait \in need[t] + 1 .. MaxWait : ScheduleWake(t, wait, TRUE)
      BY <3>1 DEF PushBack
    <3>5. wait \in Nat /\ UNCHANGED <<need, owed>>
      BY <3>1, <3>3, SchedulerTimes DEF PushBack
    <3> QED BY <3>4, <3>5, AnnouncementKeeps
  <2>10. CASE \E t \in Tasks : \E wait \in 0 .. MaxWait \cup {None} : Change(t, wait)
    BY <2>10, ChangeKeeps
  <2>11. CASE UNCHANGED vars
    <3>1. UNCHANGED <<need, entry, owed, worker>>
      BY <2>11 DEF vars
    <3>2. worker' \in Workers /\ worker'.held = worker.held /\ Holding'
      BY <3>1 DEF BackoffInv, Typed, Holding
    <3> QED BY <3>1, <3>2, SameTasks
  <2> QED BY <2>1, <2>2, <2>3, <2>4, <2>5, <2>6, <2>7, <2>8, <2>9, <2>10, <2>11 DEF Next, Wake
<1> QED BY <1>1, <1>2, PTL DEF Spec

\* The refresh of the signed access is not tried again before its backoff is over, whatever
\* wakes the worker meanwhile and however often it dies.
THEOREM Backoff == Spec => []BackoffKept
<1>1. BackoffInv => BackoffKept
  <2> SUFFICES ASSUME BackoffInv, NEW t \in Kept, worker.held = t PROVE owed[t] = 0
    BY DEF BackoffKept
  <2>1. owed[t] \in Nat
    BY DEF BackoffInv, Typed, Tasks
  <2> QED BY <2>1 DEF BackoffInv, Backed
<1> QED BY <1>1, Invariance, PTL

--------------------------------------------------------------------------------
\* The alarm

\* The alarm is set for the earliest of the tasks.
LEMMA ArmedIs ==
  ASSUME NEW f \in [Tasks -> Entries \cup {None}]
  PROVE  /\ Armed(f) \in Nat \cup {None}
         /\ \A t \in Present(f) : Armed(f) \in Nat /\ Armed(f) <= f[t].wait
<1> DEFINE times == {f[t].wait : t \in Present(f)}
           order == {ss \in Nat \X Nat : ss[1] < ss[2]}
<1>1. CASE Present(f) = {}
  BY <1>1 DEF Armed
<1>2. CASE Present(f) # {}
  <2>1. times \subseteq Nat /\ times # {}
    BY <1>2 DEF Present, Entries
  <2>2. IsWellFoundedOn(order, Nat)
    <3>1. order = OpToRel(<, Nat)
      BY DEF OpToRel
    <3> QED BY <3>1, NatLessThanWellFounded
  <2> HIDE DEF order
  <2>3. PICK n \in times : \A m \in times : ~ (<<m, n>> \in order)
    <3> HIDE DEF times
    <3> QED BY <2>1, <2>2, WFMin
  <2>4. \A m \in times : n <= m
    <3> HIDE DEF times
    <3> SUFFICES ASSUME NEW m \in times PROVE n <= m
      OBVIOUS
    <3>1. m \in Nat /\ n \in Nat
      BY <2>1
    <3>2. m < n => <<m, n>> \in order
      BY <3>1 DEF order
    <3> QED BY <3>1, <3>2, <2>3
  <2>5. Min(times) \in times /\ \A m \in times : Min(times) <= m
    <3> HIDE DEF times
    <3> QED BY <2>4 DEF Min
  <2>6. Armed(f) = Min(times)
    BY <1>2 DEF Armed
  <2>7. \A t \in Present(f) : f[t].wait \in times
    OBVIOUS
  <2> HIDE DEF times
  <2> QED BY <2>1, <2>5, <2>6, <2>7
<1> QED BY <1>1, <1>2

--------------------------------------------------------------------------------
\* The types

\* Times are within their bounds.
Bounded ==
  \A t \in Tasks : (need[t] # None => need[t] <= MaxWait) /\ owed[t] <= Retry

\* A revision is told from others only while it is held.
RevisionHeld == \A t \in Tasks : entry[t] # None /\ entry[t].revision # "beyond" => worker.held = t

\* A handler runs for a task.
HandlerHolds == worker.phase = "dispatch" => worker.held # None

Others ==
  /\ alarm \in Nat \cup {None}
  /\ telling \subseteq Deadline /\ stranded \subseteq Immediate
  /\ dirty \in BOOLEAN /\ troubles \in 0 .. MaxTroubles

LEMMA TypesAre == BackoffInv => (TypeOK <=> Bounded /\ RevisionHeld /\ HandlerHolds /\ Others)
<1> SUFFICES ASSUME BackoffInv
             PROVE  TypeOK <=> Bounded /\ RevisionHeld /\ HandlerHolds /\ Others
  OBVIOUS
<1>1. None \notin Nat /\ MaxWait \in Nat /\ Retry \in Nat
  BY SchedulerTasks, SchedulerTimes
<1>2. need \in [Tasks -> Nat \cup {None}] /\ owed \in [Tasks -> Nat] /\ worker \in Workers
      /\ entry \in [Tasks -> Entries \cup {None}]
  BY DEF BackoffInv, Typed
<1>3. Bounded <=> /\ need \in [Tasks -> 0 .. MaxWait \cup {None}]
                  /\ owed \in [Tasks -> 0 .. Retry]
  <2>1. ASSUME Bounded
        PROVE  need \in [Tasks -> 0 .. MaxWait \cup {None}] /\ owed \in [Tasks -> 0 .. Retry]
    BY <1>1, <1>2, <2>1 DEF Bounded
  <2>2. ASSUME need \in [Tasks -> 0 .. MaxWait \cup {None}], owed \in [Tasks -> 0 .. Retry]
        PROVE  Bounded
    BY <1>1, <2>2 DEF Bounded
  <2> QED BY <2>1, <2>2
<1>4. RevisionHeld <=> \A t \in Present(entry) : entry[t].revision # "beyond" => worker.held = t
  BY DEF RevisionHeld, Present
<1>5. HandlerHolds <=> (worker.phase = "dispatch" <=> worker.held # None)
  BY DEF HandlerHolds, BackoffInv, Holding
<1>6. /\ worker.phase \in {"off", "idle", "reconstruct", "serve", "dispatch", "close"}
      /\ worker.due \subseteq Tasks /\ worker.seen \subseteq Immediate
  BY <1>2 DEF Workers
<1> QED BY <1>2, <1>3, <1>4, <1>5, <1>6 DEF TypeOK, Others

LEMMA BoundedKept == BackoffInv /\ Bounded /\ [Next]_vars => Bounded'
<1> SUFFICES ASSUME BackoffInv, Bounded, [Next]_vars PROVE Bounded'
  OBVIOUS
<1>1. None \notin Nat /\ MaxWait \in Nat /\ Retry \in Nat \ {0} /\ None \notin Tasks
  BY SchedulerTasks, SchedulerTimes
<1>2. need \in [Tasks -> Nat \cup {None}] /\ owed \in [Tasks -> Nat]
  BY DEF BackoffInv, Typed
<1>3. CASE Tick
  <2> SUFFICES ASSUME NEW t \in Tasks
               PROVE  (need'[t] # None => need'[t] <= MaxWait) /\ owed'[t] <= Retry
    BY DEF Bounded
  <2>1. need'[t] = Passed(need[t]) /\ owed'[t] = Passed(owed[t])
    BY <1>3 DEF Tick
  <2>2. (need[t] # None => need[t] <= MaxWait) /\ owed[t] <= Retry
        /\ need[t] \in Nat \cup {None} /\ owed[t] \in Nat
    BY <1>2 DEF Bounded
  <2> QED BY <1>1, <2>1, <2>2 DEF Passed
<1>4. CASE \E t \in Tasks : \E wait \in 0 .. MaxWait \cup {None} : Change(t, wait)
  BY <1>1, <1>2, <1>4 DEF Change, Bounded
<1>5. CASE FinishFailed
  <2>1. UNCHANGED need /\ (owed' = [owed EXCEPT ![worker.held] = Retry] \/ owed' = owed)
    BY <1>5 DEF FinishFailed
  <2> QED BY <1>1, <1>2, <2>1 DEF Bounded
<1>6. CASE UNCHANGED <<need, owed>>
  BY <1>6 DEF Bounded
<1>7. \/ Tick \/ FinishFailed
      \/ \E t \in Tasks : \E wait \in 0 .. MaxWait \cup {None} : Change(t, wait)
      \/ UNCHANGED <<need, owed>>
  BY DEF Next, Wake, vars, Reconstruct, ListDue, Claim, Finish, Close, EndWake, Fail, AlarmFires, Event,
         Stop, Die, Announce, PushBack
<1> QED BY <1>3, <1>4, <1>5, <1>6, <1>7

\* What nobody holds any more is beyond the claimed copy.
LEMMA ReleasedBeyond ==
  ASSUME NEW f \in [Tasks -> Entries \cup {None}], NEW t \in Tasks, Released(f)[t] # None
  PROVE  Released(f)[t].revision = "beyond"
<1>1. f[t] # None
  BY DEF Released
<1>2. f[t] \in Entries
  BY <1>1
<1>3. Released(f)[t] = [f[t] EXCEPT !.revision = "beyond"]
  BY <1>1 DEF Released
<1> QED BY <1>2, <1>3 DEF Entries

\* The task that is reconstructed: its time and its revision.
LEMMA ReplacedTime ==
  ASSUME BackoffInv, NEW t \in Tasks, NEW r
  PROVE  Replaced(t, r)[t].wait = Wait(t) /\ Replaced(t, r)[t].revision = r
<1> DEFINE g == Scheduled(t, Wait(t), r)
<1>1. g[t] = [wait |-> Wait(t), claim |-> 0, revision |-> r, current |-> TRUE, pushed |-> FALSE,
              failed |-> entry[t] # None /\ entry[t].failed]
  BY DEF Scheduled, BackoffInv, Typed
<1>2. g[t].wait = Wait(t) /\ g[t].revision = r
  BY <1>1
<1>3. [g EXCEPT ![t].failed = FALSE][t] = [g[t] EXCEPT !.failed = FALSE]
  BY DEF Scheduled, BackoffInv, Typed
<1>4. [g[t] EXCEPT !.failed = FALSE].wait = Wait(t) /\ [g[t] EXCEPT !.failed = FALSE].revision = r
  <2> HIDE DEF g
  <2> QED BY <1>1, <1>2
<1>5. Replaced(t, r) \in {g, [g EXCEPT ![t].failed = FALSE]}
  BY DEF Replaced
<1> HIDE DEF g
<1> QED BY <1>2, <1>3, <1>4, <1>5

\* A write of tasks that nobody holds, all of them beyond.
LEMMA WriteBeyond ==
  ASSUME NEW f \in [Tasks -> Entries \cup {None}], NEW next, Write(f, next),
         \A t \in Tasks : f[t] # None => f[t].revision = "beyond"
  PROVE  RevisionHeld'
<1>1. CASE entry' = f
  BY <1>1 DEF RevisionHeld
<1>2. CASE entry' = Released(f)
  BY <1>2, ReleasedBeyond DEF RevisionHeld
<1> QED BY <1>1, <1>2 DEF Write

LEMMA RevisionHeldKept == BackoffInv /\ BackoffInv' /\ RevisionHeld /\ [Next]_vars => RevisionHeld'
<1> SUFFICES ASSUME BackoffInv, BackoffInv', RevisionHeld, [Next]_vars PROVE RevisionHeld'
  OBVIOUS
<1>1. None \notin Tasks /\ None \notin Entries /\ Deadline \subseteq Tasks
  BY SchedulerTasks DEF Tasks
<1>2. entry \in [Tasks -> Entries \cup {None}] /\ entry' \in [Tasks -> Entries \cup {None}]
  BY DEF BackoffInv, Typed
<1>3. worker \in Workers /\ (worker.held # None => worker.phase = "dispatch")
  BY DEF BackoffInv, Typed, Holding
<1>4. worker.held = None => \A t \in Tasks : entry[t] # None => entry[t].revision = "beyond"
  BY <1>1 DEF RevisionHeld
<1>5. CASE Reconstruct
  <2> DEFINE t == Head(worker.todo)
             next == [worker EXCEPT !.todo = Tail(@), !.seen = Seen]
  <2>1. worker.held = None /\ t \in Tasks
    BY <1>3, <1>5 DEF Reconstruct, Workers
  <2>2. CASE ~ Wanted(t) /\ Write(Cancelled(t), next)
    <3>1. /\ Cancelled(t) \in [Tasks -> Entries \cup {None}]
          /\ \A u \in Tasks : Cancelled(t)[u] \in {None, entry[u]}
      BY <1>2, <2>1 DEF Cancelled
    <3>2. Write(Cancelled(t), next)
      BY <2>2
    <3> HIDE DEF t, next
    <3> QED BY <1>4, <2>1, <3>1, <3>2, WriteBeyond
  <2>3. CASE Wanted(t) /\ \E r \in Revisions(t) : Write(Replaced(t, r), next)
    <3>1. PICK r \in Revisions(t) : Write(Replaced(t, r), next)
      BY <2>3
    <3> DEFINE f == Replaced(t, r)
    <3> HIDE DEF t, next
    <3>2. r = "beyond"
      BY <1>1, <2>1 DEF Revisions
    <3>3. f \in [Tasks -> Entries \cup {None}] /\ \A u \in Tasks \ {t} : f[u] = entry[u]
      BY <2>1, <2>3, ReplacedIs
    <3>4. f[t].revision = "beyond"
      BY <2>1, <3>2, ReplacedTime
    <3>5. Write(f, next)
      BY <3>1
    <3> HIDE DEF f
    <3> QED BY <1>4, <2>1, <3>3, <3>4, <3>5, WriteBeyond
  <2> QED BY <1>5, <2>2, <2>3 DEF Reconstruct
<1>6. CASE \E t \in Tasks : Claim(t)
  <2>1. PICK t \in Tasks : Claim(t)
    BY <1>6
  <2>2. worker.held = None
    BY <1>3, <2>1 DEF Claim
  <2>3. CASE Due(t)
    <3>1. worker'.held = t
      BY <1>3, <2>1, <2>3 DEF Claim, Workers
    <3>2. \A u \in Tasks \ {t} : entry'[u] = entry[u]
      BY <1>2, <2>1, <2>3 DEF Claim
    <3> QED BY <1>4, <2>2, <3>1, <3>2 DEF RevisionHeld
  <2>4. CASE ~ Due(t)
    <3>1. entry' = entry
      BY <2>1, <2>4 DEF Claim
    <3> QED BY <1>4, <2>2, <3>1 DEF RevisionHeld
  <2> QED BY <2>3, <2>4
<1>7. CASE Finish
  <2> DEFINE f == IF Mine THEN Cancelled(worker.held) ELSE entry
  <2>1. f \in [Tasks -> Entries \cup {None}]
    BY <1>2 DEF Cancelled
  <2>2. Write(Released(f), Served)
    BY <1>7 DEF Finish
  <2> HIDE DEF f
  <2> QED BY <2>1, <2>2, ReleasedAlike, ReleasedBeyond, WriteBeyond
<1>8. CASE FinishFailed
  <2> DEFINE f == IF Mine THEN [entry EXCEPT ![worker.held].wait = Retry, ![worker.held].claim = 0]
                  ELSE entry
  <2>1. f \in [Tasks -> Entries \cup {None}]
    <3>1. CASE Mine /\ worker.held \in Tasks
      <4>1. entry[worker.held] \in Entries
        BY <1>2, <3>1 DEF Mine
      <4>2. [entry[worker.held] EXCEPT !.wait = Retry, !.claim = 0] \in Entries
        BY <4>1, SchedulerTimes DEF Entries
      <4> QED BY <1>2, <3>1, <4>2
    <3>2. CASE ~ (Mine /\ worker.held \in Tasks)
      BY <1>2, <3>2
    <3> QED BY <3>1, <3>2
  <2>2. Write(Released(f), Served)
    BY <1>8 DEF FinishFailed
  <2> HIDE DEF f
  <2> QED BY <2>1, <2>2, ReleasedAlike, ReleasedBeyond, WriteBeyond
<1>9. CASE Die
  <2>1. entry' = Released(entry)
    BY <1>9 DEF Die
  <2> QED BY <1>2, <2>1, ReleasedBeyond DEF RevisionHeld
<1>10. CASE Tick
  <2> SUFFICES ASSUME NEW t \in Tasks, entry'[t] # None, entry'[t].revision # "beyond"
               PROVE  worker'.held = t
    BY DEF RevisionHeld
  <2>1. worker' = worker /\ entry[t] # None
    BY <1>10 DEF Tick
  <2>2. entry'[t] = [entry[t] EXCEPT !.wait = Passed(@), !.claim = Passed(@)]
    BY <1>10, <2>1 DEF Tick
  <2>3. entry[t] \in Entries
    BY <1>2, <2>1
  <2>4. entry'[t].revision = entry[t].revision
    BY <2>2, <2>3 DEF Entries
  <2> QED BY <2>1, <2>4 DEF RevisionHeld
<1>11. CASE \E t \in Tasks : \E wait \in 0 .. MaxWait \cup {None} : Change(t, wait)
  <2>1. PICK t \in Tasks, wait \in 0 .. MaxWait \cup {None} : Change(t, wait)
    BY <1>11
  <2>2. worker' = worker
        /\ entry' = IF t \in Kept /\ entry[t] # None THEN [entry EXCEPT ![t].current = FALSE] ELSE entry
    BY <2>1 DEF Change
  <2>3. \A x \in Entries : [x EXCEPT !.current = FALSE].revision = x.revision
    BY DEF Entries
  <2>4. \A u \in Tasks : entry'[u] # None => entry[u] # None /\ entry'[u].revision = entry[u].revision
    BY <1>2, <2>2, <2>3
  <2> QED BY <2>2, <2>4 DEF RevisionHeld
<1>12. CASE \E t \in Deadline : Announce(t) \/ PushBack(t)
  <2>0. PICK t \in Deadline : \E wait, pushed : ScheduleWake(t, wait, pushed)
    BY <1>12 DEF Announce, PushBack
  <2>1. PICK wait, pushed : ScheduleWake(t, wait, pushed)
    BY <2>0
  <2>2. PICK r \in Revisions(t) : entry' = [Scheduled(t, wait, r) EXCEPT ![t].pushed = pushed]
    BY <2>1 DEF ScheduleWake
  <2> DEFINE g == Scheduled(t, wait, r)
  <2>3. g[t] = [wait |-> wait, claim |-> 0, revision |-> r, current |-> TRUE, pushed |-> FALSE,
                failed |-> entry[t] # None /\ entry[t].failed]
        /\ DOMAIN g = Tasks /\ \A u \in Tasks \ {t} : g[u] = entry[u]
    BY <1>1, <1>2 DEF Scheduled
  <2>4. entry' = [g EXCEPT ![t].pushed = pushed]
    BY <2>2
  <2> HIDE DEF g
  <2>5. entry'[t] = [g[t] EXCEPT !.pushed = pushed] /\ \A u \in Tasks \ {t} : entry'[u] = entry[u]
    BY <1>1, <2>3, <2>4
  <2>6. entry'[t].revision = r
    BY <2>3, <2>5
  <2>7. worker'.held = worker.held
    BY <1>3, <2>1 DEF ScheduleWake, Workers
  <2>8. worker.held # t => r = "beyond"
    BY DEF Revisions
  <2> QED BY <2>5, <2>6, <2>7, <2>8 DEF RevisionHeld
<1>13. CASE ListDue \/ Close \/ EndWake \/ Fail \/ AlarmFires \/ Event \/ Stop \/ UNCHANGED vars
  <2>1. entry' = entry
    BY <1>13 DEF ListDue, Close, EndWake, Fail, AlarmFires, Event, Stop, vars
  <2>2. worker' = worker \/ worker.phase # "dispatch"
    <3>1. CASE ListDue \/ Close \/ EndWake \/ Fail
      BY <3>1 DEF ListDue, Close, EndWake, Fail
    <3>2. CASE AlarmFires \/ Event
      BY <3>2 DEF AlarmFires, Event
    <3>3. CASE Stop
      BY <3>3 DEF Stop, Idle, Off
    <3> QED BY <1>13, <3>1, <3>2, <3>3 DEF vars
  <2>3. CASE worker' = worker
    BY <2>1, <2>3 DEF RevisionHeld
  <2>4. CASE worker.phase # "dispatch"
    BY <1>3, <1>4, <2>1, <2>4 DEF RevisionHeld
  <2> QED BY <2>2, <2>3, <2>4
<1> QED BY <1>5, <1>6, <1>7, <1>8, <1>9, <1>10, <1>11, <1>12, <1>13 DEF Next, Wake

LEMMA HandlerHoldsKept == BackoffInv /\ HandlerHolds /\ [Next]_vars => HandlerHolds'
<1> SUFFICES ASSUME BackoffInv, HandlerHolds, [Next]_vars PROVE HandlerHolds'
  OBVIOUS
<1>1. worker \in Workers /\ None \notin Tasks
  BY SchedulerTasks DEF BackoffInv, Typed
<1>2. Off.phase = "off" /\ Idle.phase = "idle" /\ Woken.phase = "reconstruct"
      /\ [Woken EXCEPT !.phase = "close"].phase = "close"
  BY DEF Off, Idle, Woken
<1>3. CASE worker'.phase # "dispatch"
  BY <1>3 DEF HandlerHolds
<1>4. CASE worker' = worker
  BY <1>4 DEF HandlerHolds
<1>5. CASE worker'.phase = worker.phase /\ worker'.held = worker.held
  BY <1>5 DEF HandlerHolds
<1>6. CASE \E t \in Tasks : Claim(t)
  <2>1. PICK t \in Tasks : Claim(t)
    BY <1>6
  <2>2. worker' = [worker EXCEPT !.phase = "dispatch", !.due = @ \ {t}, !.held = t]
        \/ (worker' = [worker EXCEPT !.due = @ \ {t}] /\ worker.phase = "serve")
    BY <2>1 DEF Claim
  <2>3. worker'.held = t \/ worker'.phase = "serve"
    BY <1>1, <2>2 DEF Workers
  <2> QED BY <1>1, <2>3 DEF HandlerHolds
<1>7. CASE Reconstruct \/ Finish \/ FinishFailed
  <2>1. Served.phase = "serve"
    BY <1>1 DEF Served, Workers
  <2>2. worker' \in {Off, Served, [worker EXCEPT !.todo = Tail(@), !.seen = Seen]}
    BY <1>7 DEF Reconstruct, Finish, FinishFailed, Write
  <2>3. [worker EXCEPT !.todo = Tail(@), !.seen = Seen].phase = worker.phase
        /\ [worker EXCEPT !.todo = Tail(@), !.seen = Seen].held = worker.held
    BY <1>1 DEF Workers
  <2> QED BY <1>2, <1>3, <1>5, <2>1, <2>2, <2>3
<1>8. CASE ListDue \/ Close \/ EndWake \/ Fail \/ AlarmFires \/ Event \/ Stop \/ Die
  <2>1. \/ worker' \in {Off, Idle, Woken, [Woken EXCEPT !.phase = "close"], worker}
        \/ worker' = [worker EXCEPT !.phase = "serve", !.due = {t \in Tasks : Due(t)}]
        \/ worker' = [worker EXCEPT !.todo = <<>>]
    BY <1>8 DEF ListDue, Close, EndWake, Fail, AlarmFires, Event, Stop, Die, Wakes
  <2>2. [worker EXCEPT !.phase = "serve", !.due = {t \in Tasks : Due(t)}].phase = "serve"
        /\ [worker EXCEPT !.todo = <<>>].phase = worker.phase
        /\ [worker EXCEPT !.todo = <<>>].held = worker.held
    BY <1>1 DEF Workers
  <2> QED BY <1>2, <1>3, <1>4, <1>5, <2>1, <2>2
<1>9. CASE \E t \in Deadline : Announce(t) \/ PushBack(t)
  <2>0. PICK t \in Deadline : \E wait, pushed : ScheduleWake(t, wait, pushed)
    BY <1>9 DEF Announce, PushBack
  <2>1. PICK wait, pushed : ScheduleWake(t, wait, pushed)
    BY <2>0
  <2>2. worker'.phase = worker.phase /\ worker'.held = worker.held
    BY <1>1, <2>1 DEF ScheduleWake, Workers
  <2> QED BY <1>5, <2>2
<1>10. CASE Tick \/ (\E t \in Tasks : \E wait \in 0 .. MaxWait \cup {None} : Change(t, wait))
            \/ UNCHANGED vars
  BY <1>4, <1>10 DEF Tick, Change, vars
<1> QED BY <1>6, <1>7, <1>8, <1>9, <1>10 DEF Next, Wake

\* A write leaves the alarm a time or none.
LEMMA WriteOthers ==
  ASSUME BackoffInv', Others, NEW f, NEW next, Write(f, next), UNCHANGED stranded
  PROVE  Others'
<1>1. CASE Trouble /\ dirty' = TRUE /\ telling' = {} /\ UNCHANGED alarm
  BY <1>1, TroublesAreBounded DEF Others, Trouble
<1>2. CASE entry' = f /\ alarm' = Armed(f) /\ UNCHANGED <<telling, dirty, troubles>>
  <2>1. f \in [Tasks -> Entries \cup {None}]
    BY <1>2 DEF BackoffInv, Typed
  <2> QED BY <1>2, <2>1, ArmedIs DEF Others
<1> QED BY <1>1, <1>2 DEF Write

LEMMA OthersKept == BackoffInv /\ BackoffInv' /\ Others /\ [Next]_vars => Others'
<1> SUFFICES ASSUME BackoffInv, BackoffInv', Others, [Next]_vars PROVE Others'
  OBVIOUS
<1>1. entry \in [Tasks -> Entries \cup {None}] /\ entry' \in [Tasks -> Entries \cup {None}]
  BY DEF BackoffInv, Typed
<1>2. Armed(entry) \in Nat \cup {None} /\ Armed(entry') \in Nat \cup {None}
  BY <1>1, ArmedIs
<1>3. CASE Reconstruct \/ Finish \/ FinishFailed
  <2>1. PICK f, next : Write(f, next)
    BY <1>3 DEF Reconstruct, Finish, FinishFailed
  <2>2. UNCHANGED stranded
    BY <1>3 DEF Reconstruct, Finish, FinishFailed
  <2> QED BY <2>1, <2>2, WriteOthers
<1>4. CASE ListDue \/ (\E t \in Tasks : Claim(t)) \/ Close \/ Stop \/ UNCHANGED vars
  BY <1>4 DEF Others, ListDue, Claim, Close, Stop, vars
<1>5. CASE EndWake
  BY <1>2, <1>5 DEF Others, EndWake
<1>6. CASE Fail \/ Die
  <2>1. dirty' = TRUE /\ UNCHANGED <<alarm, stranded>> /\ telling' \in {telling, {}}
    BY <1>6 DEF Fail, Die
  <2>2. troubles' \in 0 .. MaxTroubles
    BY <1>6, TroublesAreBounded DEF Others, Fail, Die, Trouble
  <2> QED BY <2>1, <2>2 DEF Others
<1>7. CASE AlarmFires \/ Event
  BY <1>7 DEF Others, AlarmFires, Event, Wakes
<1>8. CASE Tick
  <2>1. None \notin Nat
    BY SchedulerTasks
  <2>2. Passed(alarm) \in Nat \cup {None}
    BY <2>1 DEF Others, Passed
  <2> QED BY <1>8, <2>2 DEF Others, Tick
<1>9. CASE \E t \in Deadline : Announce(t) \/ PushBack(t)
  BY <1>2, <1>9, TroublesAreBounded DEF Others, Announce, PushBack, ScheduleWake, Trouble
<1>10. CASE \E t \in Tasks : \E wait \in 0 .. MaxWait \cup {None} : Change(t, wait)
  BY <1>10 DEF Others, Change
<1> QED BY <1>3, <1>4, <1>5, <1>6, <1>7, <1>8, <1>9, <1>10 DEF Next, Wake

\* Every variable keeps its type.
THEOREM TypeCorrect == Spec => []TypeOK
<1>1. Init => TypeOK
  <2> SUFFICES ASSUME Init PROVE TypeOK
    OBVIOUS
  <2>1. None \notin Tasks /\ Retry \in Nat /\ MaxTroubles \in Nat
    BY SchedulerTasks, SchedulerTimes, TroublesAreBounded
  <2>2. need \in [Tasks -> 0 .. MaxWait \cup {None}] /\ entry \in [Tasks -> Entries \cup {None}]
        /\ owed \in [Tasks -> 0 .. Retry] /\ Present(entry) = {}
    BY <2>1 DEF Init, Present
  <2>3. worker = Off /\ Off.phase = "off" /\ Off.held = None /\ Off.due = {} /\ Off.seen = {}
    BY DEF Init, Off
  <2>4. alarm = None /\ telling = {} /\ stranded = {} /\ dirty = FALSE /\ troubles \in 0 .. MaxTroubles
    BY <2>1 DEF Init
  <2> QED BY <2>2, <2>3, <2>4 DEF TypeOK
<1>2. BackoffInv' => (TypeOK' <=> Bounded' /\ RevisionHeld' /\ HandlerHolds' /\ Others')
  BY TypesAre, PTL
<1>3. BackoffInv /\ BackoffInv' /\ TypeOK /\ [Next]_vars => TypeOK'
  <2> SUFFICES ASSUME BackoffInv, BackoffInv', TypeOK, [Next]_vars PROVE TypeOK'
    OBVIOUS
  <2>1. Bounded /\ RevisionHeld /\ HandlerHolds /\ Others
    BY TypesAre
  <2>2. Bounded' /\ RevisionHeld' /\ HandlerHolds' /\ Others'
    BY <2>1, BoundedKept, RevisionHeldKept, HandlerHoldsKept, OthersKept
  <2> QED BY <1>2, <2>2
<1> QED BY <1>1, <1>3, Invariance, PTL DEF Spec

--------------------------------------------------------------------------------
\* No work is forgotten: the inductive invariant

\* The tasks that the wake has put down for good: no wake has them before it.
Settled(t) == \/ worker.phase \in {"off", "idle"}
              \/ worker.phase = "close" /\ t \notin ToSet(worker.todo)

\* The task of a record that is there, in time unless another owner's time has replaced it.
Taken(t) == entry[t] # None /\ (entry[t].wait <= need[t] \/ entry[t].pushed)

\* What an owner announced has its task once the wake has been past it.
AnnouncedTaken ==
  ~ dirty => \A t \in Deadline \ telling : need[t] # None /\ Settled(t) => Taken(t)

\* So has what a worker that died left.
StrandedTaken == ~ dirty /\ Alive => \A t \in stranded : Settled(t) => Taken(t)

\* Whoever died has left something.
StrandedStands == \A t \in stranded : need[t] # None

\* The wake knows what was left when it comes to its tasks, or will have read it by then.
StrandedKnown ==
  worker.phase \in {"reconstruct", "close"} =>
    \/ stranded \subseteq worker.seen
    \/ \A i \in 1 .. Len(worker.todo) :
         worker.todo[i] \in Immediate => \E j \in 1 .. i - 1 : worker.todo[j] \in Deadline

\* Between two wakes the alarm is set for the earliest task.
AlarmSet ==
  ~ dirty /\ worker.phase \in {"off", "idle"} =>
    \A t \in Present(entry) : alarm # None /\ alarm <= entry[t].wait

WakeInv == AnnouncedTaken /\ StrandedTaken /\ StrandedStands /\ StrandedKnown /\ AlarmSet

\* What has been established of every step that keeps the invariant.
StepTyped == BackoffInv /\ BackoffInv' /\ TypeOK /\ TypeOK'

\* The worker of a step is one of these.
LEMMA WorkerPhases ==
  /\ Off.phase = "off" /\ Idle.phase = "idle" /\ Woken.phase = "reconstruct"
  /\ Woken.todo = Order
  /\ [Woken EXCEPT !.phase = "close"].phase = "close" /\ [Woken EXCEPT !.phase = "close"].todo = Order
BY DEF Off, Idle, Woken

\* The order in which the tasks are gone through has all of them.
LEMMA TailSet ==
  ASSUME NEW s \in Seq(Tasks), s # <<>>
  PROVE  /\ Head(s) \in Tasks /\ Tail(s) \in Seq(Tasks) /\ Head(s) = s[1]
         /\ Len(Tail(s)) = Len(s) - 1 /\ \A i \in 1 .. Len(s) - 1 : Tail(s)[i] = s[i + 1]
         /\ ToSet(s) \subseteq {Head(s)} \cup ToSet(Tail(s))
<1>1. /\ Head(s) \in Tasks /\ Tail(s) \in Seq(Tasks) /\ Head(s) = s[1]
      /\ Len(s) \in Nat \ {0} /\ DOMAIN s = 1 .. Len(s)
      /\ Len(Tail(s)) = Len(s) - 1 /\ \A i \in 1 .. Len(s) - 1 : Tail(s)[i] = s[i + 1]
      /\ DOMAIN Tail(s) = 1 .. Len(Tail(s))
  OBVIOUS
<1>2. ASSUME NEW i \in DOMAIN s PROVE s[i] \in {Head(s)} \cup ToSet(Tail(s))
  <2>1. CASE i = 1
    BY <1>1, <2>1
  <2>2. CASE i # 1
    <3>1. i - 1 \in DOMAIN Tail(s) /\ i - 1 \in 1 .. Len(s) - 1 /\ (i - 1) + 1 = i
      BY <1>1, <1>2, <2>2
    <3>2. Tail(s)[i - 1] = s[i]
      BY <1>1, <3>1
    <3> QED BY <3>1, <3>2 DEF ToSet
  <2> QED BY <2>1, <2>2
<1> QED BY <1>1, <1>2 DEF ToSet

\* A step that reconstructs one task, by the worker that survives it.
LEMMA ReconstructStep ==
  ASSUME StepTyped, Reconstruct, worker'.phase # "off"
  PROVE  /\ worker.todo \in Seq(Tasks) /\ worker.todo # <<>>
         /\ worker.phase \in {"reconstruct", "close"} /\ worker'.phase = worker.phase
         /\ worker'.todo = Tail(worker.todo) /\ worker'.seen = Seen
         /\ Head(worker.todo) \in Tasks
         /\ UNCHANGED <<need, stranded, telling, dirty>>
         /\ \A u \in Tasks : u # Head(worker.todo) => entry'[u] = entry[u]
         /\ Wanted(Head(worker.todo)) =>
              /\ entry'[Head(worker.todo)] # None
              /\ entry'[Head(worker.todo)].wait = Wait(Head(worker.todo))
<1> DEFINE t == Head(worker.todo)
           next == [worker EXCEPT !.todo = Tail(@), !.seen = Seen]
<1>1. /\ worker.todo \in Seq(Tasks) /\ worker.todo # <<>> /\ worker.phase \in {"reconstruct", "close"}
      /\ UNCHANGED <<need, stranded>> /\ worker \in Workers /\ entry \in [Tasks -> Entries \cup {None}]
      /\ BackoffInv
  BY DEF StepTyped, BackoffInv, Typed, Workers, Reconstruct
<1>2. t \in Tasks
  BY <1>1
<1>3. next.phase = worker.phase /\ next.todo = Tail(worker.todo) /\ next.seen = Seen
  BY <1>1 DEF Workers
<1>4. ASSUME NEW f, Write(f, next)
      PROVE  entry' = f /\ worker' = next /\ UNCHANGED <<telling, dirty>>
  BY <1>4, WorkerPhases DEF Write
<1>5. CASE ~ Wanted(t) /\ Write(Cancelled(t), next)
  <2>1. entry' = Cancelled(t) /\ worker' = next /\ UNCHANGED <<telling, dirty>>
    BY <1>4, <1>5
  <2>2. \A u \in Tasks : u # t => entry'[u] = entry[u]
    BY <1>1, <2>1 DEF Cancelled
  <2> QED BY <1>1, <1>2, <1>3, <1>5, <2>1, <2>2
<1>6. CASE Wanted(t) /\ \E r \in Revisions(t) : Write(Replaced(t, r), next)
  <2>1. PICK r \in Revisions(t) : Write(Replaced(t, r), next)
    BY <1>6
  <2>2. entry' = Replaced(t, r) /\ worker' = next /\ UNCHANGED <<telling, dirty>>
    BY <1>4, <2>1
  <2> HIDE DEF t, next
  <2>3. entry'[t] \in Entries /\ \A u \in Tasks \ {t} : entry'[u] = entry[u]
    BY <1>1, <1>2, <1>6, <2>2, ReplacedIs
  <2>4. entry'[t].wait = Wait(t)
    BY <1>1, <1>2, <2>2, ReplacedTime
  <2>5. entry'[t] # None
    BY <2>3, SchedulerTasks
  <2> QED BY <1>1, <1>2, <1>3, <2>2, <2>3, <2>4, <2>5 DEF t
<1> QED BY <1>5, <1>6 DEF Reconstruct

\* The wake knows what was left when it comes to it.
LEMMA KnownAtHead ==
  ASSUME StepTyped, StrandedKnown, worker.phase \in {"reconstruct", "close"}, worker.todo # <<>>,
         Head(worker.todo) \in stranded
  PROVE  Wanted(Head(worker.todo))
<1>1. worker.todo \in Seq(Tasks) /\ stranded \subseteq Immediate
  BY DEF StepTyped, BackoffInv, Typed, Workers, TypeOK
<1>2. Head(worker.todo) = worker.todo[1] /\ 1 \in 1 .. Len(worker.todo)
  BY <1>1
<1>3. stranded \subseteq worker.seen
  <2> SUFFICES ASSUME ~ (stranded \subseteq worker.seen) PROVE FALSE
    OBVIOUS
  <2>1. worker.todo[1] \in Immediate => \E j \in 1 .. 1 - 1 : worker.todo[j] \in Deadline
    BY <1>2 DEF StrandedKnown
  <2> QED BY <1>1, <1>2, <2>1
<1> QED BY <1>1, <1>3 DEF Wanted

LEMMA StrandedStandsKept == StepTyped /\ StrandedStands /\ [Next]_vars => StrandedStands'
<1> SUFFICES ASSUME StepTyped, StrandedStands, [Next]_vars PROVE StrandedStands'
  OBVIOUS
<1>1. stranded \subseteq Immediate /\ Immediate \subseteq Tasks /\ None \notin Nat
      /\ need \in [Tasks -> Nat \cup {None}]
  BY SchedulerTasks DEF StepTyped, TypeOK, Tasks, BackoffInv, Typed
<1>2. CASE UNCHANGED <<need, stranded>>
  BY <1>2 DEF StrandedStands
<1>3. CASE AlarmFires \/ Event
  <2>1. UNCHANGED need /\ stranded' \in {stranded, {t \in Immediate : need[t] # None}}
    BY <1>3 DEF AlarmFires, Event, Wakes
  <2> QED BY <2>1 DEF StrandedStands
<1>4. CASE Tick
  <2>1. UNCHANGED stranded /\ \A t \in Tasks : need'[t] = Passed(need[t])
    BY <1>4 DEF Tick
  <2>2. \A t \in Tasks : need[t] # None => Passed(need[t]) # None
    BY <1>1 DEF Passed
  <2> QED BY <1>1, <2>1, <2>2 DEF StrandedStands
<1>5. CASE \E t \in Tasks : \E wait \in 0 .. MaxWait \cup {None} : Change(t, wait)
  <2>0. PICK t \in Tasks : \E wait : Change(t, wait)
    BY <1>5
  <2>1. PICK wait : Change(t, wait)
    BY <2>0
  <2>2. stranded' = stranded \ {t} /\ need' = [need EXCEPT ![t] = wait]
    BY <2>1 DEF Change
  <2> QED BY <1>1, <2>2 DEF StrandedStands
<1>6. CASE ~ (AlarmFires \/ Event \/ Tick)
           /\ ~ (\E t \in Tasks : \E wait \in 0 .. MaxWait \cup {None} : Change(t, wait))
  <2>1. UNCHANGED <<need, stranded>>
    BY <1>6 DEF Next, Wake, vars, Reconstruct, ListDue, Claim, Finish, FinishFailed, Close, EndWake, Fail,
           Stop, Die, Announce, PushBack
  <2> QED BY <1>2, <2>1
<1> QED BY <1>3, <1>4, <1>5, <1>6

LEMMA StrandedKnownKept ==
  StepTyped /\ StrandedKnown /\ StrandedStands /\ [Next]_vars => StrandedKnown'
<1> SUFFICES ASSUME StepTyped, StrandedKnown, StrandedStands, [Next]_vars PROVE StrandedKnown'
  OBVIOUS
<1>1. worker \in Workers /\ stranded \subseteq Immediate
  BY DEF StepTyped, TypeOK, BackoffInv, Typed
<1>2. CASE worker'.phase \notin {"reconstruct", "close"}
  BY <1>2 DEF StrandedKnown
<1>3. CASE worker'.todo = Order
  <2>1. \A i \in 1 .. Len(worker'.todo) :
          worker'.todo[i] \in Immediate => \E j \in 1 .. i - 1 : worker'.todo[j] \in Deadline
    BY <1>3, QuotaComesFirst
  <2> QED BY <2>1 DEF StrandedKnown
<1>4. CASE /\ worker'.phase = worker.phase /\ worker'.todo = worker.todo /\ worker'.seen = worker.seen
           /\ stranded' \subseteq stranded
  BY <1>4 DEF StrandedKnown
<1>5. CASE Reconstruct
  <2>1. CASE worker'.phase # "off"
    <3> DEFINE s == worker.todo
    <3>1. /\ s \in Seq(Tasks) /\ s # <<>> /\ worker.phase \in {"reconstruct", "close"}
          /\ worker'.todo = Tail(s) /\ worker'.seen = Seen /\ stranded' = stranded
      BY <1>5, <2>1, ReconstructStep
    <3>2. CASE Head(s) \in Deadline
      <4>1. Seen = {t \in Immediate : need[t] # None}
        BY <3>2 DEF Seen
      <4>2. stranded' \subseteq worker'.seen
        BY <1>1, <3>1, <4>1 DEF StrandedStands
      <4> QED BY <4>2 DEF StrandedKnown
    <3>3. CASE Head(s) \notin Deadline /\ stranded \subseteq worker.seen
      BY <3>1, <3>3 DEF Seen, StrandedKnown
    <3>4. CASE /\ Head(s) \notin Deadline
               /\ \A i \in 1 .. Len(s) : s[i] \in Immediate => \E j \in 1 .. i - 1 : s[j] \in Deadline
      <4>1. /\ Head(s) = s[1] /\ Len(s) \in Nat /\ Len(Tail(s)) = Len(s) - 1
            /\ \A i \in 1 .. Len(s) - 1 : Tail(s)[i] = s[i + 1]
        BY <3>1, TailSet
      <4> HIDE DEF s
      <4>2. ASSUME NEW i \in 1 .. Len(Tail(s)), Tail(s)[i] \in Immediate
            PROVE  \E j \in 1 .. i - 1 : Tail(s)[j] \in Deadline
        <5>1. i \in 1 .. Len(s) - 1 /\ i + 1 \in 1 .. Len(s) /\ s[i + 1] \in Immediate
          BY <4>1, <4>2
        <5>2. PICK j \in 1 .. i : s[j] \in Deadline
          <6>1. \E j \in 1 .. (i + 1) - 1 : s[j] \in Deadline
            BY <3>4, <5>1
          <6> QED BY <5>1, <6>1
        <5>3. j # 1
          BY <3>4, <4>1, <5>2
        <5>4. j - 1 \in 1 .. i - 1 /\ j - 1 \in 1 .. Len(s) - 1 /\ (j - 1) + 1 = j
          BY <4>1, <5>1, <5>2, <5>3
        <5>5. Tail(s)[j - 1] = s[j]
          BY <4>1, <5>4
        <5> QED BY <5>2, <5>4, <5>5
      <4> QED BY <3>1, <4>2 DEF StrandedKnown
    <3>5. \/ stranded \subseteq worker.seen
          \/ \A i \in 1 .. Len(s) : s[i] \in Immediate => \E j \in 1 .. i - 1 : s[j] \in Deadline
      BY <3>1 DEF StrandedKnown
    <3> HIDE DEF s
    <3> QED BY <3>2, <3>3, <3>4, <3>5
  <2> QED BY <1>2, <2>1
<1>6. CASE Close
  <2>1. worker'.todo = Order
    BY <1>6, WorkerPhases DEF Close
  <2> QED BY <1>3, <2>1
<1>7. CASE AlarmFires \/ Event
  <2>1. worker' = Woken \/ UNCHANGED <<worker, stranded>>
    BY <1>7 DEF AlarmFires, Event, Wakes
  <2> QED BY <1>3, <1>4, <2>1, WorkerPhases
<1>8. CASE \E t \in Deadline : Announce(t) \/ PushBack(t)
  <2>0. PICK t \in Deadline : \E wait, pushed : ScheduleWake(t, wait, pushed)
    BY <1>8 DEF Announce, PushBack
  <2>1. PICK wait, pushed : ScheduleWake(t, wait, pushed)
    BY <2>0
  <2>2. worker'.phase = worker.phase /\ worker'.todo = worker.todo /\ worker'.seen = worker.seen
    BY <1>1, <2>1 DEF ScheduleWake, Workers
  <2> QED BY <1>4, <1>8, <2>2 DEF Announce, PushBack
<1>9. CASE Tick \/ (\E t \in Tasks : \E wait \in 0 .. MaxWait \cup {None} : Change(t, wait))
           \/ UNCHANGED vars
  BY <1>4, <1>9 DEF Tick, Change, vars
<1>10. CASE ListDue \/ (\E t \in Tasks : Claim(t)) \/ Finish \/ FinishFailed \/ EndWake \/ Stop \/ Die
  <2>1. CASE ListDue \/ (\E t \in Tasks : Claim(t))
    <3>1. worker'.phase \in {"serve", "dispatch"}
      BY <1>1, <2>1 DEF ListDue, Claim, Workers
    <3> QED BY <1>2, <3>1
  <2>2. CASE Finish \/ FinishFailed
    <3>1. worker' \in {Served, Off}
      BY <2>2 DEF Finish, FinishFailed, Write
    <3>2. Served.phase = "serve"
      BY <1>1 DEF Served, Workers
    <3> QED BY <1>2, <3>1, <3>2, WorkerPhases
  <2>3. CASE EndWake \/ Stop \/ Die
    <3>1. worker' \in {Idle, Off}
      BY <2>3 DEF EndWake, Stop, Die
    <3> QED BY <1>2, <3>1, WorkerPhases
  <2> QED BY <1>10, <2>1, <2>2, <2>3
<1>11. CASE Fail
  <2>1. worker' = Idle \/ (worker'.todo = <<>> /\ <<>> \in Seq(Tasks))
    BY <1>1, <1>11 DEF Fail, Workers
  <2>2. CASE worker' = Idle
    BY <1>2, <2>2, WorkerPhases
  <2>3. CASE worker'.todo = <<>>
    BY <2>3 DEF StrandedKnown
  <2> QED BY <2>1, <2>2, <2>3
<1> QED BY <1>5, <1>6, <1>7, <1>8, <1>9, <1>10, <1>11 DEF Next, Wake

\* A reconstruction ends the worker only where it dies.
LEMMA DeathIsDirty ==
  ASSUME Reconstruct, worker \in Workers, worker'.phase = "off"
  PROVE  dirty' = TRUE
<1>1. worker.phase # "off"
  BY DEF Reconstruct
<1>2. [worker EXCEPT !.todo = Tail(@), !.seen = Seen].phase = worker.phase
  BY DEF Workers
<1>3. worker' = [worker EXCEPT !.todo = Tail(@), !.seen = Seen] \/ dirty' = TRUE
  BY DEF Reconstruct, Write
<1> QED BY <1>1, <1>2, <1>3

LEMMA AlarmSetKept == StepTyped /\ AlarmSet /\ [Next]_vars => AlarmSet'
<1> SUFFICES ASSUME StepTyped, AlarmSet, [Next]_vars PROVE AlarmSet'
  OBVIOUS
<1>1. /\ worker \in Workers /\ alarm \in Nat \cup {None} /\ None \notin Nat /\ None \notin Entries
      /\ entry \in [Tasks -> Entries \cup {None}] /\ entry' \in [Tasks -> Entries \cup {None}]
      /\ dirty \in BOOLEAN
  BY SchedulerTasks DEF StepTyped, TypeOK, BackoffInv, Typed
<1>2. CASE worker'.phase \notin {"off", "idle"} \/ dirty' = TRUE
  BY <1>2 DEF AlarmSet
<1>3. CASE alarm' = Armed(entry')
  <2>1. \A t \in Present(entry') : Armed(entry') \in Nat /\ Armed(entry') <= entry'[t].wait
    BY <1>1, ArmedIs
  <2> QED BY <1>1, <1>3, <2>1 DEF AlarmSet, Present
<1>4. CASE Reconstruct
  <2>1. CASE worker'.phase # "off"
    <3>1. worker'.phase \in {"reconstruct", "close"}
      BY <1>4, <2>1, ReconstructStep
    <3> QED BY <1>2, <3>1
  <2>2. CASE worker'.phase = "off"
    BY <1>1, <1>2, <1>4, <2>2, DeathIsDirty
  <2> QED BY <2>1, <2>2
<1>5. CASE Finish \/ FinishFailed
  <2>1. PICK f : Write(f, Served)
    BY <1>5 DEF Finish, FinishFailed
  <2>2. Served.phase = "serve"
    BY <1>1 DEF Served, Workers
  <2>3. worker' = Served \/ dirty' = TRUE
    BY <2>1 DEF Write
  <2> QED BY <1>2, <2>2, <2>3
<1>6. CASE ListDue \/ Close \/ (\E t \in Tasks : Claim(t))
  <2>1. worker'.phase \in {"serve", "close", "dispatch"}
    BY <1>1, <1>6, WorkerPhases DEF ListDue, Close, Claim, Workers
  <2> QED BY <1>2, <2>1
<1>7. CASE EndWake
  BY <1>3, <1>7 DEF EndWake
<1>8. CASE Fail \/ Die
  BY <1>2, <1>8 DEF Fail, Die
<1>9. CASE AlarmFires \/ Event
  <2>1. worker' = Woken \/ (UNCHANGED worker /\ worker.phase \notin {"off", "idle"})
    BY <1>9 DEF AlarmFires, Event, Wakes
  <2> QED BY <1>2, <2>1, WorkerPhases
<1>10. CASE Stop \/ UNCHANGED vars
  <2>1. UNCHANGED <<entry, alarm, dirty>> /\ (worker'.phase = worker.phase \/ worker.phase = "idle")
    BY <1>10, WorkerPhases DEF Stop, vars
  <2> QED BY <2>1 DEF AlarmSet
<1>11. CASE Tick
  <2> SUFFICES ASSUME ~ dirty, worker.phase \in {"off", "idle"}, NEW t \in Tasks, entry'[t] # None
               PROVE  alarm' # None /\ alarm' <= entry'[t].wait
    BY <1>11 DEF AlarmSet, Present, Tick
  <2>1. entry[t] # None /\ alarm' = Passed(alarm)
        /\ entry'[t] = [entry[t] EXCEPT !.wait = Passed(@), !.claim = Passed(@)]
    BY <1>11 DEF Tick
  <2>2. alarm \in Nat /\ alarm <= entry[t].wait
    BY <1>1, <2>1 DEF AlarmSet, Present
  <2>3. entry[t] \in Entries
    BY <1>1, <2>1
  <2>4. entry'[t].wait = Passed(entry[t].wait) /\ entry[t].wait \in Nat
    BY <2>1, <2>3 DEF Entries
  <2>5. Passed(alarm) \in Nat /\ Passed(alarm) <= Passed(entry[t].wait)
    BY <1>1, <2>2, <2>4 DEF Passed
  <2> QED BY <1>1, <2>1, <2>4, <2>5
<1>12. CASE \E t \in Tasks : \E wait \in 0 .. MaxWait \cup {None} : Change(t, wait)
  <2>0. PICK t \in Tasks : \E wait : Change(t, wait)
    BY <1>12
  <2>1. PICK wait : Change(t, wait)
    BY <2>0
  <2>2. UNCHANGED <<alarm, worker, dirty>>
        /\ entry' = IF t \in Kept /\ entry[t] # None THEN [entry EXCEPT ![t].current = FALSE] ELSE entry
    BY <2>1 DEF Change
  <2>3. \A x \in Entries : [x EXCEPT !.current = FALSE].wait = x.wait
    BY DEF Entries
  <2>4. \A u \in Tasks : entry'[u] # None => entry[u] # None /\ entry'[u].wait = entry[u].wait
    BY <1>1, <2>2, <2>3
  <2> QED BY <2>2, <2>4 DEF AlarmSet, Present
<1>13. CASE \E t \in Deadline : Announce(t) \/ PushBack(t)
  BY <1>3, <1>13 DEF Announce, PushBack, ScheduleWake
<1> QED BY <1>4, <1>5, <1>6, <1>7, <1>8, <1>9, <1>10, <1>11, <1>12, <1>13 DEF Next, Wake

\* The tasks of a record that has work: its owner's announcement is out, or it was stranded.
Cared == {t \in Deadline \ telling : need[t] # None} \cup {t \in stranded : Alive}

\* Both kinds of work have their task once the wake has been past it.
CaredTaken == ~ dirty => \A t \in Cared : Settled(t) => Taken(t)

LEMMA CaredTakenIs == CaredTaken <=> AnnouncedTaken /\ StrandedTaken
BY DEF CaredTaken, Cared, AnnouncedTaken, StrandedTaken

\* Time passes alike for the record and for its task.
LEMMA TickTaken ==
  ASSUME StepTyped, Tick, NEW t \in Tasks, need[t] # None, Taken(t)
  PROVE  Taken(t)'
<1>1. /\ None \notin Nat /\ None \notin Entries /\ need[t] \in Nat /\ entry[t] \in Entries
  BY SchedulerTasks DEF StepTyped, BackoffInv, Typed, Taken
<1>2. /\ need'[t] = Passed(need[t])
      /\ entry'[t] = [entry[t] EXCEPT !.wait = Passed(@), !.claim = Passed(@)]
  BY DEF Tick, Taken
<1>3. Passed(entry[t].wait) \in Nat /\ Passed(entry[t].claim) \in Nat
      /\ (entry[t].wait <= need[t] => Passed(entry[t].wait) <= Passed(need[t]))
  BY <1>1 DEF Passed, Entries
<1>4. /\ entry'[t] \in Entries
      /\ entry'[t].wait = Passed(entry[t].wait) /\ entry'[t].pushed = entry[t].pushed
  BY <1>1, <1>2, <1>3 DEF Entries
<1> QED BY <1>1, <1>2, <1>3, <1>4 DEF Taken

\* The wake takes up the task that it goes past.
LEMMA ReconstructTakes ==
  ASSUME StepTyped, WakeInv, Reconstruct, worker'.phase # "off"
  PROVE  CaredTaken'
<1> DEFINE h == Head(worker.todo)
<1>1. /\ worker.todo \in Seq(Tasks) /\ worker.todo # <<>>
      /\ worker.phase \in {"reconstruct", "close"} /\ worker'.phase = worker.phase
      /\ worker'.todo = Tail(worker.todo)
      /\ h \in Tasks
      /\ UNCHANGED <<need, stranded, telling, dirty>>
      /\ \A u \in Tasks : u # h => entry'[u] = entry[u]
      /\ Wanted(h) => entry'[h] # None /\ entry'[h].wait = Wait(h)
  BY ReconstructStep
<1>2. /\ None \notin Nat /\ need \in [Tasks -> Nat \cup {None}]
      /\ Deadline \cap Immediate = {} /\ Deadline \subseteq Tasks /\ stranded \subseteq Immediate
      /\ Immediate \subseteq Tasks /\ Kept \cap (Deadline \cup Immediate) = {}
  BY SchedulerTasks DEF StepTyped, TypeOK, BackoffInv, Typed, Tasks
<1>3. CaredTaken /\ Cared' = Cared /\ Cared \subseteq Tasks
  BY <1>1, <1>2, CaredTakenIs DEF WakeInv, Cared, Alive
<1> SUFFICES ASSUME ~ dirty, NEW t \in Cared, Settled(t)' PROVE Taken(t)'
  BY <1>1, <1>3 DEF CaredTaken
<1>4. CASE t # h
  <2>1. worker.phase = "close" /\ t \notin ToSet(Tail(worker.todo))
    BY <1>1 DEF Settled
  <2>2. t \notin ToSet(worker.todo)
    BY <1>1, <1>4, <2>1, TailSet
  <2>3. Taken(t)
    BY <1>3, <2>1, <2>2 DEF CaredTaken, Settled
  <2>4. entry'[t] = entry[t] /\ need'[t] = need[t]
    BY <1>1, <1>3, <1>4
  <2> QED BY <2>3, <2>4 DEF Taken
<1>5. CASE t = h
  <2>1. need[h] \in Nat
    BY <1>2, <1>3, <1>5 DEF Cared, WakeInv, StrandedStands
  <2>2. Wanted(h) /\ Wait(h) \in Nat /\ Wait(h) <= need[h]
    <3>1. CASE h \in Deadline
      BY <1>2, <2>1, <3>1 DEF Wanted, Wait
    <3>2. CASE h \in stranded
      <4>1. Wanted(h)
        BY <1>1, <3>2, KnownAtHead DEF WakeInv
      <4>2. Wait(h) = 0
        BY <1>2, <3>2 DEF Wait
      <4> QED BY <2>1, <4>1, <4>2
    <3> QED BY <1>5, <3>1, <3>2 DEF Cared
  <2> QED BY <1>1, <1>5, <2>1, <2>2 DEF Taken
<1> QED BY <1>4, <1>5

LEMMA CaredTakenKept == StepTyped /\ WakeInv /\ [Next]_vars => CaredTaken'
<1> SUFFICES ASSUME StepTyped, WakeInv, [Next]_vars PROVE CaredTaken'
  OBVIOUS
<1>1. /\ worker \in Workers /\ None \notin Nat /\ dirty \in BOOLEAN
      /\ entry \in [Tasks -> Entries \cup {None}] /\ need \in [Tasks -> Nat \cup {None}]
      /\ Deadline \cap Immediate = {} /\ Kept \cap (Deadline \cup Immediate) = {}
      /\ Deadline \subseteq Tasks /\ stranded \subseteq Immediate /\ Immediate \subseteq Tasks
  BY SchedulerTasks DEF StepTyped, TypeOK, BackoffInv, Typed, Tasks
<1>2. CaredTaken
  BY CaredTakenIs DEF WakeInv
<1>3. CASE worker'.phase \notin {"off", "idle", "close"} \/ dirty' = TRUE
  BY <1>3 DEF CaredTaken, Settled
<1>4. CASE Reconstruct
  <2>1. CASE worker'.phase # "off"
    BY <1>4, <2>1, ReconstructTakes
  <2>2. CASE worker'.phase = "off"
    BY <1>1, <1>3, <1>4, <2>2, DeathIsDirty
  <2> QED BY <2>1, <2>2
<1>5. CASE Finish \/ FinishFailed
  <2>1. PICK f : Write(f, Served)
    BY <1>5 DEF Finish, FinishFailed
  <2>2. Served.phase = "serve"
    BY <1>1 DEF Served, Workers
  <2>3. worker' = Served \/ dirty' = TRUE
    BY <2>1 DEF Write
  <2> QED BY <1>3, <2>2, <2>3
<1>6. CASE ListDue \/ (\E t \in Tasks : Claim(t))
  <2>1. worker'.phase \in {"serve", "dispatch"}
    BY <1>1, <1>6 DEF ListDue, Claim, Workers
  <2> QED BY <1>3, <2>1
<1>7. CASE Close
  <2>1. worker'.phase = "close" /\ ToSet(worker'.todo) = Tasks
    BY <1>7, WorkerPhases, SchedulerTasks DEF Close
  <2>2. Cared' \subseteq Tasks
    BY <1>1, <1>7 DEF Cared, Close
  <2> QED BY <2>1, <2>2 DEF CaredTaken, Settled
<1>8. CASE EndWake \/ Stop \/ UNCHANGED vars
  <2>1. UNCHANGED <<need, entry, telling, stranded, dirty>>
    BY <1>8 DEF EndWake, Stop, vars
  <2>2. ASSUME NEW t PROVE Settled(t)' => Settled(t)
    <3>1. CASE EndWake
      <4>1. worker.phase = "close" /\ ToSet(worker.todo) = {}
        BY <3>1 DEF EndWake, ToSet
      <4> QED BY <4>1 DEF Settled
    <3>2. CASE Stop
      <4>1. worker.phase = "idle"
        BY <3>2, WorkerPhases DEF Stop
      <4> QED BY <4>1 DEF Settled
    <3>3. CASE UNCHANGED vars
      BY <3>3 DEF Settled, vars
    <3> QED BY <1>8, <3>1, <3>2, <3>3
  <2>3. Alive' => Alive
    BY <1>8, WorkerPhases DEF Alive, EndWake, Stop, vars
  <2>4. Cared' \subseteq Cared
    BY <2>1, <2>3 DEF Cared
  <2>5. \A t : Taken(t)' <=> Taken(t)
    BY <2>1 DEF Taken
  <2> QED BY <1>2, <2>1, <2>2, <2>4, <2>5 DEF CaredTaken
<1>9. CASE Fail \/ Die
  BY <1>3, <1>9 DEF Fail, Die
<1>10. CASE AlarmFires \/ Event
  <2>1. CASE worker' = Woken
    BY <1>3, <2>1, WorkerPhases
  <2>2. CASE UNCHANGED <<need, entry, telling, stranded, dirty, worker>>
    BY <1>2, <2>2 DEF CaredTaken, Cared, Alive, Settled, Taken
  <2> QED BY <1>10, <2>1, <2>2 DEF AlarmFires, Event, Wakes
<1>11. CASE Tick
  <2>1. UNCHANGED <<worker, telling, stranded, dirty>>
    BY <1>11 DEF Tick
  <2>2. \A t \in Tasks : need'[t] # None => need[t] # None
    BY <1>11 DEF Tick, Passed
  <2>3. Cared' \subseteq Cared
    BY <1>1, <2>1, <2>2 DEF Cared, Alive
  <2>4. \A t \in Cared : t \in Tasks /\ need[t] # None
    BY <1>1 DEF Cared, WakeInv, StrandedStands
  <2>5. \A t \in Cared : Taken(t) => Taken(t)'
    BY <1>11, <2>4, TickTaken
  <2> QED BY <1>2, <2>1, <2>3, <2>5 DEF CaredTaken, Settled
<1>12. CASE \E t \in Tasks : \E wait \in 0 .. MaxWait \cup {None} : Change(t, wait)
  <2>0. PICK t \in Tasks : \E wait : Change(t, wait)
    BY <1>12
  <2>1. PICK wait : Change(t, wait)
    BY <2>0
  <2>2. /\ UNCHANGED <<worker, dirty>> /\ need' = [need EXCEPT ![t] = wait]
        /\ stranded' = stranded \ {t}
        /\ telling' = IF t \in Deadline /\ wait # None THEN telling \cup {t} ELSE telling
        /\ \A u \in Tasks \ {t} : entry'[u] = entry[u]
    BY <1>1, <2>1 DEF Change
  <2>3. Cared' \subseteq Cared \ {t}
    BY <1>1, <2>2 DEF Cared, Alive
  <2>4. \A u \in Cared' : u \in Tasks \ {t} /\ need'[u] = need[u] /\ entry'[u] = entry[u]
    BY <1>1, <2>2, <2>3 DEF Cared
  <2>5. \A u \in Cared' : Taken(u) => Taken(u)'
    BY <2>4 DEF Taken
  <2> QED BY <1>2, <2>2, <2>3, <2>5 DEF CaredTaken, Settled
<1>13. CASE \E t \in Deadline : Announce(t) \/ PushBack(t)
  <2>1. PICK t \in Deadline : Announce(t) \/ PushBack(t)
    BY <1>13
  <2>2. UNCHANGED <<need, stranded, dirty>>
    BY <2>1 DEF Announce, PushBack
  <2>3. PICK wait \in Nat, pushed \in BOOLEAN :
          /\ ScheduleWake(t, wait, pushed)
          /\ \/ need[t] = None /\ telling' = telling \ {t}
             \/ need[t] # None /\ wait = need[t] /\ telling' = telling \ {t}
             \/ pushed = TRUE /\ telling' = telling
    <3>1. need[t] \in Nat \cup {None} /\ MaxWait \in Nat
      BY <1>1, <2>1, SchedulerTimes
    <3>2. CASE Announce(t)
      <4>1. PICK wait \in IF need[t] = None THEN 0 .. MaxWait ELSE {need[t]} :
                   ScheduleWake(t, wait, FALSE)
        BY <3>2 DEF Announce
      <4>2. wait \in Nat /\ (need[t] # None => wait = need[t]) /\ telling' = telling \ {t}
        BY <3>1, <3>2, <4>1 DEF Announce
      <4> QED BY <4>1, <4>2
    <3>3. CASE PushBack(t)
      <4>1. PICK wait \in need[t] + 1 .. MaxWait : ScheduleWake(t, wait, TRUE)
        BY <3>3 DEF PushBack
      <4>2. wait \in Nat /\ telling' = telling
        BY <3>1, <3>3, <4>1 DEF PushBack
      <4> QED BY <4>1, <4>2
    <3> QED BY <2>1, <3>2, <3>3
  <2>4. PICK r \in Revisions(t) : entry' = [Scheduled(t, wait, r) EXCEPT ![t].pushed = pushed]
    BY <2>3 DEF ScheduleWake
  <2> DEFINE g == Scheduled(t, wait, r)
  <2>5. /\ g \in [Tasks -> Entries \cup {None}] /\ g[t] \in Entries /\ g[t].wait = wait
        /\ \A u \in Tasks \ {t} : g[u] = entry[u]
    <3>1. t \in Tasks /\ r \in {"same", "anew", "beyond"} /\ Typed
      BY <1>1, <2>1, RevisionsIn DEF StepTyped, BackoffInv
    <3>2. g = Scheduled(t, wait, r)
      OBVIOUS
    <3> HIDE DEF g
    <3> QED BY <3>1, <3>2, ScheduledIs
  <2>6. entry' = [g EXCEPT ![t].pushed = pushed]
    BY <2>4
  <2> HIDE DEF g
  <2>7. \A x \in Entries : /\ [x EXCEPT !.pushed = pushed] \in Entries
                          /\ [x EXCEPT !.pushed = pushed].wait = x.wait
                          /\ [x EXCEPT !.pushed = pushed].pushed = pushed
    BY DEF Entries
  <2>8. entry'[t] = [g[t] EXCEPT !.pushed = pushed] /\ \A u \in Tasks \ {t} : entry'[u] = entry[u]
    BY <1>1, <2>1, <2>5, <2>6
  <2>9. entry'[t] # None /\ entry'[t].wait = wait /\ entry'[t].pushed = pushed
    BY <2>5, <2>7, <2>8, SchedulerTasks
  <2>10. worker'.phase = worker.phase /\ worker'.todo = worker.todo
    BY <1>1, <2>3 DEF ScheduleWake, Workers
  <2>11. \A u \in Cared' : (u # t => u \in Cared) /\ u \in Tasks
    BY <1>1, <2>2, <2>3, <2>10 DEF Cared, Alive
  <2>12. \A u : Settled(u)' <=> Settled(u)
    BY <2>10 DEF Settled
  <2>13. ASSUME t \in Cared' PROVE Taken(t)'
    <3>1. need[t] \in Nat
      BY <1>1, <2>1, <2>2, <2>13 DEF Cared
    <3>2. wait = need[t] \/ pushed = TRUE
      BY <2>3, <3>1, <1>1
    <3> QED BY <2>2, <2>9, <3>1, <3>2 DEF Taken
  <2>14. \A u \in Cared' : u # t /\ Taken(u) => Taken(u)'
    BY <2>2, <2>8, <2>11 DEF Taken
  <2> QED BY <1>2, <2>2, <2>11, <2>12, <2>13, <2>14 DEF CaredTaken
<1> QED BY <1>4, <1>5, <1>6, <1>7, <1>8, <1>9, <1>10, <1>11, <1>12, <1>13 DEF Next, Wake

\* The inductive invariant of the wakes: the last reconstruction puts every task down again, what
\* was left is known when its turn comes, and the alarm is set for the earliest task.
THEOREM WakeInvariance == Spec => []WakeInv
<1>1. Init => WakeInv
  BY DEF Init, Off, WakeInv, AnnouncedTaken, StrandedTaken, StrandedStands, StrandedKnown, AlarmSet,
         Present, Tasks
<1>2. StepTyped /\ WakeInv /\ [Next]_vars => WakeInv'
  <2> SUFFICES ASSUME StepTyped, WakeInv, [Next]_vars PROVE WakeInv'
    OBVIOUS
  <2>1. CaredTaken'
    BY CaredTakenKept
  <2>2. AnnouncedTaken' /\ StrandedTaken'
    BY <2>1 DEF CaredTaken, Cared, AnnouncedTaken, StrandedTaken
  <2>3. StrandedStands' /\ StrandedKnown' /\ AlarmSet'
    BY StrandedStandsKept, StrandedKnownKept, AlarmSetKept DEF WakeInv
  <2> QED BY <2>2, <2>3 DEF WakeInv
<1>3. BackoffInv /\ BackoffInv' /\ TypeOK /\ TypeOK' => StepTyped
  BY DEF StepTyped
<1> QED BY <1>1, <1>2, <1>3, Invariance, TypeCorrect, PTL DEF Spec

\* Between two wakes no announced work, and nothing that a worker that died had left, is without
\* a task or without an alarm in time for it, unless the last wake failed half way.
THEOREM Remembered == Spec => []NothingForgotten
<1>1. WakeInv /\ TypeOK => NothingForgotten
  <2> SUFFICES ASSUME WakeInv, TypeOK, worker.phase \in {"idle", "off"}, ~ dirty,
                      NEW t \in Tasks, need[t] # None,
                      t \in Deadline \ telling \/ (t \in stranded /\ Alive)
               PROVE  Covered(t)
    BY DEF NothingForgotten
  <2>1. Settled(t)
    BY DEF Settled
  <2>2. Taken(t)
    BY <2>1 DEF WakeInv, AnnouncedTaken, StrandedTaken
  <2>3. alarm # None /\ alarm <= entry[t].wait
    BY <2>2 DEF WakeInv, AlarmSet, Taken, Present
  <2> QED BY <2>2, <2>3 DEF Covered, Taken
<1> QED BY <1>1, WakeInvariance, TypeCorrect, PTL

=============================================================================
