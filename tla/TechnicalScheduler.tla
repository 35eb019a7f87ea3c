--------------------------- MODULE TechnicalScheduler ---------------------------
(***************************************************************************)
(* The technical scheduler of the extension's service worker                *)
(* (apps/extension/src/application/technical-scheduler.js): the durable     *)
(* tasks, the one alarm that starts the worker again, and the wake that     *)
(* reconstructs the tasks from what their owners have on record, calls the  *)
(* handlers of the due ones and arms the alarm.                             *)
(*                                                                         *)
(* A moment is the time that is left until it: 0 is now or earlier.  The    *)
(* calls of the storage and of the alarms are answered in the order they    *)
(* were made, so a write and the alarm armed for it are one step, unless    *)
(* the worker dies between them.                                            *)
(***************************************************************************)
EXTENDS Naturals, FiniteSets, FiniteSetsExt, Sequences, SequencesExt

CONSTANTS
  Deadline,     \* tasks whose owner sets a time and announces it: quota waits
  Immediate,    \* tasks for what a worker that died has left: results, Work recoveries
  Kept,         \* tasks that keep their backoff: the refresh of the signed access
  Watched,      \* the tasks whose failures are remembered in owed
  Order,        \* the order in which reconstruct() goes through them
  MaxWait,      \* bound: the longest time an owner sets
  Retry,        \* RETRY_MS, and the shortest backoff of a kept task
  Lease,        \* CLAIM_MS
  MaxTroubles,  \* bound: workers that die, wakes that fail, tasks that are pushed back
  None

Tasks == Deadline \cup Immediate \cup Kept

\* A task; failed is kept where the backoff depends on it, current says that it was made for
\* the authority of now.
Entries == [wait : Nat, claim : Nat, revision : {"same", "anew", "beyond"},
            current : BOOLEAN, pushed : BOOLEAN, failed : BOOLEAN]

ASSUME SchedulerTasks ==
  /\ Deadline \cap Immediate = {} /\ Kept \cap (Deadline \cup Immediate) = {}
  /\ Order \in Seq(Tasks) /\ ToSet(Order) = Tasks
  /\ None \notin Tasks \cup Nat \cup Entries

ASSUME SchedulerTimes == MaxWait \in Nat /\ Retry \in Nat \ {0} /\ Lease \in Nat

\* What died workers left is looked at after a quota wait: one read of the records is for both.
ASSUME QuotaComesFirst ==
  \A i \in 1 .. Len(Order) : Order[i] \in Immediate => \E j \in 1 .. i - 1 : Order[j] \in Deadline

ASSUME TroublesAreBounded == MaxTroubles \in Nat

VARIABLES
  need,      \* durable, of the owners: the time until there is work for the task
  entry,     \* durable: the tasks
  alarm,     \* the time until the alarm
  worker,    \* memory: where wake() is
  telling,   \* memory: tasks whose owner is about to announce a change
  stranded,  \* history: needs found by a new worker, which nobody else looks after
  owed,      \* history: what is left of the delay after a failure
  dirty,     \* history: the last wake failed, or its worker died
  troubles

vars == <<need, entry, alarm, worker, telling, stranded, owed, dirty, troubles>>

Off  == [phase |-> "off", todo |-> <<>>, seen |-> {}, due |-> {}, held |-> None]
Idle == [Off EXCEPT !.phase = "idle"]
Woken == [Off EXCEPT !.phase = "reconstruct", !.todo = Order]

Alive == worker.phase # "off"
Trouble == troubles < MaxTroubles /\ troubles' = troubles + 1

--------------------------------------------------------------------------------
\* The tasks

Present(entries) == {t \in Tasks : entries[t] # None}

\* Mutant: the alarm is set for the latest task.
ArmedLast(entries) ==
  IF Present(entries) = {} THEN None ELSE Max({entries[t].wait : t \in Present(entries)})

\* arm(): one alarm, for the earliest task.
Armed(entries) ==
  IF Present(entries) = {} THEN None ELSE Min({entries[t].wait : t \in Present(entries)})

\* Mutant: a task that is scheduled again keeps its revision.
Unrevised(t) == {"same"}

\* What a revision is to the claimed copy in the worker's memory: the same, beyond it, or
\* counting from 1 again after the task was removed, so that it may come to be the same.
Revisions(t) ==
  CASE worker.held # t -> {"beyond"}
    [] worker.held = t /\ (entry[t] = None \/ entry[t].revision = "anew") -> {"same", "anew"}
    [] OTHER -> {"beyond"}

\* schedule(): the time and the identity are replaced, the attempts are kept.
Scheduled(t, wait, revision) ==
  [entry EXCEPT ![t] = [wait |-> wait, claim |-> 0, revision |-> revision, current |-> TRUE,
                        pushed |-> FALSE, failed |-> entry[t] # None /\ entry[t].failed]]

Cancelled(t) == [entry EXCEPT ![t] = None]

\* Nothing is held any more, so no revision is told from another.
Released(entries) ==
  [t \in Tasks |-> IF entries[t] = None THEN None ELSE [entries[t] EXCEPT !.revision = "beyond"]]

\* A write of the tasks, and the alarm; a worker that dies in between leaves the old alarm.
Write(entries, next) ==
  \/ /\ entry' = entries /\ alarm' = Armed(entries) /\ worker' = next
     /\ UNCHANGED <<telling, dirty, troubles>>
  \/ /\ Trouble /\ dirty' = TRUE
     /\ entry' = Released(entries) /\ worker' = Off /\ telling' = {}
     /\ UNCHANGED alarm

--------------------------------------------------------------------------------
\* wake()

\* Mutant: what is due already is not looked for.
WantedLater(t) == need[t] # None /\ need[t] > 0

\* There is work for the task, as reconstruct() read it: the records of manual operations
\* and recoveries are read once, for the tasks that come after it.
Wanted(t) == IF t \in Immediate THEN t \in worker.seen ELSE need[t] # None

\* Mutant: the plan of the owner always counts.
KeptWaitPlanned(t) == need[t]

\* A kept task: the backoff of a failure stays, else the earlier of both times counts.
KeptWait(t) ==
  IF entry[t] = None \/ ~ entry[t].current THEN need[t]
  ELSE IF entry[t].failed /\ entry[t].claim = 0 /\ entry[t].wait > 0 THEN entry[t].wait
  ELSE Min({entry[t].wait, need[t]})

Wait(t) == CASE t \in Immediate -> 0 [] t \in Deadline -> need[t] [] t \in Kept -> KeptWait(t)

\* A kept task of another authority is removed first, with its attempts.
Replaced(t, revision) ==
  IF t \in Kept /\ entry[t] # None /\ ~ entry[t].current
  THEN [Scheduled(t, Wait(t), revision) EXCEPT ![t].failed = FALSE]
  ELSE Scheduled(t, Wait(t), revision)

Seen == IF Head(worker.todo) \in Deadline THEN {t \in Immediate : need[t] # None} ELSE worker.seen

\* reconstruct(), one task
Reconstruct ==
  LET t == Head(worker.todo)
      next == [worker EXCEPT !.todo = Tail(@), !.seen = Seen]
  IN /\ worker.phase \in {"reconstruct", "close"} /\ worker.todo # <<>>
     /\ \/ ~ Wanted(t) /\ Write(Cancelled(t), next)
        \/ Wanted(t) /\ \E r \in Revisions(t) : Write(Replaced(t, r), next)
     /\ UNCHANGED <<need, stranded, owed>>

Due(t) == entry[t] # None /\ entry[t].wait = 0 /\ entry[t].claim = 0

ListDue ==
  /\ worker.phase = "reconstruct" /\ worker.todo = <<>>
  /\ worker' = [worker EXCEPT !.phase = "serve", !.due = {t \in Tasks : Due(t)}]
  /\ UNCHANGED <<need, entry, alarm, telling, stranded, owed, dirty, troubles>>

\* claim(), and the call of the handler
Claim(t) ==
  /\ worker.phase = "serve" /\ t \in worker.due
  /\ IF Due(t)
     THEN /\ entry' = [entry EXCEPT ![t].claim = Lease, ![t].failed = t \in Kept, ![t].revision = "same"]
          /\ worker' = [worker EXCEPT !.phase = "dispatch", !.due = @ \ {t}, !.held = t]
     ELSE worker' = [worker EXCEPT !.due = @ \ {t}] /\ UNCHANGED entry
  /\ UNCHANGED <<need, alarm, telling, stranded, owed, dirty, troubles>>

Mine == entry[worker.held] # None /\ entry[worker.held].revision = "same"

Served == [worker EXCEPT !.phase = "serve", !.held = None]

\* finish(): a task that was scheduled again meanwhile stays.
Finish ==
  /\ worker.phase = "dispatch"
  /\ Write(Released(IF Mine THEN Cancelled(worker.held) ELSE entry), Served)
  /\ UNCHANGED <<need, stranded, owed>>

\* finish() after the handler threw
FinishFailed ==
  LET t == worker.held
  IN /\ worker.phase = "dispatch"
     /\ Write(Released(IF Mine THEN [entry EXCEPT ![t].wait = Retry, ![t].claim = 0] ELSE entry), Served)
     /\ owed' = IF Mine /\ entry[t].current /\ t \in Watched THEN [owed EXCEPT ![t] = Retry] ELSE owed
     /\ UNCHANGED <<need, stranded>>

\* The tasks are reconstructed once more, after the last handler.
Close ==
  /\ worker.phase = "serve" /\ worker.due = {}
  /\ worker' = [Woken EXCEPT !.phase = "close"]
  /\ UNCHANGED <<need, entry, alarm, telling, stranded, owed, dirty, troubles>>

EndWake ==
  /\ worker.phase = "close" /\ worker.todo = <<>>
  /\ worker' = Idle
  /\ alarm' = Armed(entry)
  /\ UNCHANGED <<need, entry, telling, stranded, owed, dirty, troubles>>

\* A call of the storage fails: reconstruct() gives up the rest, anything else ends the wake.
Fail ==
  /\ Trouble /\ dirty' = TRUE
  /\ \/ /\ worker.phase \in {"reconstruct", "close"} /\ worker.todo # <<>>
        /\ worker' = [worker EXCEPT !.todo = <<>>]
     \/ /\ \/ worker.phase = "serve"
           \/ worker.phase \in {"reconstruct", "close"} /\ worker.todo = <<>>
        /\ worker' = Idle
  /\ UNCHANGED <<need, entry, alarm, telling, stranded, owed>>

--------------------------------------------------------------------------------
\* The browser

Wakes(next) ==
  /\ worker' = next /\ dirty' = FALSE
  /\ stranded' = IF Alive THEN stranded ELSE {t \in Immediate : need[t] # None}

\* The alarm starts the worker, or a wake; a wake that is under way is joined.
AlarmFires ==
  /\ alarm = 0 /\ alarm' = None
  /\ IF worker.phase \in {"off", "idle"} THEN Wakes(Woken)
     ELSE UNCHANGED <<worker, stranded, dirty>>
  /\ UNCHANGED <<need, entry, telling, owed, troubles>>

\* So does any other event that starts the worker; a running one is woken by some.
Event ==
  /\ worker.phase \in {"off", "idle"}
  /\ Wakes(Woken)
  /\ UNCHANGED <<need, entry, alarm, telling, owed, troubles>>

\* A worker with nothing to do is stopped.
Stop ==
  /\ worker = Idle /\ telling = {}
  /\ worker' = Off
  /\ UNCHANGED <<need, entry, alarm, telling, stranded, owed, dirty, troubles>>

Die ==
  /\ Alive /\ Trouble
  /\ worker' = Off /\ telling' = {}
  /\ dirty' = TRUE
  /\ entry' = Released(entry)
  /\ UNCHANGED <<need, alarm, stranded, owed>>

Passed(wait) == IF wait \in {None, 0} THEN wait ELSE wait - 1

Tick ==
  /\ need' = [t \in Tasks |-> Passed(need[t])]
  /\ owed' = [t \in Tasks |-> Passed(owed[t])]
  /\ alarm' = Passed(alarm)
  /\ entry' = [t \in Tasks |-> IF entry[t] = None THEN None
                 ELSE [entry[t] EXCEPT !.wait = Passed(@), !.claim = Passed(@)]]
  /\ <<need, owed, alarm, entry>> # <<need', owed', alarm', entry'>>
  /\ UNCHANGED <<worker, telling, stranded, dirty, troubles>>

--------------------------------------------------------------------------------
\* The owners

\* The record of an owner changes, by a handler or by whatever else runs: new work, or none.
Change(t, wait) ==
  /\ Alive /\ wait # need[t]
  /\ t \in Immediate => wait \in {0, None}
  /\ need' = [need EXCEPT ![t] = wait]
  /\ owed' = [owed EXCEPT ![t] = 0]
  /\ stranded' = stranded \ {t}
  /\ telling' = IF t \in Deadline /\ wait # None THEN telling \cup {t} ELSE telling
  /\ entry' = IF t \in Kept /\ entry[t] # None THEN [entry EXCEPT ![t].current = FALSE] ELSE entry
  /\ UNCHANGED <<alarm, worker, dirty, troubles>>

\* scheduleProviderQuotaWake: a time later than the one at which a wake listed the task is
\* not due for that wake.
ScheduleWake(t, wait, pushed) ==
  /\ \E r \in Revisions(t) : entry' = [Scheduled(t, wait, r) EXCEPT ![t].pushed = pushed]
  /\ alarm' = Armed(entry')
  /\ worker' = IF wait = 0 THEN worker ELSE [worker EXCEPT !.due = @ \ {t}]

\* The owner announces its time, though the work may be gone by then.
Announce(t) ==
  /\ t \in telling
  /\ \E wait \in IF need[t] = None THEN 0 .. MaxWait ELSE {need[t]} : ScheduleWake(t, wait, FALSE)
  /\ telling' = telling \ {t}
  /\ UNCHANGED <<need, stranded, owed, dirty, troubles>>

\* Another owner of the same task announces a later time, which replaces the earlier one.
PushBack(t) ==
  /\ Alive /\ Trouble
  /\ need[t] # None
  /\ \E wait \in need[t] + 1 .. MaxWait : ScheduleWake(t, wait, TRUE)
  /\ UNCHANGED <<need, telling, stranded, owed, dirty>>

--------------------------------------------------------------------------------
Init ==
  /\ need = [t \in Tasks |-> None]
  /\ entry = [t \in Tasks |-> None]
  /\ alarm = None
  /\ worker = Off
  /\ telling = {} /\ stranded = {}
  /\ owed = [t \in Tasks |-> 0]
  /\ dirty = FALSE /\ troubles = 0

Wake == Reconstruct \/ ListDue \/ (\E t \in Tasks : Claim(t)) \/ Finish \/ FinishFailed \/ Close \/ EndWake

Next ==
  \/ Wake \/ Fail
  \/ AlarmFires \/ Event \/ Stop \/ Die \/ Tick
  \/ \E t \in Deadline : Announce(t) \/ PushBack(t)
  \/ \E t \in Tasks : \E wait \in 0 .. MaxWait \cup {None} : Change(t, wait)

Spec == Init /\ [][Next]_vars

\* The worker's steps are awaited on storage and handlers, which answer or throw; time
\* passes, and alarms fire.  Nobody is sure to open a popup or a page, except some time after
\* a worker died or a wake failed.
FairSpec ==
  /\ Spec
  /\ WF_vars(Wake) /\ WF_vars(Tick) /\ WF_vars(AlarmFires) /\ WF_vars(dirty /\ Event)
  /\ WF_vars(\E t \in Deadline : Announce(t))

--------------------------------------------------------------------------------
\* Every variable has its type, and a revision is told from others only while it is held.
TypeOK ==
  /\ need \in [Tasks -> 0 .. MaxWait \cup {None}]
  /\ entry \in [Tasks -> Entries \cup {None}]
  /\ \A t \in Present(entry) : entry[t].revision # "beyond" => worker.held = t
  /\ alarm \in Nat \cup {None}
  /\ worker.phase \in {"off", "idle", "reconstruct", "serve", "dispatch", "close"}
  /\ worker.phase = "dispatch" <=> worker.held # None
  /\ worker.due \subseteq Tasks /\ worker.seen \subseteq Immediate
  /\ telling \subseteq Deadline /\ stranded \subseteq Immediate
  /\ owed \in [Tasks -> 0 .. Retry]
  /\ dirty \in BOOLEAN /\ troubles \in 0 .. MaxTroubles

Covered(t) ==
  /\ entry[t] # None /\ alarm # None
  /\ entry[t].wait <= need[t] \/ entry[t].pushed
  /\ alarm <= entry[t].wait

\* Between two wakes no work is forgotten: what an owner announced, and what a worker that
\* died had left, has a task and the alarm is set for it, in time unless another owner's later
\* time has replaced it, however wakes, owners' changes and handlers were interleaved; unless
\* the last wake failed half way.
NothingForgotten ==
  worker.phase \in {"idle", "off"} /\ ~ dirty =>
    \A t \in Tasks :
      need[t] # None /\ (t \in Deadline \ telling \/ (t \in stranded /\ Alive)) => Covered(t)

\* A failed refresh of the access is not tried again before its backoff is over, whatever
\* wakes the worker meanwhile and however often it dies; unless the authority changed.
BackoffKept == \A t \in Kept : worker.held = t => owed[t] = 0

\* Announced work that is due, and what a worker that died had left, has its handler called
\* or is gone, by the alarm alone, though workers die, storage fails and handlers throw.
WorkIsServed ==
  /\ \A t \in Deadline : need[t] = 0 ~> (need[t] # 0 \/ worker.held = t)
  /\ \A t \in Immediate : t \in stranded ~> (t \notin stranded \/ worker.held = t)
================================================================================
