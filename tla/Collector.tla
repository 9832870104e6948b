------------------------------ MODULE Collector ------------------------------
(***************************************************************************)
(* A collection cycle: run_locked and its workers in state-cron.py, and    *)
(* collect() of local_ip_harvest.py, as far as they decide when an account *)
(* is probed.  Which exit is probed is RouteRotation's subject.            *)
(*                                                                         *)
(* The cycle lock admits one cycle at a time.  cron-state.json is read     *)
(* when the cycle starts, written once before the workers run and once     *)
(* after all of them have returned; between the two, what workers learn is *)
(* in memory only.                                                         *)
(***************************************************************************)
EXTENDS Integers, FiniteSets

CONSTANTS
  Account,
  Workers,        \* 3: max_workers of the thread pool
  MissingEvery,   \* 20 s: retry_interval("missing")
  RenewEvery,     \* 300 s: retry_interval of every other status
  Budget,         \* 150 s: the deadline, counted from the start of the batch
  Reserve,        \* 65 s: what an attempt may take
  Cooldowns,      \* how long an upstream may ask a collector to wait
  Losses,         \* bound: the kinds of loss, at most one in a behaviour
  MaxTime         \* bound

ASSUME CollectorAssumption ==
  /\ IsFiniteSet(Account)
  /\ {Workers, MissingEvery, RenewEvery} \subseteq Nat \ {0}
  /\ MissingEvery <= RenewEvery
  /\ {Budget, Reserve, MaxTime} \subseteq Nat
  /\ Losses \subseteq {"kill", "raise"}
  /\ \A w \in Cooldowns : w \in Nat /\ w >= RenewEvery  \* at least 300 s

VARIABLES
  now,
  file,       \* cron-state.json
  mem,        \* the `state` dictionary of the running cycle
  phase,      \* of the cycle: none, looking for exits, or probing
  deadline,   \* of its batch
  work,       \* the worker's progress on each account
  raised,     \* has a worker of this batch raised an exception?
  kills, raises,
  denied,     \* history: the upstream denied the account's credential
  until,      \* history: the upstream asked to wait until then
  lastJob,    \* history: when a cycle last chose the account
  lastProbe   \* history: when the account was last probed

cycle   == <<file, phase, deadline, raised>>
env     == <<kills, raises>>
history == <<denied, until, lastJob, lastProbe>>
vars    == <<now, mem, work, cycle, env, history>>

State == [attempts : [Account -> Nat], next : [Account -> Nat],
          auth : [Account -> BOOLEAN]]

NewState == [attempts |-> [a \in Account |-> 0], next |-> [a \in Account |-> 0],
             auth |-> [a \in Account |-> FALSE]]

\* "none": no job; "queued": in the pool; "probe", "verify": a request is out;
\* "test": a candidate has been queued for the plugin, the account test runs.
Stage == {"none", "queued", "probe", "verify", "test", "done"}
Job   == [stage : Stage, every : {0, MissingEvery, RenewEvery}]
NoJob == [stage |-> "none", every |-> 0]

Probing(a) == work[a].stage \in {"probe", "verify", "test"}
Active     == {a \in Account : Probing(a)}

Init ==
  /\ now = RenewEvery
  /\ file = NewState
  /\ mem = NewState
  /\ phase = "idle"
  /\ deadline = 0
  /\ work = [a \in Account |-> NoJob]
  /\ raised = FALSE
  /\ kills = 0 /\ raises = 0
  /\ denied = [a \in Account |-> FALSE]
  /\ until = [a \in Account |-> 0]
  /\ lastJob = [a \in Account |-> 0]
  /\ lastProbe = [a \in Account |-> 0]

\* Every cycle so far has come to its second save.
NothingLost == kills = 0 /\ raises = 0

-----------------------------------------------------------------------------
\* (mutant) The first save is left to the end of the batch.
SavedLater(state) == file' = file

\* The first save, before anything is sent.
SavedFirst(state) == file' = state

\* (mutant) One second less, for the timer's jitter.
RetryIntervalShort(status) == (IF status = "missing" THEN MissingEvery ELSE RenewEvery) - 1

RetryInterval(status) == IF status = "missing" THEN MissingEvery ELSE RenewEvery

\* The tickets decide the status of each account.  Those that are due, and
\* whose last attempt is an interval ago, become jobs; this is saved at once.
BeginCycle(status) ==
  LET due == {a \in Account : /\ status[a] \in {"missing", "renew_due"}
                              /\ now - file.attempts[a] >= RetryInterval(status[a])}
      state == [file EXCEPT !.attempts =
                  [a \in Account |-> IF a \in due THEN now ELSE @[a]]] IN
  /\ phase = "idle"
  /\ phase' = "routes"
  /\ mem' = state
  /\ SavedFirst(state)
  /\ work' = [a \in Account |-> IF a \in due
                THEN [stage |-> "queued", every |-> RetryInterval(status[a])] ELSE NoJob]
  /\ lastJob' = [a \in Account |-> IF a \in due THEN now ELSE lastJob[a]]
  /\ UNCHANGED <<now, deadline, raised, env, denied, until, lastProbe>>

\* routes_for has asked the database and every generator: the batch begins and
\* its time runs.
StartBatch ==
  /\ phase = "routes"
  /\ phase' = "batch"
  /\ deadline' = now + Budget
  /\ UNCHANGED <<now, mem, work, file, raised, env, history>>

\* The cycle is over; its memory is gone.
CycleGone ==
  /\ phase' = "idle"
  /\ mem' = NewState
  /\ work' = [a \in Account |-> NoJob]
  /\ deadline' = 0
  /\ raised' = FALSE

\* routes_for raises: the database or the list of exits cannot be read.
RoutesFail ==
  /\ phase = "routes"
  /\ NothingLost /\ "raise" \in Losses
  /\ raises' = raises + 1
  /\ CycleGone
  /\ UNCHANGED <<now, file, kills, history>>

\* A worker of the pool can take the account's job.
Takes(a) ==
  /\ phase = "batch"
  /\ work[a].stage = "queued"
  /\ Cardinality(Active) < Workers

\* (mutant) The pause of a denied credential ends with its waiting time.
PausedByTime(a) == mem.next[a] > now

Paused(a) == mem.auth[a] \/ mem.next[a] > now

Goto(a, s) == work' = [work EXCEPT ![a].stage = s]

\* (mutant) A job that comes after the deadline is left in the pool.
SkipPausedOnly(a) ==
  /\ Takes(a)
  /\ Paused(a)
  /\ Goto(a, "done")
  /\ UNCHANGED <<now, mem, cycle, env, history>>

\* collect() returns at once: the account is paused or the time is used up.
SkipAccount(a) ==
  /\ Takes(a)
  /\ Paused(a) \/ now > deadline
  /\ Goto(a, "done")
  /\ UNCHANGED <<now, mem, cycle, env, history>>

\* (mutant) The next attempt is left as it was.
NextAttemptKept(a) == mem' = mem

NextAttemptSet(a) == mem' = [mem EXCEPT !.next[a] = now + work[a].every]

\* The next attempt is put off before there is an attempt, and without one if
\* less than Reserve is left.
StartProbe(a) ==
  /\ Takes(a)
  /\ ~Paused(a) /\ now <= deadline
  /\ NextAttemptSet(a)
  /\ IF now + Reserve > deadline
     THEN Goto(a, "done") /\ lastProbe' = lastProbe
     ELSE Goto(a, "probe") /\ lastProbe' = [lastProbe EXCEPT ![a] = now]
  /\ UNCHANGED <<now, cycle, env, denied, until, lastJob>>

\* The exit failed, or what came was no complete ticket of the model.
ProbeFails(a) ==
  /\ work[a].stage \in {"probe", "verify"}
  /\ Goto(a, "done")
  /\ UNCHANGED <<now, mem, cycle, env, history>>

\* The candidate has the right form: carry it in a second request; verified,
\* it goes to incoming/ and the account is tested through the plugin.
ProbeOK(a) ==
  /\ work[a].stage \in {"probe", "verify"}
  /\ Goto(a, IF work[a].stage = "probe" THEN "verify" ELSE "test")
  /\ UNCHANGED <<now, mem, cycle, env, history>>

\* The upstream stops the account: 401, 403 or a denial in the stream (auth),
\* or 429 and the like; w is the waiting time it asks for.
Stopped(a, auth, w) ==
  /\ work[a].stage \in {"probe", "verify"}
  /\ mem' = [mem EXCEPT !.auth[a] = auth, !.next[a] = now + w]
  /\ denied' = [denied EXCEPT ![a] = @ \/ auth]
  /\ until' = [until EXCEPT ![a] = now + w]
  /\ Goto(a, "done")
  /\ UNCHANGED <<now, cycle, env, lastJob, lastProbe>>

FinishAccount(a) ==
  /\ work[a].stage = "test"
  /\ Goto(a, "done")
  /\ UNCHANGED <<now, mem, cycle, env, history>>

\* The worker raises: the event log, incoming/ or tickets.json cannot be
\* written or read.  The workers under way go on.
WorkerRaises(a) ==
  /\ NothingLost /\ "raise" \in Losses
  /\ phase = "batch"
  /\ \/ Probing(a)
     \/ Takes(a)
  /\ Goto(a, "done")
  /\ raised' = TRUE
  /\ raises' = raises + 1
  /\ UNCHANGED <<now, mem, file, phase, deadline, kills, history>>

\* The iteration over the results has come to the exception: Executor.map
\* cancels the jobs that no worker has taken yet.
CancelPending ==
  /\ raised
  /\ \E a \in Account : work[a].stage = "queued"
  /\ work' = [a \in Account |-> IF work[a].stage = "queued"
                THEN [work[a] EXCEPT !.stage = "done"] ELSE work[a]]
  /\ UNCHANGED <<now, mem, cycle, env, history>>

\* All workers have returned.  The second save is skipped by an exception.
EndCycle ==
  /\ phase = "batch"
  /\ \A a \in Account : work[a].stage \in {"none", "done"}
  /\ file' = IF raised THEN file ELSE mem
  /\ CycleGone
  /\ UNCHANGED <<now, env, history>>

\* TimeoutStartSec, a reboot: what is in memory is lost.
Kill ==
  /\ phase # "idle"
  /\ NothingLost /\ "kill" \in Losses
  /\ kills' = kills + 1
  /\ CycleGone
  /\ UNCHANGED <<now, file, raises, history>>

\* The account gets a new credential: the state of another hash, empty.  (During
\* a cycle the workers go on with the old one; the new one counts afterwards.)
RotateCredential(a) ==
  /\ phase = "idle"
  /\ file' = [file EXCEPT !.auth[a] = FALSE, !.next[a] = 0]
  /\ denied' = [denied EXCEPT ![a] = FALSE]
  /\ until' = [until EXCEPT ![a] = 0]
  /\ lastProbe' = [lastProbe EXCEPT ![a] = 0]
  /\ UNCHANGED <<now, mem, phase, deadline, work, raised, env, lastJob>>

Tick ==
  /\ now < MaxTime
  /\ now' = now + 1
  /\ UNCHANGED <<mem, work, cycle, env, history>>

Worker(a) ==
  \/ SkipAccount(a) \/ StartProbe(a) \/ ProbeFails(a) \/ ProbeOK(a) \/ FinishAccount(a)
  \/ \E auth \in BOOLEAN, w \in Cooldowns : Stopped(a, auth, w)

Next ==
  \/ \E status \in [Account -> {"fresh", "renew_due", "missing"}] : BeginCycle(status)
  \/ \E a \in Account : Worker(a) \/ WorkerRaises(a) \/ RotateCredential(a)
  \/ StartBatch \/ RoutesFail \/ CancelPending \/ EndCycle \/ Kill \/ Tick

Spec == Init /\ [][Next]_vars

\* Requests have timeouts, so every worker returns; then the cycle ends.
LiveSpec == Spec /\ WF_vars(StartBatch \/ EndCycle) /\ \A a \in Account : WF_vars(Worker(a))

-----------------------------------------------------------------------------
\* Every variable has its type.
TypeOK ==
  /\ now \in Nat /\ deadline \in Nat
  /\ file \in State /\ mem \in State
  /\ phase \in {"idle", "routes", "batch"} /\ raised \in BOOLEAN
  /\ work \in [Account -> Job]
  /\ kills \in Nat /\ raises \in Nat
  /\ denied \in [Account -> BOOLEAN]
  /\ until \in [Account -> Nat]
  /\ lastJob \in [Account -> Nat] /\ lastProbe \in [Account -> Nat]

StartsProbing(a) == work[a].stage = "queued" /\ work'[a].stage = "probe"

\* CUSTOMIZATION: a 401 or 403 pauses the credential, a 429 is waited out.  No
\* later cycle probes the account before, in whatever order the workers end.
StopsHonoured ==
  [][\A a \in Account : StartsProbing(a) => ~denied[a] /\ now >= until[a]]_vars

\* The same of a collector that has neither been killed nor met an exception.
StopsKept ==
  [][\A a \in Account :
       NothingLost /\ StartsProbing(a) => ~denied[a] /\ now >= until[a]]_vars

\* README: at least 20 seconds between two attempts for one account, however
\* late in its batch the first one started.  (Again with nothing lost.)
ProbesSpaced ==
  [][\A a \in Account :
       NothingLost /\ StartsProbing(a) => now >= lastProbe[a] + MissingEvery]_vars

\* A cycle that is killed or fails half-way does not choose its accounts again
\* at once: the choice is on disk before the first request goes out.
ChoicesSpaced ==
  [][\A a \in Account : lastJob'[a] # lastJob[a] => now >= lastJob[a] + MissingEvery]_vars

\* Every cycle ends, so that the lock is free for the next.
CyclesEnd ==
  phase # "idle" ~> phase = "idle"
=============================================================================
