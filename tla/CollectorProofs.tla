--------------------------- MODULE CollectorProofs ---------------------------
(***************************************************************************)
(* Proofs about Collector: types, denials and waiting times that outlive   *)
(* the cycle, and the distance between probes and between choices.         *)
(***************************************************************************)
EXTENDS Collector, TLAPS

\* What is known of an account is in the state that counts: the file between
\* two cycles, the dictionary of the cycle while one runs.
Current == IF phase = "idle" THEN file ELSE mem

StopKnown(s, a)  == (denied[a] => s.auth[a]) /\ until[a] <= s.next[a]
ProbeKnown(s, a) == lastProbe[a] = 0 \/ lastProbe[a] + MissingEvery <= s.next[a]

Known ==
  NothingLost =>
    /\ ~raised
    /\ \A a \in Account :
         /\ StopKnown(Current, a) /\ ProbeKnown(Current, a)
         /\ Probing(a) => ~denied[a]

\* Jobs have an interval, and the past is past.
Timed ==
  /\ now >= RenewEvery
  /\ \A a \in Account :
       /\ lastProbe[a] <= now
       /\ work[a].stage = "queued" => work[a].every \in {MissingEvery, RenewEvery}

\* Requests are only out while a batch runs.
Running == \A a \in Account : Probing(a) => phase = "batch"

\* The file knows of every choice, before anything is sent and for good.
Chosen ==
  \A a \in Account :
    /\ lastJob[a] <= file.attempts[a]
    /\ phase # "idle" => lastJob[a] <= mem.attempts[a]

-----------------------------------------------------------------------------
LEMMA Intervals ==
  /\ MissingEvery \in Nat /\ RenewEvery \in Nat /\ MissingEvery > 0
  /\ Budget \in Nat /\ Reserve \in Nat
  /\ \A w \in Cooldowns : w \in Nat /\ w >= RenewEvery
  /\ MissingEvery <= RenewEvery
BY CollectorAssumption

LEMMA EmptyState ==
  /\ NewState \in State /\ NoJob \in Job
  /\ NoJob.stage = "none"
BY DEF NewState, State, NoJob, Job, Stage

\* The fields of a state, and what an account's update leaves of it.
LEMMA StateFields ==
  ASSUME NEW s \in State
  PROVE  /\ s.attempts \in [Account -> Nat] /\ s.next \in [Account -> Nat]
         /\ s.auth \in [Account -> BOOLEAN]
BY DEF State

\* What a cycle makes of the file when it begins.
LEMMA Begun ==
  ASSUME TypeOK, NEW status, BeginCycle(status)
  PROVE  \E due \in SUBSET Account :
           /\ \A a \in due : now - file.attempts[a] >= MissingEvery
           /\ file' = mem' /\ mem' \in State
           /\ mem'.next = file.next /\ mem'.auth = file.auth
           /\ \A a \in Account : mem'.attempts[a] = IF a \in due THEN now ELSE file.attempts[a]
           /\ \A a \in Account : lastJob'[a] = IF a \in due THEN now ELSE lastJob[a]
           /\ lastJob' \in [Account -> Nat]
           /\ work' \in [Account -> Job]
           /\ \A a \in Account : work'[a].stage \in {"none", "queued"}
           /\ \A a \in Account : work'[a].stage = "queued"
                                   => work'[a].every \in {MissingEvery, RenewEvery}
<1> DEFINE due == {a \in Account : /\ status[a] \in {"missing", "renew_due"}
                                   /\ now - file.attempts[a] >= RetryInterval(status[a])}
           attempts == [a \in Account |-> IF a \in due THEN now ELSE file.attempts[a]]
           state == [file EXCEPT !.attempts = [a \in Account |-> IF a \in due THEN now ELSE @[a]]]
<1>1. /\ mem' = state /\ file' = state
      /\ work' = [a \in Account |-> IF a \in due
                    THEN [stage |-> "queued", every |-> RetryInterval(status[a])] ELSE NoJob]
      /\ lastJob' = [a \in Account |-> IF a \in due THEN now ELSE lastJob[a]]
  BY DEF BeginCycle, SavedFirst
<1>2. state = [file EXCEPT !.attempts = attempts] /\ attempts \in [Account -> Nat]
  BY DEF TypeOK, State
<1>3. state \in State /\ state.next = file.next /\ state.auth = file.auth
      /\ state.attempts = attempts
  BY <1>2 DEF TypeOK, State
<1>4. \A a \in Account : RetryInterval(status[a]) \in {MissingEvery, RenewEvery}
  BY DEF RetryInterval
<1>5. /\ work' \in [Account -> Job]
      /\ \A a \in Account : work'[a].stage \in {"none", "queued"}
      /\ \A a \in Account : work'[a].stage = "queued"
                              => work'[a].every \in {MissingEvery, RenewEvery}
  BY <1>1, <1>4, EmptyState DEF Job, Stage
<1>6. lastJob' \in [Account -> Nat]
  BY <1>1 DEF TypeOK
<1> HIDE DEF state, attempts
<1>7. due \in SUBSET Account
  OBVIOUS
<1>8. \A a \in Account : mem'.attempts[a] = IF a \in due THEN now ELSE file.attempts[a]
  BY <1>1, <1>3 DEF attempts
<1>9. \A a \in due : now - file.attempts[a] >= MissingEvery
  BY <1>4, Intervals DEF TypeOK, State
<1>10. QED
  BY <1>1, <1>3, <1>5, <1>6, <1>7, <1>8, <1>9

\* An account's worker moves on.
LEMMA Moved ==
  ASSUME TypeOK, NEW a \in Account, NEW s \in Stage, Goto(a, s)
  PROVE  /\ work' \in [Account -> Job]
         /\ work'[a].stage = s /\ work'[a].every = work[a].every
         /\ \A b \in Account \ {a} : work'[b] = work[b]
BY DEF Goto, TypeOK, Job

\* The state of an account that is about to be probed.
LEMMA PutOff ==
  ASSUME TypeOK, NEW a \in Account, NextAttemptSet(a)
  PROVE  /\ mem' \in State
         /\ mem'.attempts = mem.attempts /\ mem'.auth = mem.auth
         /\ mem'.next[a] = now + work[a].every
         /\ \A b \in Account \ {a} : mem'.next[b] = mem.next[b]
<1>1. work[a].every \in Nat
  BY Intervals DEF TypeOK, Job
<1>2. QED
  BY <1>1 DEF NextAttemptSet, TypeOK, State

\* The state of an account that was stopped.
LEMMA Told ==
  ASSUME TypeOK, NEW a \in Account, NEW auth \in BOOLEAN, NEW w \in Cooldowns, Stopped(a, auth, w)
  PROVE  /\ mem' \in State /\ mem'.attempts = mem.attempts
         /\ mem'.next[a] = now + w /\ mem'.auth[a] = auth
         /\ \A b \in Account \ {a} : mem'.next[b] = mem.next[b] /\ mem'.auth[b] = mem.auth[b]
         /\ denied' \in [Account -> BOOLEAN] /\ until' \in [Account -> Nat]
         /\ denied'[a] = (denied[a] \/ auth) /\ until'[a] = now + w
         /\ \A b \in Account \ {a} : denied'[b] = denied[b] /\ until'[b] = until[b]
<1>1. w \in Nat
  BY Intervals
<1>2. mem' = [mem EXCEPT !.auth[a] = auth, !.next[a] = now + w]
  BY DEF Stopped
<1>3. /\ denied' = [denied EXCEPT ![a] = @ \/ auth]
      /\ until' = [until EXCEPT ![a] = now + w]
  BY DEF Stopped
<1>4. /\ mem' \in State /\ mem'.attempts = mem.attempts
      /\ mem'.next[a] = now + w /\ mem'.auth[a] = auth
      /\ \A b \in Account \ {a} : mem'.next[b] = mem.next[b] /\ mem'.auth[b] = mem.auth[b]
  <2> DEFINE auths == [mem.auth EXCEPT ![a] = auth]
             nexts == [mem.next EXCEPT ![a] = now + w]
  <2>1. auths \in [Account -> BOOLEAN] /\ nexts \in [Account -> Nat]
    BY <1>1 DEF TypeOK, State
  <2>2. mem'.auth = auths /\ mem'.next = nexts /\ mem'.attempts = mem.attempts
    BY <1>2 DEF TypeOK, State
  <2>3. mem' \in State
    <3>1. mem' = [mem EXCEPT !.auth = auths, !.next = nexts]
      BY <1>2 DEF TypeOK, State
    <3>2. QED
      BY <2>1, <3>1 DEF TypeOK, State
  <2>4. auths[a] = auth /\ \A b \in Account \ {a} : auths[b] = mem.auth[b]
    BY Zenon DEF TypeOK, State
  <2>5. nexts[a] = now + w /\ \A b \in Account \ {a} : nexts[b] = mem.next[b]
    BY DEF TypeOK, State
  <2>6. QED
    BY <2>2, <2>3, <2>4, <2>5
<1>5. /\ until' \in [Account -> Nat] /\ until'[a] = now + w
      /\ \A b \in Account \ {a} : denied'[b] = denied[b] /\ until'[b] = until[b]
  BY <1>1, <1>3 DEF TypeOK
<1>6. denied' \in [Account -> BOOLEAN] /\ denied'[a] = (denied[a] \/ auth)
  BY <1>3, Zenon DEF TypeOK
<1>7. QED
  BY <1>4, <1>5, <1>6

\* The state of an account with a new credential.
LEMMA Renewed ==
  ASSUME TypeOK, NEW a \in Account, RotateCredential(a)
  PROVE  /\ file' \in State /\ file'.attempts = file.attempts
         /\ file'.next[a] = 0 /\ file'.auth[a] = FALSE
         /\ \A b \in Account \ {a} : file'.next[b] = file.next[b] /\ file'.auth[b] = file.auth[b]
         /\ denied'[a] = FALSE /\ until'[a] = 0 /\ lastProbe'[a] = 0
         /\ \A b \in Account \ {a} :
              denied'[b] = denied[b] /\ until'[b] = until[b] /\ lastProbe'[b] = lastProbe[b]
BY DEF RotateCredential, TypeOK, State

LEMMA Gone ==
  ASSUME CycleGone
  PROVE  /\ phase' = "idle" /\ deadline' = 0 /\ raised' = FALSE
         /\ mem' \in State /\ work' \in [Account -> Job]
         /\ \A a \in Account : work'[a].stage = "none"
BY EmptyState DEF CycleGone

-----------------------------------------------------------------------------
LEMMA TypesInit == Init => TypeOK
<1> SUFFICES ASSUME Init PROVE TypeOK
  OBVIOUS
<1>1. work \in [Account -> Job] /\ file \in State /\ mem \in State
  BY EmptyState DEF Init
<1>2. QED
  BY <1>1, Intervals DEF Init, TypeOK

LEMMA TypesStep == TypeOK /\ [Next]_vars => TypeOK'
<1> SUFFICES ASSUME TypeOK, [Next]_vars PROVE TypeOK'
  OBVIOUS
<1>1. ASSUME NEW status, BeginCycle(status) PROVE TypeOK'
  BY <1>1, Begun DEF BeginCycle, TypeOK, env
<1>2. CASE StartBatch
  BY <1>2, Intervals DEF StartBatch, TypeOK, env, history
<1>3. CASE RoutesFail \/ Kill
  <2>1. CycleGone /\ now' = now /\ file' = file /\ history' = history
    BY <1>3 DEF RoutesFail, Kill, history
  <2>2. kills' \in Nat /\ raises' \in Nat
    BY <1>3 DEF RoutesFail, Kill, TypeOK
  <2>3. QED
    BY <2>1, <2>2, Gone DEF TypeOK, history
<1>4. ASSUME NEW a \in Account, SkipAccount(a) \/ ProbeFails(a) \/ ProbeOK(a) \/ FinishAccount(a)
      PROVE  TypeOK'
  <2>1. PICK s \in Stage : Goto(a, s)
    BY <1>4 DEF SkipAccount, ProbeFails, ProbeOK, FinishAccount, Stage
  <2>2. work' \in [Account -> Job]
    BY <2>1, Moved
  <2>3. QED
    BY <1>4, <2>2 DEF SkipAccount, ProbeFails, ProbeOK, FinishAccount, TypeOK, cycle, env, history
<1>5. ASSUME NEW a \in Account, StartProbe(a) PROVE TypeOK'
  <2>1. PICK s \in Stage : Goto(a, s)
    BY <1>5 DEF StartProbe, Stage
  <2>2. work' \in [Account -> Job] /\ mem' \in State
    BY <1>5, <2>1, Moved, PutOff DEF StartProbe
  <2>3. lastProbe' \in [Account -> Nat]
    BY <1>5 DEF StartProbe, TypeOK
  <2>4. QED
    BY <1>5, <2>2, <2>3 DEF StartProbe, TypeOK, cycle, env
<1>6. ASSUME NEW a \in Account, NEW auth \in BOOLEAN, NEW w \in Cooldowns, Stopped(a, auth, w)
      PROVE  TypeOK'
  <2>1. work' \in [Account -> Job]
    BY <1>6, Moved DEF Stopped, Stage
  <2>2. /\ mem' \in State
        /\ denied' \in [Account -> BOOLEAN] /\ until' \in [Account -> Nat]
    BY <1>6, Told
  <2>3. QED
    BY <1>6, <2>1, <2>2 DEF Stopped, TypeOK, cycle, env
<1>7. ASSUME NEW a \in Account, WorkerRaises(a) PROVE TypeOK'
  <2>1. work' \in [Account -> Job]
    BY <1>7, Moved DEF WorkerRaises, Stage
  <2>2. QED
    BY <1>7, <2>1 DEF WorkerRaises, TypeOK, history
<1>8. CASE CancelPending
  <2>1. work' \in [Account -> Job]
    BY <1>8 DEF CancelPending, TypeOK, Job, Stage
  <2>2. QED
    BY <1>8, <2>1 DEF CancelPending, TypeOK, cycle, env, history
<1>9. CASE EndCycle
  BY <1>9, Gone DEF EndCycle, TypeOK, env, history
<1>10. ASSUME NEW a \in Account, RotateCredential(a) PROVE TypeOK'
  <2>1. file' \in State
    BY <1>10, Renewed
  <2>2. /\ denied' \in [Account -> BOOLEAN] /\ until' \in [Account -> Nat]
        /\ lastProbe' \in [Account -> Nat]
    BY <1>10 DEF RotateCredential, TypeOK
  <2>3. QED
    BY <1>10, <2>1, <2>2 DEF RotateCredential, TypeOK, env
<1>11. CASE Tick \/ UNCHANGED vars
  BY <1>11 DEF Tick, vars, TypeOK, cycle, env, history
<1>12. QED
  BY <1>1, <1>2, <1>3, <1>4, <1>5, <1>6, <1>7, <1>8, <1>9, <1>10, <1>11 DEF Next, Worker

\* Every variable of a cycle keeps its type, whatever the workers do.
THEOREM CycleTypes == Spec => []TypeOK
BY TypesInit, TypesStep, PTL DEF Spec

-----------------------------------------------------------------------------
LEMMA TimedStep == TypeOK /\ Timed /\ [Next]_vars => Timed'
<1> SUFFICES ASSUME TypeOK, Timed, [Next]_vars PROVE Timed'
  OBVIOUS
<1> USE Intervals
\* Nobody becomes queued but by the choice of the cycle.
<1>1. ASSUME now' = now, lastProbe' = lastProbe,
             \A a \in Account : work'[a].stage = "queued" => work'[a] = work[a]
      PROVE  Timed'
  BY <1>1 DEF Timed
<1>2. ASSUME NEW status, BeginCycle(status) PROVE Timed'
  BY <1>2, Begun DEF BeginCycle, Timed
<1>3. CASE StartBatch \/ UNCHANGED vars
  BY <1>1, <1>3 DEF StartBatch, vars, history
<1>4. CASE RoutesFail \/ Kill \/ EndCycle
  BY <1>1, <1>4, Gone DEF RoutesFail, Kill, EndCycle, history
<1>5. ASSUME NEW a \in Account, NEW s \in Stage \ {"queued"}, Goto(a, s)
      PROVE  \A b \in Account : work'[b].stage = "queued" => work'[b] = work[b]
  BY <1>5, Moved
<1>6. ASSUME NEW a \in Account,
             \/ SkipAccount(a) \/ ProbeFails(a) \/ ProbeOK(a) \/ FinishAccount(a) \/ WorkerRaises(a)
             \/ \E auth \in BOOLEAN, w \in Cooldowns : Stopped(a, auth, w)
      PROVE  Timed'
  <2>1. PICK s \in Stage \ {"queued"} : Goto(a, s)
    BY <1>6 DEF SkipAccount, ProbeFails, ProbeOK, FinishAccount, WorkerRaises, Stopped, Stage
  <2>2. now' = now /\ lastProbe' = lastProbe
    BY <1>6 DEF SkipAccount, ProbeFails, ProbeOK, FinishAccount, WorkerRaises, Stopped, history
  <2>3. QED
    BY <1>1, <1>5, <2>1, <2>2
<1>7. ASSUME NEW a \in Account, StartProbe(a) PROVE Timed'
  <2>1. PICK s \in Stage \ {"queued"} : Goto(a, s)
    BY <1>7 DEF StartProbe, Stage
  <2>2. \A b \in Account : lastProbe'[b] \in {lastProbe[b], now}
    BY <1>7 DEF StartProbe, TypeOK
  <2>3. now' = now
    BY <1>7 DEF StartProbe
  <2>4. QED
    BY <1>5, <2>1, <2>2, <2>3 DEF Timed, TypeOK
<1>8. CASE CancelPending
  <2>1. \A a \in Account : work'[a].stage # "queued"
    BY <1>8 DEF CancelPending, TypeOK, Job
  <2>2. QED
    BY <1>1, <1>8, <2>1 DEF CancelPending, history
<1>9. ASSUME NEW a \in Account, RotateCredential(a) PROVE Timed'
  <2>1. \A b \in Account : lastProbe'[b] \in {lastProbe[b], 0}
    BY <1>9, Renewed
  <2>2. now' = now /\ work' = work
    BY <1>9 DEF RotateCredential
  <2>3. QED
    BY <2>1, <2>2 DEF Timed, TypeOK
<1>10. CASE Tick
  BY <1>10 DEF Tick, Timed, TypeOK, history
<1>11. QED
  BY <1>2, <1>3, <1>4, <1>6, <1>7, <1>8, <1>9, <1>10 DEF Next, Worker

LEMMA ChosenStep == TypeOK /\ Chosen /\ [Next]_vars => Chosen'
<1> SUFFICES ASSUME TypeOK, Chosen, [Next]_vars PROVE Chosen'
  OBVIOUS
<1>1. ASSUME NEW status, BeginCycle(status) PROVE Chosen'
  <2>1. PICK due \in SUBSET Account :
          /\ file' = mem'
          /\ \A a \in Account : mem'.attempts[a] = IF a \in due THEN now ELSE file.attempts[a]
          /\ \A a \in Account : lastJob'[a] = IF a \in due THEN now ELSE lastJob[a]
    BY <1>1, Begun
  <2>2. QED
    BY <2>1 DEF Chosen, TypeOK
<1>2. CASE StartBatch \/ CancelPending \/ Tick \/ UNCHANGED vars
  BY <1>2 DEF StartBatch, CancelPending, Tick, vars, cycle, history, Chosen
<1>3. CASE RoutesFail \/ Kill
  BY <1>3, Gone DEF RoutesFail, Kill, history, Chosen
<1>4. CASE EndCycle
  BY <1>4, Gone DEF EndCycle, history, Chosen
<1>5. ASSUME NEW a \in Account,
             SkipAccount(a) \/ ProbeFails(a) \/ ProbeOK(a) \/ FinishAccount(a) \/ WorkerRaises(a)
      PROVE  Chosen'
  BY <1>5 DEF SkipAccount, ProbeFails, ProbeOK, FinishAccount, WorkerRaises, cycle, history, Chosen
<1>6. ASSUME NEW a \in Account, StartProbe(a) PROVE Chosen'
  BY <1>6, PutOff DEF StartProbe, cycle, Chosen
<1>7. ASSUME NEW a \in Account, NEW auth \in BOOLEAN, NEW w \in Cooldowns, Stopped(a, auth, w)
      PROVE  Chosen'
  BY <1>7, Told DEF Stopped, cycle, Chosen
<1>8. ASSUME NEW a \in Account, RotateCredential(a) PROVE Chosen'
  BY <1>8, Renewed DEF RotateCredential, Chosen
<1>9. QED
  BY <1>1, <1>2, <1>3, <1>4, <1>5, <1>6, <1>7, <1>8 DEF Next, Worker

LEMMA RunningStep == TypeOK /\ Running /\ [Next]_vars => Running'
<1> SUFFICES ASSUME TypeOK, Running, [Next]_vars PROVE Running'
  OBVIOUS
<1>1. ASSUME NEW status, BeginCycle(status) PROVE Running'
  BY <1>1, Begun DEF Running, Probing
<1>2. CASE RoutesFail \/ Kill \/ EndCycle
  BY <1>2, Gone DEF RoutesFail, Kill, EndCycle, Running, Probing
<1>3. CASE CancelPending
  BY <1>3 DEF CancelPending, TypeOK, Job, cycle, Running, Probing
<1>4. ASSUME NEW a \in Account, Worker(a) \/ WorkerRaises(a) PROVE Running'
  <2>1. PICK s \in Stage : Goto(a, s)
    BY <1>4 DEF Worker, SkipAccount, StartProbe, ProbeFails, ProbeOK, Stopped, FinishAccount,
       WorkerRaises, Stage
  <2>2. s = "done" \/ Probing(a) \/ Takes(a)
    BY <1>4, <2>1 DEF Worker, SkipAccount, StartProbe, ProbeFails, ProbeOK, Stopped, FinishAccount,
       WorkerRaises, Probing
  <2>3. phase' = phase
    BY <1>4 DEF Worker, SkipAccount, StartProbe, ProbeFails, ProbeOK, Stopped, FinishAccount,
       WorkerRaises, cycle
  <2>4. \A b \in Account : Probing(b)' => (b = a /\ s # "done") \/ Probing(b)
    BY <2>1, Moved DEF Probing
  <2>5. QED
    BY <2>2, <2>3, <2>4 DEF Running, Takes
<1>5. CASE StartBatch \/ Tick \/ UNCHANGED vars \/ \E a \in Account : RotateCredential(a)
  BY <1>5 DEF StartBatch, Tick, RotateCredential, vars, cycle, Running, Probing
<1>6. QED
  BY <1>1, <1>2, <1>3, <1>4, <1>5 DEF Next

LEMMA SafeInit == Init => Timed /\ Running /\ Chosen /\ Known
<1> SUFFICES ASSUME Init PROVE Timed /\ Running /\ Chosen /\ Known
  OBVIOUS
<1>1. \A a \in Account : work[a] = NoJob /\ lastProbe[a] = 0 /\ lastJob[a] = 0
                          /\ ~denied[a] /\ until[a] = 0
  BY DEF Init
<1>2. \A a \in Account : file.attempts[a] = 0 /\ file.next[a] = 0
  BY DEF Init, NewState
<1>3. now = RenewEvery /\ phase = "idle" /\ ~raised
  BY DEF Init
<1>4. Timed
  BY <1>1, <1>3, Intervals, EmptyState DEF Timed
<1>5. Chosen
  BY <1>1, <1>2, <1>3 DEF Chosen
<1>6. Known
  BY <1>1, <1>2, <1>3, EmptyState DEF Known, Current, StopKnown, ProbeKnown, Probing
<1>7. Running
  BY <1>1, EmptyState DEF Running, Probing
<1>8. QED
  BY <1>4, <1>5, <1>6, <1>7

\* An account's part of Known, and when it carries over.
Safe(a) ==
  /\ StopKnown(Current, a) /\ ProbeKnown(Current, a)
  /\ Probing(a) => ~denied[a]

LEMMA SafeKept ==
  ASSUME NEW a \in Account, Safe(a),
         Current'.auth[a] = Current.auth[a], Current'.next[a] = Current.next[a],
         denied'[a] = denied[a], until'[a] = until[a], lastProbe'[a] = lastProbe[a],
         Probing(a)' => Probing(a)
  PROVE  Safe(a)'
BY DEF Safe, StopKnown, ProbeKnown

LEMMA KnownStep ==
  ASSUME TypeOK, Timed, Running, Known, [Next]_vars
  PROVE  Known'
<1> SUFFICES ASSUME NothingLost', NothingLost, ~raised, \A a \in Account : Safe(a)
             PROVE  ~raised' /\ \A a \in Account : Safe(a)'
  <2>1. NothingLost' => NothingLost
    BY DEF NothingLost, Next, Worker, BeginCycle, StartBatch, RoutesFail, SkipAccount, StartProbe,
       ProbeFails, ProbeOK, Stopped, FinishAccount, WorkerRaises, CancelPending, EndCycle, Kill,
       RotateCredential, Tick, vars, env
  <2>2. QED
    BY <2>1 DEF Known, Safe
<1> USE Intervals
<1>1. ASSUME NEW status, BeginCycle(status) PROVE ~raised' /\ \A a \in Account : Safe(a)'
  <2>1. /\ phase = "idle" /\ phase' = "routes" /\ raised' = raised
        /\ denied' = denied /\ until' = until /\ lastProbe' = lastProbe
    BY <1>1 DEF BeginCycle
  <2>2. /\ Current = file /\ Current' = mem'
        /\ mem'.next = file.next /\ mem'.auth = file.auth
    BY <1>1, <2>1, Begun DEF Current
  <2>3. \A a \in Account : ~Probing(a)'
    BY <1>1, Begun DEF Probing
  <2>4. QED
    BY <2>1, <2>2, <2>3, SafeKept
<1>2. CASE StartBatch \/ Tick \/ UNCHANGED vars
  <2>1. /\ Current' = Current /\ work' = work /\ raised' = raised
        /\ denied' = denied /\ until' = until /\ lastProbe' = lastProbe
    BY <1>2 DEF StartBatch, Tick, vars, cycle, history, Current
  <2>2. QED
    BY <2>1, SafeKept DEF Probing
<1>3. CASE RoutesFail \/ Kill \/ \E a \in Account : WorkerRaises(a)
  BY <1>3 DEF RoutesFail, Kill, WorkerRaises, NothingLost, TypeOK
<1>4. ASSUME NEW a \in Account,
             \/ SkipAccount(a) \/ ProbeFails(a) \/ ProbeOK(a) \/ FinishAccount(a)
      PROVE  ~raised' /\ \A b \in Account : Safe(b)'
  <2>1. /\ Current' = Current /\ raised' = raised
        /\ denied' = denied /\ until' = until /\ lastProbe' = lastProbe
    BY <1>4 DEF SkipAccount, ProbeFails, ProbeOK, FinishAccount, cycle, history, Current
  <2>2. PICK s \in Stage : Goto(a, s) /\ (s \in {"verify", "test"} => Probing(a))
    BY <1>4 DEF SkipAccount, ProbeFails, ProbeOK, FinishAccount, Stage, Probing
  <2>3. s # "probe"
    BY <1>4, <2>2, Moved DEF SkipAccount, ProbeFails, ProbeOK, FinishAccount, Goto, TypeOK, Job
  <2>4. \A b \in Account : Probing(b)' => Probing(b)
    BY <2>2, <2>3, Moved DEF Probing
  <2>5. QED
    BY <2>1, <2>4, SafeKept
\* A probe begins: the account was not paused.
<1>5. ASSUME NEW a \in Account, StartProbe(a) PROVE ~raised' /\ \A b \in Account : Safe(b)'
  <2>1. PICK s \in Stage : Goto(a, s)
    BY <1>5 DEF StartProbe, Stage
  <2>2. /\ phase = "batch" /\ phase' = phase /\ raised' = raised /\ now' = now
        /\ denied' = denied /\ until' = until /\ work[a].stage = "queued"
        /\ ~mem.auth[a] /\ ~(mem.next[a] > now)
    BY <1>5 DEF StartProbe, Takes, Paused, cycle
  <2>3. /\ mem'.auth = mem.auth /\ mem'.next[a] = now + work[a].every
        /\ \A b \in Account \ {a} : mem'.next[b] = mem.next[b]
    BY <1>5, PutOff DEF StartProbe
  <2>4. Current = mem /\ Current' = mem'
    BY <2>2 DEF Current
  <2>5. \A b \in Account \ {a} : Safe(b)'
    <3>1. \A b \in Account \ {a} : lastProbe'[b] = lastProbe[b] /\ work'[b] = work[b]
      BY <1>5, <2>1, Moved DEF StartProbe, TypeOK
    <3>2. QED
      BY <2>2, <2>3, <2>4, <3>1, SafeKept DEF Probing
  <2>6. Safe(a)'
    <3>1. /\ ~denied[a] /\ until[a] <= mem.next[a] /\ ProbeKnown(mem, a)
          /\ work[a].every \in {MissingEvery, RenewEvery}
      BY <2>2, <2>4 DEF Safe, StopKnown, Timed
    <3>2. /\ mem.next[a] \in Nat /\ until[a] \in Nat /\ lastProbe[a] \in Nat /\ now \in Nat
      BY DEF TypeOK, State
    <3>3. until'[a] <= mem'.next[a] /\ ~denied'[a]
      BY <2>2, <2>3, <3>1, <3>2
    <3>4. lastProbe'[a] \in {lastProbe[a], now}
      BY <1>5 DEF StartProbe, TypeOK
    <3>5. ProbeKnown(mem, a)'
      BY <2>2, <2>3, <3>1, <3>2, <3>4 DEF ProbeKnown
    <3>6. QED
      BY <2>4, <3>3, <3>5 DEF Safe, StopKnown
  <2>7. QED
    BY <2>2, <2>5, <2>6
\* The upstream stops an account: it was being probed, so it was not denied.
<1>6. ASSUME NEW a \in Account, NEW auth \in BOOLEAN, NEW w \in Cooldowns, Stopped(a, auth, w)
      PROVE  ~raised' /\ \A b \in Account : Safe(b)'
  <2>1. /\ Goto(a, "done") /\ phase' = phase /\ raised' = raised /\ lastProbe' = lastProbe
        /\ Probing(a)
    BY <1>6 DEF Stopped, cycle, Probing
  <2>2. Current = mem /\ Current' = mem'
    BY <2>1 DEF Running, Current
  <2>3. \A b \in Account \ {a} : Safe(b)'
    <3>1. \A b \in Account \ {a} : Probing(b)' => Probing(b)
      BY <2>1, Moved DEF Probing, Stage
    <3>2. QED
      BY <1>6, <2>1, <2>2, <3>1, Told, SafeKept
  <2>4. Safe(a)'
    <3>1. /\ ~Probing(a)' /\ ~denied[a]
      BY <2>1, Moved DEF Probing, Stage, Safe
    <3>2. /\ mem'.next[a] = now + w /\ mem'.auth[a] = auth
          /\ denied'[a] = (denied[a] \/ auth) /\ until'[a] = now + w
      BY <1>6, Told
    <3>3. StopKnown(mem, a)'
      <4>1. until'[a] <= mem'.next[a]
        BY <3>2 DEF TypeOK
      <4>2. denied'[a] => mem'.auth[a]
        BY <3>1, <3>2, Zenon
      <4>3. QED
        BY <4>1, <4>2 DEF StopKnown
    <3>4. ProbeKnown(mem, a)'
      BY <2>1, <3>2 DEF ProbeKnown, Timed, TypeOK
    <3>5. QED
      BY <2>2, <3>1, <3>3, <3>4 DEF Safe
  <2>5. QED
    BY <2>1, <2>3, <2>4
<1>7. CASE CancelPending
  <2>1. /\ Current' = Current /\ raised' = raised
        /\ denied' = denied /\ until' = until /\ lastProbe' = lastProbe
    BY <1>7 DEF CancelPending, cycle, history, Current
  <2>2. \A a \in Account : Probing(a)' => Probing(a)
    BY <1>7 DEF CancelPending, TypeOK, Job, Probing
  <2>3. QED
    BY <2>1, <2>2, SafeKept
\* No worker raised: the second save makes the file what the cycle learnt.
<1>8. CASE EndCycle
  <2>1. /\ phase = "batch" /\ file' = mem /\ CycleGone
        /\ denied' = denied /\ until' = until /\ lastProbe' = lastProbe
    BY <1>8 DEF EndCycle, history
  <2>2. Current = mem /\ Current' = file'
    BY <2>1, Gone DEF Current
  <2>3. ~raised' /\ \A a \in Account : ~Probing(a)'
    BY <2>1, Gone DEF Probing
  <2>4. QED
    BY <2>1, <2>2, <2>3, SafeKept
<1>9. ASSUME NEW a \in Account, RotateCredential(a) PROVE ~raised' /\ \A b \in Account : Safe(b)'
  <2>1. phase = "idle" /\ phase' = phase /\ raised' = raised /\ work' = work
    BY <1>9 DEF RotateCredential
  <2>2. Current = file /\ Current' = file'
    BY <2>1 DEF Current
  <2>3. \A b \in Account \ {a} : Safe(b)'
    BY <1>9, <2>1, <2>2, Renewed, SafeKept DEF Probing
  <2>4. Safe(a)'
    <3>1. /\ file'.next[a] = 0 /\ denied'[a] = FALSE /\ until'[a] = 0 /\ lastProbe'[a] = 0
      BY <1>9, Renewed
    <3>2. StopKnown(file, a)'
      BY <3>1 DEF StopKnown
    <3>3. ProbeKnown(file, a)'
      BY <3>1 DEF ProbeKnown
    <3>4. QED
      BY <2>2, <3>1, <3>2, <3>3 DEF Safe
  <2>5. QED
    BY <2>1, <2>3, <2>4
<1>10. QED
  BY <1>1, <1>2, <1>3, <1>4, <1>5, <1>6, <1>7, <1>8, <1>9 DEF Next, Worker

CycleInv == TypeOK /\ Timed /\ Running /\ Chosen /\ Known

LEMMA CycleAlways == Spec => []CycleInv
<1>1. Init => CycleInv
  BY TypesInit, SafeInit DEF CycleInv
<1>2. CycleInv /\ [Next]_vars => CycleInv'
  BY TypesStep, TimedStep, RunningStep, ChosenStep, KnownStep DEF CycleInv
<1>3. QED
  BY <1>1, <1>2, PTL DEF Spec

-----------------------------------------------------------------------------
\* Only StartProbe takes an account from the queue to its first request.
LEMMA ProbeStarts ==
  ASSUME CycleInv, [Next]_vars, NEW a \in Account, StartsProbing(a)
  PROVE  StartProbe(a)
<1>1. work[a].stage = "queued" /\ work'[a].stage = "probe"
  BY DEF StartsProbing
<1>2. ASSUME NEW status, BeginCycle(status) PROVE FALSE
  BY <1>1, <1>2, Begun DEF CycleInv
<1>3. CASE RoutesFail \/ Kill \/ EndCycle
  BY <1>1, <1>3, Gone DEF RoutesFail, Kill, EndCycle
<1>4. CASE CancelPending
  BY <1>1, <1>4 DEF CancelPending, CycleInv, TypeOK, Job
<1>5. ASSUME NEW b \in Account, NEW s \in Stage \ {"probe"}, Goto(b, s)
      PROVE  FALSE
  BY <1>1, <1>5, Moved DEF CycleInv
<1>6. ASSUME NEW b \in Account, Worker(b) \/ WorkerRaises(b), ~StartProbe(b) PROVE FALSE
  <2>1. PICK s \in Stage \ {"probe"} : Goto(b, s)
    BY <1>6 DEF Worker, SkipAccount, ProbeFails, ProbeOK, Stopped, FinishAccount, WorkerRaises, Stage
  <2>2. QED
    BY <1>5, <2>1
<1>7. ASSUME NEW b \in Account, StartProbe(b), b # a PROVE FALSE
  <2>1. PICK s \in Stage : Goto(b, s)
    BY <1>7 DEF StartProbe, Stage
  <2>2. QED
    BY <1>1, <1>7, <2>1, Moved DEF CycleInv
<1>8. CASE StartBatch \/ Tick \/ UNCHANGED vars \/ \E b \in Account : RotateCredential(b)
  BY <1>1, <1>8 DEF StartBatch, Tick, RotateCredential, vars
<1>9. QED
  BY <1>2, <1>3, <1>4, <1>6, <1>7, <1>8 DEF Next

LEMMA ProbeUnpaused ==
  ASSUME CycleInv, [Next]_vars, NEW a \in Account, NothingLost, StartsProbing(a)
  PROVE  /\ ~denied[a] /\ now >= until[a]
         /\ now >= lastProbe[a] + MissingEvery
<1>1. phase = "batch" /\ ~mem.auth[a] /\ ~(mem.next[a] > now)
  BY ProbeStarts DEF StartProbe, Takes, Paused
<1>2. StopKnown(mem, a) /\ ProbeKnown(mem, a)
  BY <1>1 DEF CycleInv, Known, Current
<1>3. /\ mem.next[a] \in Nat /\ until[a] \in Nat /\ lastProbe[a] \in Nat /\ now \in Nat
      /\ now >= RenewEvery
  BY DEF CycleInv, TypeOK, State, Timed
<1>4. QED
  BY <1>1, <1>2, <1>3, Intervals DEF StopKnown, ProbeKnown

\* As long as no cycle was killed or raised an exception, what any worker was
\* told in any cycle holds for all later ones: what counts passes from the
\* dictionary to the file and back.
THEOREM StopsOutliveCycles == Spec => StopsKept
<1>1. CycleInv /\ [Next]_vars
        => [\A a \in Account :
              NothingLost /\ StartsProbing(a) => ~denied[a] /\ now >= until[a]]_vars
  BY ProbeUnpaused
<1>2. QED
  BY <1>1, CycleAlways, PTL DEF Spec, StopsKept

\* Two probes of an account are at least the shorter interval apart, for any
\* number of workers and accounts and however long a batch waits in the pool.
THEOREM ProbesKeepDistance == Spec => ProbesSpaced
<1>1. CycleInv /\ [Next]_vars
        => [\A a \in Account :
              NothingLost /\ StartsProbing(a) => now >= lastProbe[a] + MissingEvery]_vars
  BY ProbeUnpaused
<1>2. QED
  BY <1>1, CycleAlways, PTL DEF Spec, ProbesSpaced

LEMMA ChoiceDue ==
  ASSUME CycleInv, [Next]_vars, NEW a \in Account, lastJob'[a] # lastJob[a]
  PROVE  now >= lastJob[a] + MissingEvery
<1>1. PICK status \in [Account -> {"fresh", "renew_due", "missing"}] : BeginCycle(status)
  BY DEF Next, Worker, StartBatch, RoutesFail, SkipAccount, StartProbe, ProbeFails, ProbeOK, Stopped,
     FinishAccount, WorkerRaises, CancelPending, EndCycle, Kill, RotateCredential, Tick, vars, history
<1>2. TypeOK
  BY DEF CycleInv
<1>3. PICK due \in SUBSET Account :
        /\ \A b \in due : now - file.attempts[b] >= MissingEvery
        /\ \A b \in Account : lastJob'[b] = IF b \in due THEN now ELSE lastJob[b]
  BY <1>1, <1>2, Begun
<1>4. now - file.attempts[a] >= MissingEvery
  BY <1>3
<1>5. QED
  BY <1>4, Intervals DEF CycleInv, Chosen, TypeOK, State

\* Killed or not, with exceptions or without: a cycle chooses an account only
\* an interval after another cycle chose it.
THEOREM ChoicesKeepDistance == Spec => ChoicesSpaced
<1>1. CycleInv /\ [Next]_vars
        => [\A a \in Account : lastJob'[a] # lastJob[a] => now >= lastJob[a] + MissingEvery]_vars
  BY ChoiceDue
<1>2. QED
  BY <1>1, CycleAlways, PTL DEF Spec, ChoicesSpaced
=============================================================================
