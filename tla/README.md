# STATE reuse: a TLA+ model of the plugin, its SDK and its collector

This directory specifies and checks the core of the repository: the Go plugin
`plugin/main.go`, which forwards requests and injects STATE tickets; the SDK under
`plugin/pkg/pluginapi`, over which a host talks to this and other plugins; and the
Python collector under `collector/`, which obtains tickets and hands them over.

## 1. The system

| Part | State it keeps | Operations | Talks to |
|---|---|---|---|
| Plugin, forwarding (`Forward`, `acquireBusiness`) | two slots per account, a back-off time per account (memory) | admit, refuse, send, relay, back off | host (gRPC stream), upstream |
| Plugin, the stream of `Forward` | frames received, body buffered, bytes relayed | read frames, check, call upstream, relay | host, upstream |
| Plugin, tickets (`ticket`, `harvest`, `persist`) | an entry per (account, model, credential): ticket, cool-down, blocked, lock; three harvest slots; `tickets.json` | import, renew, harvest, revoke, save | upstream, `incoming/`, `tickets.json` |
| Plugin, configuration (`ApplyConfig`) | accounts in scope, suspended accounts | apply, load tickets | host |
| SDK v2 (`contract.go`, `adapter.go`, `host.go`, wire code) | connection to the host, stored services, the mutex around both | handshake, configuration, preprocess, attach, calls back to the host | host |
| SDK samples (`examples/preprocess`, `examples/host-aware`) | their configuration | decide on a request | host |
| Hand-off (`ticket_store.py`) | `incoming/<key>.json` | queue a verified candidate by rename | plugin |
| Collector, answers (`request`; in the plugin `harvest`) | none | read status, headers, body, events | upstream |
| Collector, scheduling (`state-cron.py`, `collect`) | `cron-state.json`: last attempt, next attempt, denial | choose accounts, probe with three workers, save twice | upstream, database, admin API |
| Collector, exits (`routes_for`, `order_routes`) | cursor, last and preferred exit of each account, in `cron-state.json` | build the list, choose one, move on | generators, Clash, IP management |
| Collector, groups and configuration (`sync_groups`, `run_locked`) | none; reads and writes the host's | classify accounts, extend scope | admin API |
| SDK v1 services, monitor, packaging | none that outlives a call | - | host, files |

What is hard here: handlers hold a business slot, an entry lock and a harvest
slot at once and wait for the network meanwhile; answers to old requests arrive
after the ticket has been replaced; the file is rewritten as a whole for one key;
the collector and the plugin share a directory without a common lock; processes
restart between two writes; one worker of several fails. A stream can break in either
direction at any frame, and the host then has to know whether it may send the request
again. A host gives calls up that the plugin goes on with, and two clients attach to one
process. One answer of the upstream is read by two programs in two languages.
`PROJECT.json` lists each of these hazards at its line.

What makes each part correct:

* forwarding: slots come back on every way out, at most two requests of an account
  in service, a back-off is never shortened, a bounded number of requests slips past;
* the stream: frames in order, no request or answer cut short unnoticed, "not sent" only
  said when it is so, at most one upstream call per request, an end for every handler;
* tickets: one request at a time works on a key; a request carries only a ticket of
  its own account, model and credential; memory never runs ahead of the file; old
  answers spare new tickets; a denial holds until a new candidate is adopted;
* hand-off: only newer candidates replace a ticket; a withdrawn one does not return;
* SDK: a plugin is used exactly if it is what its manifest says; what it runs is what was
  acknowledged; client and process agree on who is attached; no connection is lost;
* answers: both readers take and refuse the same ones;
* scheduling: denials and waiting times outlive the cycle, attempts keep their
  distance, every cycle ends;
* exits: rotate through all, dynamic and static by turns.

## 2. Modules

| Module | Models | State | Actions |
|---|---|---|---|
| `Tickets` | ticket format, validity, `persist`'s new file content | - | - |
| `Plugin` | `main.go` and `queue_ticket` | `entries`, `store`, `incoming`, `busy`, `backoff`, `slots`, `req` (each handler's place and locals), configuration, time | one per piece of `Forward`/`ticket` between two points where others can step in |
| `Frames` | the messages of `Forward` (`v1/plugin.pb.go`) and their getters | - | - |
| `ForwardStream` | one request frame by frame: `Forward`'s stream, the upstream, the host with its replays | `sent`, `replies`, `h` (handler), `up`, `host`, `calls` | receive, check, refuse, call, relay; upstream; host |
| `Exchange` | abstract: what the host relies on | `calls`, `outcome` | `Call`, `Conclude`, `Renew` |
| `Contract` | `contract.go`: declarations, requests, decisions and their checks | - | - |
| `Wire` | messages of the v2 services, `ToWire`/`FromWire` of `adapter.go` | - | - |
| `Extension` | both sides of the v2 services: `adapter.go`, `host.go`, `runtime.go`, both samples, and the plugin's own configuration calls | `plugin` (the process), `clients`, `host`, `calls` (each call's place, messages, whether its caller still waits) | one per step of a call between two points where another call, a give-up or a restart can step in |
| `Answers` | `request` and `harvest` as folds over an answer's events | - | - |
| `RouteRotation` | `dynamic_routes`, `routes_for`, `order_routes`, the rotation part of `collect` | `cursor`, `last`, `preferred` | `Attempt` |
| `Probe` | one account's `collect` attempt by attempt, composed of `RouteRotation` and `Answers` | the above, `stage`, `auth_block`, `wait`, `answer` | begin, skip, stop, capture, verify, give up, kill, wait over, new credential |
| `Collector` | `run_locked`, `worker`, the timing part of `collect` | `file` (cron-state.json), `mem`, `work`, `phase` | begin, start batch, skip, probe, stop, finish, raise, end, kill |
| `*Proofs` | theorems about `Plugin` (`PluginProofs`, `PluginFileProofs`, `PluginDenialProofs`), `ForwardStream`, `Extension` (`ExtensionProofs`, `ExtensionCallProofs`), `Probe` with `RouteRotation` and `Answers`, `Collector` | | |
| `MC*` | constants and symmetry for TLC | | |

`Plugin` extends `Tickets`; `ForwardStream` extends `Frames`; `Extension` extends `Wire`,
which extends `Contract`; `Probe` extends `RouteRotation` and `Answers`.

`Plugin`: `req[r].pc` names the handler's place: `waiting` (for a
slot), `gate` (back-off check), `lookup` .. `harvest` (inside `ticket()`; from
`adopt` to `harvest` the entry lock is held), `cached` (models that do not
harvest), `send`, `await`, `revoke` (waiting for the entry lock after 401, 403 or
429) and `stream`. Actions split where the code can be interrupted to an effect:
at locks, channels, the candidate file (read, then persist and publish, then
`os.Remove`) and the network (the call to the proxy generator and the harvest are
two). Writing the file and setting the entry are one step: both happen under the
entry lock, and a restart between them loses only memory.
The history variables `revoked` and `leaked` remember denied tickets and requests
sent during a back-off; no action reads them.

`ForwardStream`: a frame is a step, for the host that sends it, for the handler that
receives it, and the same for answers. Every return of `Forward` is an action of its own,
because what it leaves in the stream (an error frame with or without `request_sent`, an
answer of the plugin's own, or nothing) decides what the host may do. What `Forward`
decides about accounts, slots and tickets is `Plugin`'s and a choice here. A body chunk is
its length; a status stands for the head of an answer.

`Extension`: a call is a record in a slot; `waiting` says whether its caller is still
there. `ApplyConfig` of the sample is one step (an atomic store), `AttachHost` several:
the mutex is taken, `Dial` and `SetHost` follow, and a failure closes the connection. The
sample's delay, and each call back to the host, are places where the configuration may be
replaced. A text is its length, an id its rank, a configuration a value with the settings
the samples read from it.

`Answers`: an answer has a status, named waiting times, a body and events; an event's code
is one of five classes (a limit, a denial, what merely contains such a word, other), in
`error` or beside the type. `CollectorReads` and `PluginReads` are the two programs.
`Probe` computes both readings once per answer, and follows the collector's.

Abstractions: a key stands for (account, model, credential hash); a ticket's text
is an identity; malformed tickets are not tickets; headers that are only copied are left
out. Counters shown by `Health` and the audit log are left
out. When a client leaves while its request waits for a harvest slot, the failed
upstream call that follows at once is part of the same step. In `Collector` the
part of a cycle before the first save is one step (it holds no state of its own
until then), and what `Executor.map` cancels after an exception is cancelled at any
time after it. A credential is rotated between cycles only: workers of a running
cycle keep the credential they were started with.

## 3. Runs

Passing runs (module in brackets), with what each bound is for:

| Run | Checks | Bounds |
|---|---|---|
| `plugin_core` [MCPlugin] | `TypeOK`, `SlotAccounting`, `StoreBacksEntries`, `SingleFlight`, `RevokedStaysOut`, `AdoptNewer`, `DeniedUntilImport`, `OldAnswersSpareNew` | 2 requests, 1 key, 2 candidates or harvests, 3 instants: a ticket is fresh, ageing and expired; one failing write, at an adoption, a harvest or a denial; the account suspended and taken back at any moment; no restart |
| `plugin_gate` | `BackoffLeakBounded`, `BackoffNeverShrinks` | 3 requests on 2 slots; Retry-After 0..3 against a minimum of 2, 4 instants; one restart, one failing write; a model that does not harvest, so the ticket of the file serves as it is |
| `plugin_live` | `InjectedTicketFits`, `OneTicketPerKey`, `RequestsFinish` | 2 requests, 2 credentials of an account that compete for 1 harvest slot and share the file, one ticket arrives, no bound on how often handlers are used again |
| `forward_stream` [MCForwardStream] | `TypeOK`, `FramesInOrder`, `RequestSentTruthful`, `NothingTruncated`, `EndMeansComplete`, `CancelledHandlersReturn`, `OnlyUpstreamDelays`, `ImplementsExchange` | 2 accounts, one in scope; a body limit of 2 with chunks of 1 and 2 bytes, so that bodies meet and exceed it; 4 frames; an answer of up to 2 bytes; 2 attempts, requests without end |
| `extension` [MCExtension] | `TypeOK`, `HandshakeExact`, `AckedConfigRuns`, `PassedUnderHostsConfig`, `PolicyEnforced`, `OnlySanitisedRuns`, `AttachAgreement`, `NoLeakedConnection`, `CallsEnd` | 2 overlapping calls, 2 clients, 4 configuration texts (complete, abbreviated, another, malformed), 3 plugins, 6 declarations against one manifest, restarts without bound |
| `probe` [MCProbe] | `ProbeTypeOK`, `ReadersAgree`, `StopsAgree`, `FailuresRotate`, `SoleGeneratorAlternates` | 2 generators of which none, either or both answer, 3 static exits of both sources, any persisted state to start from; answers of up to three events of every kind, cut off or too large or not |
| `collector` [MCCollector] | `TypeOK`, `StopsKept`, `ProbesSpaced`, `ChoicesSpaced`, `CyclesEnd` | 2 accounts, 2 workers, time for two to three cycles, at most one kill or one exception at any moment |

Times are scaled: 3000 s and 3570 s become 1 and 2 (what matters is that fresh,
ageing and expired all occur), one and five minutes become 1 and 2, 20 s and 300 s
of the collector 2 and 3, budget and reserve 1 each (2 in `collector_forgets`). Handlers
are interchangeable, so symmetry is used, except in the runs with
liveness properties. Deadlock is checked in every run. `Max...` constants bound the environment
only (time, new tickets, restarts, faults, frames); handlers are never bounded. The clocks
agree in every run (`Skew = 0`), `StoreBacksEntries` is run without a restart, and
`SlotAccounting` over the ways out of `ticket()` with as many requests as slots, where only
the accounting can fail, not the limit: more of any of these is several times the states of
`plugin_core`. The theorems about `Plugin` are for any skew, any number of requests,
restarts and failing writes.

`TypeOK` of `Plugin` and of `ForwardStream` say more than types where the code has a limit:
an entry's ticket is a ticket of the format, the buffered body is within its limit. In
`Extension` it also says that messages are those of the services and that no answer is
kept for a caller that has gone.

Some properties have a premise, with the reason next to them in the module:
`AckedConfigRuns` speaks of moments when no `ApplyConfig` is under way, given up or not,
and excepts a plugin whose ticket file is corrupt (it installs the configuration, then
reports failure). `ReadersAgree` and `StopsAgree` compare answers that are regular (events as
the upstream documents them: a line of JSON that is no object makes the collector raise and
is skipped by the plugin) and plain: without bodies over 1 MB, which only the plugin refuses,
and without events behind a status other than 200, which only the collector reads. The
answers left out are in the run all the same, and what follows from them in `Probe` is
checked by the other properties. `SoleGeneratorAlternates` speaks of attempts for which
exactly one generator answers and no exit is preferred; `alternation_lost` shows why.
`RevokedStaysOut` leaves the file out once a write has failed.

Runs that find the code to differ from what the repository says
(`PROJECT.json`, "findings", has the quotations):

| Run | Property | What happens |
|---|---|---|
| `plugin_revival` | `RevokedStaysOut` | candidate persisted, restart before `os.Remove`, ticket loaded, used, denied; the entry's issue time is now 0 and the same candidate is adopted again, which also lifts the block. |
| `plugin_unavailable` | `ValidTicketInjected` | the ticket is ageing, the proxy generator does not answer: the request goes out plain although the ticket is valid. |
| `rotation_starved` | `EveryRouteTried` | generator, first static exit, generator, first static exit ... |
| `alternation_lost` | `DynamicStaticAlternate` | two generators that answer: after the first the second is tried, after the second the first, and no static exit gets a turn, while `README.md:96` has dynamic and static exits alternate. |
| `collector_forgets` | `StopsHonoured` | one worker is told 401, another raises; the second save is skipped and the next cycle probes the denied credential. |

`RevokedStaysOut` holds without restarts (checked and proved) and fails with a restart;
likewise `StopsHonoured` without a loss (`StopsKept`) and with an exception, and
`DynamicStaticAlternate` while one generator alone answers (`SoleGeneratorAlternates`) and
with two. Each pair says exactly what the property depends on. The rotation starts from any
cursor, last and preferred exit, because cron-state.json outlives changes of the
configuration; the counterexamples of `rotation_starved` and `alternation_lost` also occur
from the empty state.

More places where the code does less than the documents suggest, or the two programs
differ, are visible in the models and not runs of their own: a request that passed the
back-off check before a 429 is still sent (`BackoffLeakBounded` says how many: at most
Limit - 1); a candidate that the collector renames into place just before `os.Remove` is
deleted unread (`RemoveCandidate`); the exit that has just succeeded is left out of the next
attempt (`Ordered`); when the write fails with which a denial takes a ticket out of the file,
the ticket is out of memory, and a restart brings it back (`Revoke`, `Crash`); a quota error in a stream
pauses an hour whatever reset time it names, and a 429 without a JSON object ignores
Retry-After (`CollectorReads`, `PauseOf`; the top-level README asks to respect the recovery
time); a code beside the event's type is known to the plugin and not to the collector; the
collector refuses a ticket older than 3000 s, the plugin one older than 3570 s; a client
whose attachment failed never tries again (`CallAttachHost`).

### Fairness

`Plugin!Fairness` is strong fairness of each handler's own steps. Waiting for a
`sync.Mutex` or a channel is fair in Go (a starving waiter is handed the lock,
blocked senders are served in order), so a step that is possible again and again
is taken. A harvest ends by its 25 s context; the wait for headers by
`ResponseHeaderTimeout`. That a body ends is the upstream's part and is assumed there.
Clients need not cancel: `CancelWait`, `CancelSlot` and `AbortSend` have no
fairness. Configuration, collector, restart and time have none either.

`ForwardStream!Fairness` is weak fairness of the handler, of a host that has frames left to
send or closes the stream, and of a host that reads what has arrived. Nothing makes the
upstream answer and nothing makes the host cancel: `CancelledHandlersReturn` and
`OnlyUpstreamDelays` hold all the same.

`Extension!Fairness` is weak fairness of each call, on either side: the calls back to the
host have a limit of 2 s, preprocess calls a deadline; `HostFails` and `DelayExpires` are
such steps. Nothing makes a caller give up or a process restart.

`Collector!LiveSpec` needs weak fairness of each worker (curl has `--max-time 30`
inside a 35 s timeout, the account test has a timeout) and of the cycle's own
steps. `RouteRotation!Spec`: the timer starts cycles for ever. `ProbeSpec` has no fairness;
`FailuresRotate` says by its premises when attempts go on.

## 4. Proofs

Proved for every set of keys, accounts and requests (finitely many), every limit
and every bound; the assumptions are the named ones of the modules. Every invariant and
every action property that a passing run checks is proved, and so is the refinement of
`Exchange`. What is left to TLC are the liveness properties.

`PluginProofs`, first types and keys:

* `TypeCorrect`: `Spec => []TypeOK`. Inductive as it stands, except that a request
  that is not idle must have a key; `KeyStep`'s invariant carries it.
* `TicketsKeepTheirKey`: `Spec => []InjectedTicketFits`. The inductive invariant is
  `TypeOK /\ KeyInv`: an entry's ticket is empty or of the entry's key; a candidate
  about to be adopted was found to be of the request's key under the lock; a
  request past its ticket decision and marked as protected carries a ticket of its
  key. Each action gets a step; the interesting ones are `AdoptImport` (the
  candidate was checked two steps earlier, and only the request itself changes its
  copy), `HarvestOK`, `CachedTicket` and `HarvestFail` (the entry's invariant passes
  to the request: what is valid is not empty) and `ApplyConfig` (`Loaded` chooses
  among the file's tickets of that key).

Locks:

* `OneHarvestPerKey`: `Spec => []SingleFlight`. `SingleFlight` alone is not
  inductive: nothing in it says that a request that waits for the lock cannot get
  it. `Locked` says that an entry is held by a request exactly while that request is
  at one of the places of `Holding` with that key. Every action is shown to pass
  by, lock, keep or unlock (`Moves`), and to leave the tokens alone, take one or
  give one back (`Counts`); one lemma shows that these keep `Locked` and `Tokens`.

The account's gate:

* `SlotsAccounted`: `Spec => []SlotAccounting`. Every step of a handler is outside
  of the service, admits a request, keeps it in service or ends its service, and the
  set of tokens follows each; the limit comes from the guard of `AcquireBusiness`.
* `BackoffHolds`: `Spec => []BackoffLeakBounded`, by `BackoffLeakStrong`: whoever
  is past the check is counted with those that went out, because it may wait in
  `ticket()` as long as it likes and go out then. The 429 that begins a back-off
  comes to a request in service that is past sending, so by `SlotAccounting` at most
  `Limit - 1` others are; during the back-off no step adds to that set.
* `BackoffOnlyGrows`: `Spec => BackoffNeverShrinks`, an action property.

`PluginFileProofs`, memory against `tickets.json`:

* `FileBacksMemory`: `Spec => []StoreBacksEntries`, and `FileHoldsOnePerKey`:
  `Spec => []OneTicketPerKey`. `StoreBacksEntries` is not inductive: a ticket issued ahead of
  the clock becomes valid by time alone, and must be in the file before. `Filed` therefore
  speaks of every ticket that is not expired, valid already or not, and `CandidateDated`
  of candidates about to be adopted. Every step leaves file and entries untouched, grants one
  ticket, withdraws one, loads, or forgets all (`Touches`).
* `NewTicketsSpared`: `Spec => OldAnswersSpareNew`. Withdrawing is guarded by
  `StillCurrent`, and by `FileHoldsOnePerKey` what the file loses is that same ticket.

`PluginDenialProofs`, decisions under the entry lock:

* `AdoptedIsNewer`: `Spec => AdoptNewer`, and `DenialsHold`: `Spec => DeniedUntilImport`.
  `DecideInv` adds to types, keys and locks that a request inside `ticket()` has its entry
  in the map (else `ApplyConfig` could replace the entry under its lock), that the
  candidate about to be adopted is still newer, and that a request which harvests is not
  blocked. `HeldAlone` is what makes these stable: nobody else changes a held entry.
* `WithdrawnStaysOut`: `Spec => [](crashes = 0 => RevokedStaysOut)`, also when writes fail.
  The invariant `Withdrawn` follows every copy a ticket has: numbers only grow; a
  candidate in `incoming/` that is in use has somebody about to remove it; what the file
  holds of a key without an entry is older than the process and not withdrawn. A denial finds
  the entry unlocked, so nobody is about to remove the denied ticket's file: no copy is left
  but one in `tickets.json` if the write fails, and that key has an entry, so `ApplyConfig`
  does not load it.
  The restart of `plugin_revival` breaks exactly that.

`ForwardProofs`, with any host and any upstream:

* `TypesKept`, `OrderKept` (`FramesInOrder`), `UnsentIsUnsent` (`RequestSentTruthful`). The
  invariant relates the handler's place to the replies so far (`ReplyInv`) and to the
  upstream's state (`CallInv`), and the host's verdict to both (`OutcomeInv`).
* `StreamImplementsExchange`: every step maps to a step of `Exchange` or a stutter. The
  host's step back to a new attempt needs that a reported "not sent" was one.
* `NeverTruncated`: `Spec => []NothingTruncated`. `BodyInv`: until the handler gives up,
  the buffer's size is that of the chunks of the frames taken so far, and the call is made
  only after one of them that ends the body. A sum over frames is a recursive function
  (`ChunkBytes`), so that "one more frame adds its chunk" is a lemma by induction, and
  everything else cites that lemma.
* `EndIsComplete`: `Spec => []EndMeansComplete`. `AnswerInv`: while the host is there, the
  chunks sent to it are exactly what has been read of the answer, so that the end, sent after
  the upstream's end of file, comes after all of it.

`ExtensionProofs`, for any number of clients and calls, with restarts and give-ups:

* `AttachedIsAttached`: `Spec => []AttachAgreement`, and `ConnectionsAccounted`:
  `Spec => []NoLeakedConnection`. A call that says "attached" came from the call that set the
  connection (`CallGood`), and at most one call is between Dial and SetHost (`OneDials`), for
  which `locked` stands.

`ExtensionCallProofs`, for any declarations, configurations and overlap of calls:

* `CallsTyped`: `Spec => []TypeOK`, which needs that what the two sides convert to and from
  the wire stays within the messages of the services.
* `HandshakeDecides`: `Spec => []HandshakeExact`. What the code compares are two sorted lists;
  the lemmas on `InOrder` (each element has its place, equal lists are equal sets and the
  other way round) make of it an equality of sets. `Handshake` adds that an answer of GetInfo
  that is under way is what this process declares.
* `AcknowledgedRuns`: `Spec => []AckedConfigRuns`. `Configurations`: the host awaits at
  most one ApplyConfig; one that was given up is remembered as late until another has run
  alone; the acknowledged text is in force unless the awaited call has replaced it already.
* `OnePolicyDecides` (`PolicyEnforced`), `PassedAgreed` (`PassedUnderHostsConfig`),
  `OnlySanitisedWork` (`OnlySanitisedRuns`), from the common invariant `Decisions`: a call
  past its checks has passed them, and the decision in its answer is that of a configuration
  in `mine`, the ones in force since the call began.

`ProbeProofs`, for any lists of exits, any persisted state and answers of any length:

* `ReadersAlike`: `ProbeSpec => []ReadersAgree`, and `StopsAlike`: `ProbeSpec => []StopsAgree`.
  Neither follows from the end of the stream alone: `Alike` relates what the two programs
  have made of the same events so far, event by event (same completeness, same failure, and
  a stop exactly for what the plugin takes for a limit or a denial), and induction over the
  events carries it to the end.
* `ProbeTypes`: `ProbeSpec => []ProbeTypeOK`. The cursor stays within the list because the
  choice of `order_routes` is always one of this cycle's exits, whatever is persisted; the
  lemmas say what interleaving, rotating, pulling to the front and leaving out keep.
* `SoleGeneratorTakesTurns`: with a static exit, `ProbeSpec => SoleGeneratorAlternates`, for
  any number of configured generators and whichever of them answers. `order_routes` pulls the
  first generator of the cycle's list to the front unless it was tried last, and then leaves
  out the one tried last; if no other generator is in the list, a static exit is left.
* `ExitsComeNearer`: while no generator answers and no static exit is preferred, every attempt
  lowers `ExitsAhead(r)`, the number of static exits before `r` from where the cursor stands,
  for every `r` but the one it tries and the one tried last. This is the ranking that
  `FailuresRotate` rests on; what it leaves to TLC is that attempts go on. The hypothesis is
  that no two rows have one key. The argument: with k rows and the cursor at c, the choice is
  row c + 1, or the one after it if that was tried last (`StaticChoice`), so that the cursor
  never passes an exit other than these two (`FewerBefore`), and every static exit is in the
  interleaved list (`InterleavedCovers`).

`CollectorProofs`:

* `CycleTypes`; `StopsOutliveCycles`: `Spec => StopsKept`; `ProbesKeepDistance`:
  `Spec => ProbesSpaced`; `ChoicesKeepDistance`: `Spec => ChoicesSpaced`. What counts is the
  file between cycles and the dictionary during one (`Current`); `Known` says that it knows
  of every denial, waiting time and probe, and that an account being probed is not denied
  (else a later 429 would overwrite the denial). `Chosen` needs no premise: the choice is on disk first.

The three assumptions that only the proofs made explicit say what the code relies on anyway:
`ExtensionTypes` (configurations, requests and declarations are ones of the contract's Go
types), `ManifestAssumption` (the host's manifest is valid) and, in `RotationAssumption`, that
the configured lists are sequences.

Induction: the library's induction theorems take an operator and cannot be instantiated by
the provers, so `ForwardProofs` and `ProbeProofs` prove it for sets of numbers (`Induction`,
from the well-foundedness of `<`). Recursive operators of the models are recursive functions
for that reason, and sorted or filtered lists are defined by their elements' places
(`InOrder`) or by such a function (`Kept`).

Only model-checked: the liveness properties `RequestsFinish`, `CancelledHandlersReturn`,
`OnlyUpstreamDelays`, `CallsEnd`, `FailuresRotate` and `CyclesEnd`: they need fairness and
ENABLED, which are beyond the prover's reach. Of `FailuresRotate`, the part that no fairness is
needed for is proved (`ExitsComeNearer`).

## 5. Not modelled

* group and configuration sync (`sync_groups`, the scope extension of `run_locked`): both
  read, change and write back what an administrator may change meanwhile. There is no lock,
  version or retry in the code that a model could check, and the admin API that decides the
  outcome is not in the repository;
* the v1 services: this repository's plugin serves v2's; v1's messages of `Forward`
  are `Frames`, its registration code keeps no state;
* the monitor (reads files only), packaging and key tools, deployment files; the timer and
  its time limit are the environment of `Collector`;
* two plugin processes on one directory (a hot upgrade): the locks are per process and
  nothing in the code arbitrates;
* the content of a corrupt `tickets.json` (its effect on `ApplyConfig` is `unreadable` in
  `Extension`), and deadlines of clients other than as cancellation.

## 6. Plan

1. `TicketService`: an abstract specification of `ticket()`, a map from keys to tickets with
   grant, renew and revoke, and `Plugin` shown to implement it; most of what the
   refinement needs is in `PluginFileProofs`.
2. `Handoff`: plugin and collector composed over `incoming/`, with the collector's own
   reading of `tickets.json`, and a bound on harvests per time.
3. A second plugin process on the same directory.
