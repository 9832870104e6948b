-------------------------------- MODULE Probe --------------------------------
(***************************************************************************)
(* One account's attempts, answer by answer: collect() of                  *)
(* local_ip_harvest.py.  An attempt takes the exit that RouteRotation      *)
(* chooses, asks for a ticket, carries the ticket in a second request, and *)
(* ends as the readings of module Answers say.  What an attempt has        *)
(* changed is the account's state once its cycle has saved it.             *)
(***************************************************************************)
EXTENDS RouteRotation, Answers

CONSTANTS
  Asked,      \* bound: the answers that are given
  Interval    \* 20 s or 300 s between two attempts

ASSUME ProbeAssumption ==
  /\ Asked \subseteq Answer
  /\ Interval \in Nat \ {0}

VARIABLES
  stage,       \* of the attempt under way
  gens,        \* the generators that answered its cycle
  auth_block,  \* the credential has been denied
  wait,        \* how long until next_attempt
  answer       \* the one read last, as far as it is told apart

probe == <<stage, gens, auth_block, wait, answer>>
allVars == <<vars, probe>>

\* The collector's reading of an answer and the plugin's of the same one.
Read(a) ==
  [collector |-> Request(a), plugin |-> Harvested(a), regular |-> Regular(a),
   plain |-> ~a.large /\ (a.status = 200 \/ a.events = <<>>), ticket |-> a.ticket]

Readings == {Read(a) : a \in Asked}

NoAnswer ==
  [collector |-> Nothing, plugin |-> Refusal(FALSE, FALSE), regular |-> FALSE,
   plain |-> FALSE, ticket |-> "none"]

ProbeInit ==
  /\ Init
  /\ stage = "idle" /\ gens = Dynamic
  /\ auth_block = FALSE /\ wait = 0
  /\ answer = NoAnswer

----------------------------------------------------------------------------
Paused == auth_block \/ wait > 0

\* The next attempt is put off before there is an attempt.
BeginAttempt(g) ==
  /\ stage = "idle" /\ ~Paused
  /\ OrderRoutes(RoutesFor(g), cursor, last, preferred, g) # <<>>
  /\ stage' = "capture" /\ gens' = g /\ wait' = Interval
  /\ UNCHANGED <<vars, auth_block, answer>>

\* No exit at all, or less than 65 s of the cycle's time are left.
SkipAttempt ==
  /\ stage = "idle" /\ ~Paused
  /\ wait' = Interval
  /\ UNCHANGED <<vars, stage, gens, auth_block, answer>>

Ends(outcome) ==
  /\ Attempt(gens, outcome)
  /\ stage' = "idle" /\ gens' = Dynamic

\* The upstream stops the account; the same exit or another is not tried.
StopAccount(r) ==
  /\ stage # "idle"
  /\ r.collector.stop
  /\ auth_block' = r.collector.auth /\ wait' = r.collector.wait
  /\ Ends("failed")
  /\ answer' = r

\* A complete answer with a candidate: carry it in a second request.
Capture(r) ==
  /\ stage = "capture"
  /\ ~r.collector.stop /\ Usable(r.collector) /\ r.ticket = "fresh"
  /\ stage' = "verify"
  /\ answer' = r
  /\ UNCHANGED <<vars, gens, auth_block, wait>>

\* The second one is complete as well: the candidate is queued.
Verify(r) ==
  /\ stage = "verify"
  /\ ~r.collector.stop /\ Usable(r.collector)
  /\ Ends("queued")
  /\ answer' = r
  /\ UNCHANGED <<auth_block, wait>>

\* Anything else, an exception of request() among it.
GiveUpAttempt(r) ==
  /\ stage # "idle"
  /\ ~r.collector.stop
  /\ ~Usable(r.collector) \/ (stage = "capture" /\ r.ticket # "fresh")
  /\ Ends("failed")
  /\ answer' = r
  /\ UNCHANGED <<auth_block, wait>>

\* The cycle is killed: what the attempt has changed is lost.
KillAttempt ==
  /\ stage # "idle"
  /\ stage' = "idle" /\ gens' = Dynamic /\ wait' = 0 /\ answer' = NoAnswer
  /\ UNCHANGED <<vars, auth_block>>

\* next_attempt has come.
WaitOver ==
  /\ stage = "idle" /\ wait > 0
  /\ wait' = 0 /\ answer' = NoAnswer
  /\ UNCHANGED <<vars, stage, gens, auth_block>>

\* A credential that was denied is replaced: another hash, an empty state.
NewCredential ==
  /\ stage = "idle" /\ auth_block
  /\ auth_block' = FALSE /\ wait' = 0 /\ answer' = NoAnswer
  /\ cursor' = 0 /\ last' = NoRoute /\ preferred' = NoRoute
  /\ UNCHANGED <<up, turn, stage, gens>>

ProbeNext ==
  \/ \E g \in (IF Flaky THEN SUBSET Dynamic ELSE {Dynamic}) : BeginAttempt(g)
  \/ \E r \in Readings : StopAccount(r) \/ Capture(r) \/ Verify(r) \/ GiveUpAttempt(r)
  \/ SkipAttempt \/ KillAttempt \/ WaitOver \/ NewCredential

ProbeSpec == ProbeInit /\ [][ProbeNext]_allVars

----------------------------------------------------------------------------
\* Every variable has its type; an attempt is under way only while next_attempt
\* is put off and the credential is not denied.
ProbeTypeOK ==
  /\ TypeOK
  /\ stage \in {"idle", "capture", "verify"} /\ gens \subseteq Dynamic
  /\ auth_block \in BOOLEAN /\ wait \in Nat
  /\ answer.collector \in Reading /\ answer.plugin \in Harvest
  /\ stage # "idle" => ~auth_block /\ wait = Interval

\* Actual model and complete stream are one rule in two places, which must be
\* kept in step (docs/CUSTOMIZATION.md:61): of a regular and plain answer, the
\* plugin's harvest takes exactly what the collector takes, and also a ticket
\* older than 3000 s.  Regular (module Answers): the events are as the upstream
\* documents them; at a line of JSON that is no object the collector raises.
\* Plain: a body of at most 1 MB, beyond which only the plugin refuses, and no
\* events behind a status other than 200, which only the collector reads.
ReadersAgree ==
  answer.regular /\ answer.plain =>
    (answer.plugin.ok <=> Usable(answer.collector) /\ answer.ticket # "none")

\* A denial or limit that makes the plugin hold back stops the collector too,
\* and the other way round; what the collector takes for a denial is terminal.
\* Of regular and plain answers, as above: an event of an answer that is not 200
\* may stop the collector, and a body over 1 MB keeps a stop from the plugin.
StopsAgree ==
  answer.regular /\ answer.plain =>
    /\ ~answer.plugin.ok =>
         (answer.plugin.terminal \/ answer.plugin.limited <=> answer.collector.stop)
    /\ answer.collector.auth => answer.plugin.terminal

\* While one credential lasts and attempts go on, once no generator answers any
\* more and every attempt fails, each static exit is tried again and again, over
\* kills, pauses and whatever the upstream answers.
FailuresRotate == <>[]~auth_block => StaticRoutesTried
=============================================================================
