----------------------------- MODULE Extension -----------------------------
(***************************************************************************)
(* The v2 extension service: a host and a plugin process talk over gRPC,   *)
(* the host calling the plugin (v2/adapter.go), and the plugin, once the   *)
(* host has attached itself, calling back (v2/host.go).  Calls overlap;    *)
(* the host may give one up while the plugin goes on with it; the process  *)
(* may die.  The plugin is this repository's ("state-reuse", main.go) or   *)
(* one of the samples: "policy" (examples/preprocess), "host-aware".       *)
(***************************************************************************)
EXTENDS Wire

CONSTANTS
  Slot,            \* bound: calls under way at a time
  Client,          \* the host's client objects for the process
  BrokerId,        \* [Client -> Nat]: the channel a client serves the host on
  Kinds,           \* which plugins
  Hosts,           \* [Kinds -> the clients that attach to it]
  Setting,         \* [Json -> what the samples read of a configuration]
  Malformed,       \* texts that do not parse
  Normalized,      \* [Json -> Json], with all defaults
  InitialJson,     \* the configuration a plugin starts with
  Declarations,    \* what a plugin may say about itself
  Manifest,        \* the signed manifest's capabilities, normalised
  Inputs,          \* [Kinds -> requests that each is asked to preprocess]
  Services,        \* [Kinds -> messages to the services of GetInfo, Health, ...]
  Secrets,         \* what the host's secret may be
  Unchecked        \* [Kinds -> messages of a caller without the client's checks]

None == 0
Nobody == "nobody"

ASSUME ExtensionAssumption ==
  /\ Nobody \notin Client
  /\ Kinds \subseteq {"state-reuse", "policy", "host-aware"}
  /\ BrokerId \in [Client -> Nat \ {0}] /\ IsInjective(BrokerId)
  /\ Malformed \subseteq Json /\ InitialJson \in Json \ Malformed
  /\ Normalized \in [Json -> Json]
  /\ Secrets \subseteq HostSecretResponse
  /\ \A k \in Kinds : Services[k] \subseteq GetInfoRequest \cup HealthRequest \cup ConfigRequest

\* What the samples read of any text that parses; plugins and callers send
\* values of the contract's types, unchecked ones among them.
ASSUME ExtensionTypes ==
  /\ Setting \in [Json -> [deny : Nat, max : Nat, alias : Nat, digest : Nat]]
  /\ Declarations \subseteq PluginInfo
  /\ \A k \in Kinds :
       /\ Inputs[k] \subseteq PreprocessRequest
       /\ Unchecked[k] \subseteq WireRequest \cup AttachHostRequest

\* The manifest's capabilities are in the order NormalizeCapabilities gives.
ASSUME ManifestAssumption ==
  /\ Manifest \in Seq(Capability) /\ Manifest # Rejected
  /\ Manifest = NormalizeCapabilities(Manifest)

VARIABLES
  plugin,     \* the process: handler, configuration, connection to the host
  clients,    \* the host's client objects
  host,       \* what the host knows of the plugin
  calls       \* the calls under way

vars == <<plugin, clients, host, calls>>

HostAPIVersion == 1

\* config: the stored configuration; locked: a call holds hostMu; connection:
\* hostConnection; services: what SetHost stored; open: the connections dialled
\* and not closed; unreadable: the ticket file of "state-reuse" is corrupt.
PluginState ==
  [kind : Kinds, info : Declarations, config : Json, unreadable : BOOLEAN,
   locked : BOOLEAN, connection : Nat, services : Nat, open : SUBSET Nat]

\* attached: hostAttached; told: AttachHost returned no error.
ClientState == [attached : BOOLEAN, told : BOOLEAN]

\* config: the one acknowledged last; late: an ApplyConfig has been given up
\* and may take effect after, or instead of, the acknowledged one.
HostState ==
  [phase : {"new", "ready", "refused"}, config : Json \cup {NoJson}, late : BOOLEAN]

\* by: the client; in, out: the messages; waiting: the caller is still there;
\* alone: no given-up ApplyConfig was
\* under way when it began; seen: the configuration the handler has read;
\* mine: the plugin's configurations since then (for the properties).
Pcs == {"free", "sent", "set_host", "delay", "log", "metric", "config", "compare",
        "secret", "publish", "reply"}

NoMessage == [rpc |-> "none"]
NoReply == [error |-> "none"]
Error == [error |-> "rpc"]

Replies ==
  {NoReply, Error} \cup GetInfoResponse \cup HealthResponse \cup ConfigResponse
    \cup ApplyResponse \cup TestResponse \cup WireResponse

Call ==
  [pc : Pcs, by : Client \cup {Nobody}, in : Requests \cup {NoMessage}, out : Replies,
   waiting : BOOLEAN, alone : BOOLEAN, seen : Json \cup {NoJson},
   mine : SUBSET Json]

Free ==
  [pc |-> "free", by |-> Nobody, in |-> NoMessage, out |-> NoReply, waiting |-> FALSE,
   alone |-> FALSE, seen |-> NoJson, mine |-> {}]

NewPlugin(kind, info, unreadable) ==
  [kind |-> kind, info |-> info, config |-> InitialJson, unreadable |-> unreadable,
   locked |-> FALSE, connection |-> None, services |-> None, open |-> {}]
NewClients == [c \in Client |-> [attached |-> FALSE, told |-> FALSE]]
NewHost == [phase |-> "new", config |-> NoJson, late |-> FALSE]

Init ==
  /\ \E kind \in Kinds, info \in Declarations, unreadable \in BOOLEAN :
       /\ unreadable => kind = "state-reuse"
       /\ plugin = NewPlugin(kind, info, unreadable)
  /\ clients = NewClients
  /\ host = NewHost
  /\ calls = [s \in Slot |-> Free]

Busy(s) == calls[s].pc # "free"

----------------------------------------------------------------------------
(* The host's side: wire.ExtensionPluginClient and handlerClient.          *)

AbandonedApply == \E s \in Slot : Busy(s) /\ calls[s].in.rpc = "apply" /\ ~calls[s].waiting
AwaitedApply   == \E s \in Slot : Busy(s) /\ calls[s].in.rpc = "apply" /\ calls[s].waiting

Invoke(s, by, message) ==
  /\ ~Busy(s)
  /\ calls' = [calls EXCEPT ![s] =
       [Free EXCEPT !.pc = "sent", !.by = by, !.in = message, !.waiting = TRUE,
          !.alone = message.rpc = "apply" /\ ~AbandonedApply,
          !.mine = IF message.rpc = "preprocess" THEN {plugin.config} ELSE {}]]

\* GetInfo, Health, ValidateConfig, ApplyConfig, TestConfig.  The plugin is used
\* once its capabilities are the manifest's; the host applies one configuration
\* at a time.
CallService(s, message) ==
  /\ CASE message.rpc = "info"   -> host.phase = "new"
       [] message.rpc = "health" -> TRUE
       [] OTHER                  -> host.phase = "ready"
  /\ message.rpc = "apply" => ~AwaitedApply
  /\ Invoke(s, Nobody, message)
  /\ UNCHANGED <<plugin, clients, host>>

\* handlerClient.Preprocess: the client checks the request first.
CallPreprocess(s, request) ==
  /\ host.phase = "ready" /\ ValidRequest(request)
  /\ Invoke(s, Nobody, RequestToWire(request))
  /\ UNCHANGED <<plugin, clients, host>>

\* A caller may use the generated client, without the checks, and a host may be
\* of another version.
CallUnchecked(s, message) ==
  /\ host.phase = "ready"
  /\ Invoke(s, Nobody, message)
  /\ UNCHANGED <<plugin, clients, host>>

\* handlerClient.AttachHost: once per client, whatever becomes of it.
CallAttachHost(s, c) ==
  /\ host.phase = "ready" /\ ~clients[c].attached /\ c \in Hosts[plugin.kind]
  /\ clients' = [clients EXCEPT ![c].attached = TRUE]
  /\ Invoke(s, c, [rpc |-> "attach", broker_id |-> BrokerId[c],
                   host_api_version |-> HostAPIVersion])
  /\ UNCHANGED <<plugin, host>>

\* The caller's context ends first; what the plugin does is not undone.
GiveUp(s) ==
  /\ Busy(s) /\ calls[s].waiting
  /\ calls' = [calls EXCEPT ![s] =
       IF @.pc = "reply" THEN Free ELSE [@ EXCEPT !.waiting = FALSE]]
  /\ host' = [host EXCEPT !.late = @ \/ calls[s].in.rpc = "apply"]
  /\ UNCHANGED <<plugin, clients>>

\* handlerClient.GetInfo, and the host's comparison with the manifest.
Agreed(out) ==
  /\ out # Error /\ ValidInfo(InfoFromWire(out))
  /\ NormalizeCapabilities(InfoFromWire(out).capabilities) = Manifest

\* Mutant: any answer counts.
AppliedAnyway(out) == out # Error

\* handlerClient.ApplyConfig, AttachHost: an error unless the plugin has applied.
Applied(out) == out # Error /\ out.applied

\* The call returns; what the caller learns from it.
Return(s) ==
  LET call == calls[s] IN
  /\ call.pc = "reply"
  /\ calls' = [calls EXCEPT ![s] = Free]
  /\ host' =
       CASE call.in.rpc = "info" ->
              [host EXCEPT !.phase = IF Agreed(call.out) THEN "ready" ELSE "refused"]
         [] call.in.rpc = "apply" /\ Applied(call.out) ->
              [host EXCEPT !.config = call.in.config_json, !.late = @ /\ ~call.alone]
         [] OTHER -> host
  /\ clients' = IF call.by \in Client /\ Applied(call.out)
                THEN [clients EXCEPT ![call.by].told = TRUE] ELSE clients
  /\ UNCHANGED <<plugin>>

----------------------------------------------------------------------------
(* The plugin's side: the generated handlers and handlerServer.            *)

Received(s, rpc) == calls[s].pc = "sent" /\ calls[s].in.rpc = rpc

\* Mutant: the answer is kept though nobody waits for it.
RepliedAnyway(call, out) == [call EXCEPT !.pc = "reply", !.out = out]

\* The answer to a call that was given up is dropped.
Replied(call, out) ==
  IF call.waiting THEN [call EXCEPT !.pc = "reply", !.out = out] ELSE Free
Reply(s, out) == calls' = [calls EXCEPT ![s] = Replied(@, out)]
Proceed(s, pc) == calls' = [calls EXCEPT ![s].pc = pc]

\* GetInfo, Health, ValidateConfig, TestConfig: nothing changes.
Answer(in) ==
  LET parses == in.config_json \notin Malformed IN
  CASE in.rpc = "info" -> IF ValidInfo(plugin.info) THEN InfoToWire(plugin.info) ELSE Error
    [] in.rpc = "health" -> [healthy |-> TRUE, message |-> 0]
    [] in.rpc = "validate" ->
         [valid |-> parses, message |-> IF parses THEN 0 ELSE 1,
          normalized_config_json |-> IF parses THEN Normalized[in.config_json] ELSE NoJson]
    [] in.rpc = "test" ->
         LET ok == parses \/ plugin.kind = "host-aware" IN
         [success |-> ok, latency_ms |-> 0, message |-> IF ok THEN 0 ELSE 1]

Serve(s) ==
  /\ calls[s].pc = "sent" /\ calls[s].in.rpc \in {"info", "health", "validate", "test"}
  /\ Reply(s, Answer(calls[s].in))
  /\ UNCHANGED <<plugin, clients, host>>

\* A text that does not parse leaves the configuration alone.
RefuseConfig(s) ==
  /\ Received(s, "apply") /\ calls[s].in.config_json \in Malformed
  /\ Reply(s, [applied |-> FALSE, message |-> 1])
  /\ UNCHANGED <<plugin, clients, host>>

\* The configuration is replaced in one step; "state-reuse" reads its ticket
\* file after that, and may then report a failure.
ApplyConfig(s) ==
  LET json == calls[s].in.config_json
      ok   == ~plugin.unreadable IN
  /\ Received(s, "apply") /\ json \notin Malformed
  /\ plugin' = [plugin EXCEPT !.config = json]
  /\ calls' = [t \in Slot |->
       CASE t = s -> Replied(calls[s], [applied |-> ok, message |-> IF ok THEN 0 ELSE 1])
         [] calls[t].in.rpc = "preprocess" -> [calls[t] EXCEPT !.mine = @ \cup {json}]
         [] OTHER -> calls[t]]
  /\ UNCHANGED <<clients, host>>

----------------------------------------------------------------------------
(* AttachHost.  The mutex is held from Dial to the end.                    *)

\* AlreadyExists, FailedPrecondition, Unimplemented; or Dial fails.
RefuseHost(s) ==
  /\ Received(s, "attach") /\ ~plugin.locked
  /\ Reply(s, Error)
  /\ UNCHANGED <<plugin, clients, host>>

\* Mutant: a second host may attach.
MayAttachAgain(in) ==
  /\ in.host_api_version = HostAPIVersion /\ in.broker_id # 0
  /\ plugin.kind = "host-aware"

MayAttach(in) ==
  /\ plugin.connection = None
  /\ in.host_api_version = HostAPIVersion /\ in.broker_id # 0
  /\ plugin.kind = "host-aware"

DialHost(s) ==
  /\ Received(s, "attach") /\ ~plugin.locked
  /\ MayAttach(calls[s].in)
  /\ plugin' = [plugin EXCEPT !.locked = TRUE, !.open = @ \cup {calls[s].in.broker_id}]
  /\ Proceed(s, "set_host")
  /\ UNCHANGED <<clients, host>>

\* SetHost accepts; the sample always does.
SetHost(s) ==
  /\ calls[s].pc = "set_host"
  /\ plugin' = [plugin EXCEPT !.locked = FALSE, !.connection = calls[s].in.broker_id,
                              !.services = calls[s].in.broker_id]
  /\ Reply(s, [applied |-> TRUE, message |-> 0])
  /\ UNCHANGED <<clients, host>>

\* Mutants: the connection stays open; the mutex stays locked.
RejectHostOpen(s) ==
  /\ calls[s].pc = "set_host"
  /\ plugin' = [plugin EXCEPT !.locked = FALSE]
  /\ Reply(s, Error)
  /\ UNCHANGED <<clients, host>>

RejectHostLocked(s) ==
  /\ calls[s].pc = "set_host"
  /\ plugin' = [plugin EXCEPT !.open = @ \ {calls[s].in.broker_id}]
  /\ Reply(s, Error)
  /\ UNCHANGED <<clients, host>>

\* SetHost returns an error: the connection is closed again.
RejectHost(s) ==
  /\ calls[s].pc = "set_host"
  /\ plugin' = [plugin EXCEPT !.locked = FALSE, !.open = @ \ {calls[s].in.broker_id}]
  /\ Reply(s, Error)
  /\ UNCHANGED <<clients, host>>

----------------------------------------------------------------------------
(* Preprocess.                                                             *)

Request(s) == RequestFromWire(calls[s].in)

Acceptable(s) ==
  /\ calls[s].in.context.deadline_unix_millis > 0
  /\ ValidRequest(Request(s))

\* No deadline, an invalid request, or a deadline that has passed by now.
RefusePreprocess(s) ==
  /\ Received(s, "preprocess")
  /\ Reply(s, Error)
  /\ UNCHANGED <<plugin, clients, host>>

Decided(decision, reason) ==
  [decision |-> decision, patch |-> {}, code |-> 0, reason |-> reason]
Pass == Decided("pass", 0)

\* The handler begins; the policy loads its configuration, once.
Preprocess(s) ==
  /\ Received(s, "preprocess")
  /\ Acceptable(s)
  /\ CASE plugin.kind = "policy" ->
            calls' = [calls EXCEPT ![s].pc = "delay", ![s].seen = plugin.config]
       [] plugin.kind = "host-aware" ->
            IF plugin.services = None THEN Reply(s, Error) ELSE Proceed(s, "log")
       [] plugin.kind = "state-reuse" -> Reply(s, ResponseToWire(Pass))
  /\ UNCHANGED <<plugin, clients, host>>

\* The policy: a model may be denied, and the tokens asked for are limited.
Denies(setting, r) == setting.deny # 0 /\ setting.deny = r.context.model

\* The limit is written into the body, which grows if it had none.
WithLimit(body, limit) ==
  [body EXCEPT !.tokens = limit, !.bytes = IF body.tokens = 0 THEN @ + 1 ELSE @]

Limited(setting, r) ==
  IF r.body.bytes = 0 \/ (r.body.form = "object" /\ r.body.tokens \in 1 .. setting.max)
  THEN Pass
  ELSE [Decided("modify", 0) EXCEPT !.patch =
          {[method |-> 0, path |-> 0, headers |-> NoHeaders, body_changed |-> TRUE,
            body |-> WithLimit(r.body, setting.max)]}]

Decide(setting, r) ==
  IF Denies(setting, r) THEN Decided("deny", 1) ELSE Limited(setting, r)

\* Mutant: the limit is read from the configuration of that moment.
DecisionReloaded(s) ==
  IF Denies(Setting[calls[s].seen], Request(s)) THEN Decided("deny", 1)
  ELSE Limited(Setting[plugin.config], Request(s))

Decision(s) == Decide(Setting[calls[s].seen], Request(s))

\* A body the policy cannot read is an error, and so is a decision that is not
\* a valid one: a body at its limit that has grown.
Wired(s) ==
  IF \/ ~Denies(Setting[calls[s].seen], Request(s)) /\ Request(s).body.form = "malformed"
     \/ ~ValidResponse(Decision(s))
  THEN Error ELSE ResponseToWire(Decision(s))

DecidePolicy(s) ==
  /\ calls[s].pc = "delay"
  /\ Reply(s, Wired(s))
  /\ UNCHANGED <<plugin, clients, host>>

\* The deadline passes during the configured delay.
DelayExpires(s) ==
  /\ calls[s].pc = "delay"
  /\ Reply(s, Error)
  /\ UNCHANGED <<plugin, clients, host>>

----------------------------------------------------------------------------
(* The host-aware sample and hostClient: each call of the host is bounded  *)
(* by two seconds and may fail.                                            *)

HostCalls == {"log", "metric", "config", "secret", "publish"}

Asked(s) ==
  CASE calls[s].pc = "log"     -> [host_rpc |-> "log", level |-> "info", code |-> "plugin.ready"]
    [] calls[s].pc = "metric"  -> [host_rpc |-> "metric", name |-> "requests", value |-> 1]
    [] calls[s].pc = "config"  -> [host_rpc |-> "config"]
    [] calls[s].pc = "secret"  -> [host_rpc |-> "secret", alias |-> Setting[calls[s].seen].alias]
    [] calls[s].pc = "publish" -> [host_rpc |-> "publish", name |-> "policy.pass", value |-> 1]

Asking(s, host_rpc) ==
  /\ calls[s].pc \in HostCalls
  /\ Asked(s).host_rpc = host_rpc

\* Too many calls, no configuration yet, no answer in time, a lost connection.
HostFails(s) ==
  /\ \E rpc \in {"log", "metric", "config", "publish"} : Asking(s, rpc)
  /\ Reply(s, Error)
  /\ UNCHANGED <<plugin, clients, host>>

HostAccepts(s) ==
  /\ \/ Asking(s, "log") /\ Proceed(s, "metric")
     \/ Asking(s, "metric") /\ Proceed(s, "config")
     \/ Asking(s, "publish") /\ Reply(s, ResponseToWire(Pass))
  /\ UNCHANGED <<plugin, clients, host>>

\* Config: the host's copy is the configuration it knows to be applied.
HostSendsConfig(s) ==
  /\ Asking(s, "config")
  /\ \E answer \in HostConfigResponse :
       /\ answer.config_json = host.config
       /\ calls' = [calls EXCEPT ![s].pc = "compare", ![s].seen = answer.config_json]
  /\ UNCHANGED <<plugin, clients, host>>

\* Mutant: no comparison.
AnyConfig(json) == TRUE

\* By then the plugin's configuration may have changed.
SameConfig(json) == Setting[json] = Setting[plugin.config]

Compare(s) ==
  /\ calls[s].pc = "compare"
  /\ IF ~SameConfig(calls[s].seen) THEN Reply(s, Error)
     ELSE Proceed(s, IF Setting[calls[s].seen].alias = 0 THEN "publish" ELSE "secret")
  /\ UNCHANGED <<plugin, clients, host>>

\* The secret of the configured digest, not expired (0: now).
Fits(answer, json) == answer.value = Setting[json].digest /\ answer.expires_unix_millis > 0

Deny(s) == Reply(s, ResponseToWire(Decided("deny", 1)))

\* Secret: not granted, another value or expired denies the request.
HostSendsSecret(s) ==
  /\ Asking(s, "secret")
  /\ \/ Deny(s)
     \/ \E answer \in Secrets :
          IF Fits(answer, calls[s].seen) THEN Proceed(s, "publish") ELSE Deny(s)
  /\ UNCHANGED <<plugin, clients, host>>

----------------------------------------------------------------------------

\* The process dies, and the host starts it again.
Crash ==
  /\ plugin' = NewPlugin(plugin.kind, plugin.info, plugin.unreadable)
  /\ clients' = NewClients
  /\ host' = NewHost
  /\ calls' = [s \in Slot |-> Free]

PluginStep(s) ==
  \/ Serve(s) \/ RefuseConfig(s) \/ ApplyConfig(s)
  \/ RefuseHost(s) \/ DialHost(s) \/ SetHost(s) \/ RejectHost(s)
  \/ RefusePreprocess(s) \/ Preprocess(s) \/ DecidePolicy(s) \/ DelayExpires(s)
  \/ HostFails(s) \/ HostAccepts(s) \/ HostSendsConfig(s) \/ Compare(s) \/ HostSendsSecret(s)

HostStep(s) ==
  \/ \E m \in Services[plugin.kind] : CallService(s, m)
  \/ \E r \in Inputs[plugin.kind] : CallPreprocess(s, r)
  \/ \E m \in Unchecked[plugin.kind] : CallUnchecked(s, m)
  \/ \E c \in Client : CallAttachHost(s, c)
  \/ GiveUp(s)

Next ==
  \/ \E s \in Slot : PluginStep(s) \/ HostStep(s) \/ Return(s)
  \/ Crash

\* Each call is worked on, on either side; a refused plugin is left alone.
Fairness == \A s \in Slot : WF_vars(PluginStep(s) \/ Return(s))

Spec == Init /\ [][Next]_vars /\ Fairness

----------------------------------------------------------------------------
(* Properties.                                                             *)

\* Every message under way, in both directions, is one of the services'; a slot
\* without a call holds nothing, and an answer has somebody waiting for it.
TypeOK ==
  /\ plugin \in PluginState
  /\ clients \in [Client -> ClientState]
  /\ host \in HostState
  /\ calls \in [Slot -> Call]
  /\ \A s \in Slot :
       /\ Busy(s) => calls[s].in # NoMessage
       /\ ~Busy(s) => calls[s] = Free
       /\ calls[s].pc = "reply" => calls[s].waiting /\ calls[s].out # NoReply
       /\ calls[s].pc \in HostCalls => Asked(s) \in HostRequests

Capabilities(list) == {[c EXCEPT !.permissions = Range(@)] : c \in Range(list)}

\* The handshake accepts a plugin exactly if it declares the manifest's
\* capabilities, in whatever order it lists them and their permissions, and
\* nothing twice (NormalizeCapabilities, PluginInfo.Validate; docs/host-api.md:9).
HandshakeExact ==
  LET same == /\ ValidInfo(plugin.info)
              /\ Capabilities(plugin.info.capabilities) = Capabilities(Manifest)
  IN  /\ host.phase = "ready" => same
      /\ host.phase = "refused" => ~same

\* With no ApplyConfig under way the plugin runs the configuration that was
\* acknowledged last: answers of calls that were given up, whatever their
\* order, are made good by one ApplyConfig that runs undisturbed.  Not so for
\* "state-reuse" with a corrupt ticket file (main.go:178-183).
AckedConfigRuns ==
  host.config # NoJson /\ ~host.late /\ ~AwaitedApply /\ ~plugin.unreadable
    => plugin.config = host.config

Answered(s, decision) ==
  /\ calls[s].pc = "reply" /\ calls[s].in.rpc = "preprocess"
  /\ calls[s].out # Error /\ calls[s].out.decision = decision

\* The host-aware sample passes a request only if the host's configuration was
\* also its own at some moment of the call.
PassedUnderHostsConfig ==
  \A s \in Slot :
    plugin.kind = "host-aware" /\ Answered(s, "pass") =>
      \E json \in calls[s].mine : Setting[json] = Setting[calls[s].seen]

\* While configurations change, a decision of the policy is that of one of
\* them, one that was in force during the call.
PolicyEnforced ==
  \A s \in Slot :
    plugin.kind = "policy" /\ calls[s].pc = "reply" /\ calls[s].in.rpc = "preprocess"
      /\ calls[s].out # Error =>
        \E json \in calls[s].mine :
          ResponseFromWire(calls[s].out) = Decide(Setting[json], Request(s))

\* No handler works on a request with a sensitive header, whoever sent it: the
\* plugin's side checks again what the client's side has checked
\* (contract.go:198, adapter.go:210; v2/README.md:20: such headers never reach
\* a preprocess plugin).
OnlySanitisedRuns ==
  \A s \in Slot :
    calls[s].pc \in {"delay", "log", "metric", "config", "compare", "secret", "publish"} =>
      Present(calls[s].in.context.headers) \cap SensitiveName = {}

\* A client that was told so is the one the plugin is attached to, however many
\* clients attach at the same time or give up.
AttachAgreement ==
  \A c \in Client :
    clients[c].told => plugin.connection = BrokerId[c] /\ plugin.services = BrokerId[c]

\* The only open connections are the attached one and the one being attached.
NoLeakedConnection ==
  \A id \in plugin.open :
    \/ id = plugin.connection
    \/ \E s \in Slot : calls[s].pc = "set_host" /\ calls[s].in.broker_id = id

\* The slots are interchangeable.
AnySlot == CHOOSE s \in Slot : TRUE

\* Every call ends, with or without a caller: none waits for the mutex, for the
\* host or for another call for ever.
CallsEnd == Busy(AnySlot) ~> ~Busy(AnySlot)
=============================================================================
