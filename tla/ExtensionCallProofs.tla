------------------------- MODULE ExtensionCallProofs -------------------------
(***************************************************************************)
(* Proofs about the calls of Extension, for any numbers of slots, clients, *)
(* configurations and messages: their types, what the handlers work on and *)
(* decide, the configuration that was acknowledged, and the handshake.     *)
(***************************************************************************)
EXTENDS Extension, FiniteSetTheorems, TLAPS

----------------------------------------------------------------------------
(* Types.                                                                  *)

Working == {"delay", "log", "metric", "config", "compare", "secret", "publish"}

\* What a call holds at each place of its handler.
Typed(r) ==
  /\ r.pc = "free" => r = Free
  /\ r.pc # "free" => r.in \in Requests
  /\ r.pc \in Working => r.in \in WireRequest
  /\ r.pc = "set_host" => r.in \in AttachHostRequest
  /\ r.pc \in {"delay", "compare", "secret"} => r.seen \in Json
  /\ r.pc = "reply" => r.waiting /\ r.out # NoReply

Types ==
  /\ plugin \in PluginState
  /\ clients \in [Client -> ClientState]
  /\ host \in HostState
  /\ calls \in [Slot -> Call]
  /\ \A s \in Slot : Typed(calls[s])

\* Where no call is under way, and where it begins.
LEMMA FreeTyped == Free \in Call /\ Typed(Free) /\ Free.pc = "free" /\ Free.in.rpc = "none"
BY DEF Free, Call, Pcs, Replies, Typed, Working, NoMessage, NoReply

\* Each message has one type.
LEMMA MessageTypes ==
  ASSUME NEW m \in Requests
  PROVE  /\ m.rpc = "preprocess" => m \in WireRequest
         /\ m.rpc = "attach" => m \in AttachHostRequest
         /\ m.rpc \in {"validate", "apply", "test"} => m \in ConfigRequest
         /\ m.rpc \in {"info", "health", "validate", "apply", "test", "preprocess", "attach"}
BY DEF Requests, GetInfoRequest, HealthRequest, ConfigRequest, WireRequest, AttachHostRequest

\* A call changes place.
LEMMA Moved ==
  ASSUME NEW r \in Call, NEW pc \in Pcs
  PROVE  LET q == [r EXCEPT !.pc = pc] IN
         /\ q \in Call
         /\ q.pc = pc /\ q.in = r.in /\ q.out = r.out /\ q.waiting = r.waiting
         /\ q.alone = r.alone /\ q.seen = r.seen /\ q.mine = r.mine
BY DEF Call

\* A handler reads a configuration and goes on.
LEMMA Looked ==
  ASSUME NEW r \in Call, NEW pc \in Pcs, NEW json \in Json
  PROVE  LET q == [r EXCEPT !.pc = pc, !.seen = json] IN
         /\ q \in Call
         /\ q.pc = pc /\ q.in = r.in /\ q.out = r.out /\ q.waiting = r.waiting
         /\ q.alone = r.alone /\ q.seen = json /\ q.mine = r.mine
BY DEF Call

\* A call is answered, if anybody waits for it.
LEMMA RepliedCall ==
  ASSUME NEW r \in Call, NEW out \in Replies
  PROVE  LET q == Replied(r, out) IN
         \/ ~r.waiting /\ q = Free
         \/ /\ r.waiting /\ q \in Call
            /\ q.pc = "reply" /\ q.in = r.in /\ q.out = out /\ q.waiting
            /\ q.alone = r.alone /\ q.seen = r.seen /\ q.mine = r.mine
BY DEF Call, Replied, Pcs

LEMMA SlotTyped ==
  ASSUME Types, NEW s \in Slot, NEW r \in Call, Typed(r),
         calls' = [calls EXCEPT ![s] = r],
         plugin' \in PluginState, clients' \in [Client -> ClientState], host' \in HostState
  PROVE  Types'
BY DEF Types

LEMMA ProceedTyped ==
  ASSUME Types, NEW s \in Slot, NEW pc \in Pcs, Proceed(s, pc),
         Typed([calls[s] EXCEPT !.pc = pc]),
         plugin' \in PluginState, UNCHANGED <<clients, host>>
  PROVE  Types'
<1> DEFINE r == [calls[s] EXCEPT !.pc = pc]
<1>1. r \in Call
  BY Moved DEF Types
<1>2. calls' = [calls EXCEPT ![s] = r]
  BY DEF Proceed
<1>3. clients' \in [Client -> ClientState] /\ host' \in HostState
  BY DEF Types
<1>4. Typed(r)
  OBVIOUS
<1> HIDE DEF r
<1> QED BY <1>1, <1>2, <1>3, <1>4, SlotTyped

LEMMA ReplyTyped ==
  ASSUME Types, NEW s \in Slot, calls[s].pc # "free",
         NEW out \in Replies, out # NoReply, Reply(s, out),
         plugin' \in PluginState, UNCHANGED <<clients, host>>
  PROVE  Types'
<1> DEFINE r == Replied(calls[s], out)
<1>1. calls[s] \in Call /\ Typed(calls[s])
  BY DEF Types
<1>2. r \in Call /\ Typed(r)
  BY <1>1, RepliedCall, FreeTyped DEF Typed, Working
<1>3. calls' = [calls EXCEPT ![s] = r]
  BY DEF Reply
<1>4. clients' \in [Client -> ClientState] /\ host' \in HostState
  BY DEF Types
<1> HIDE DEF r
<1> QED BY <1>2, <1>3, <1>4, SlotTyped

\* What the handlers answer.
LEMMA AppliedReply ==
  ASSUME NEW ok \in BOOLEAN, NEW n \in Nat
  PROVE  LET out == [applied |-> ok, message |-> n] IN
         out \in Replies /\ out # NoReply /\ out # Error
<1> DEFINE out == [applied |-> ok, message |-> n]
<1>1. "applied" \in DOMAIN out /\ "applied" \notin DOMAIN NoReply /\ "applied" \notin DOMAIN Error
  BY DEF NoReply, Error
<1>2. out \in Replies
  BY DEF Replies, ApplyResponse
<1> QED BY <1>1, <1>2

LEMMA ErrorReply == Error \in Replies /\ Error # NoReply
BY DEF Replies, Error, NoReply

LEMMA AnswerReply ==
  ASSUME Types, NEW in \in Requests, in.rpc \in {"info", "health", "validate", "test"}
  PROVE  Answer(in) \in Replies /\ Answer(in) # NoReply
<1>1. CASE in.rpc = "info"
  <2>1. plugin.info \in PluginInfo
    BY ExtensionTypes DEF Types, PluginState
  <2>2. InfoToWire(plugin.info) \in GetInfoResponse
    BY <2>1 DEF InfoToWire, PluginInfo, GetInfoResponse, Capability, WireCapability
  <2>3. "plugin_id" \in DOMAIN InfoToWire(plugin.info) /\ "plugin_id" \notin DOMAIN NoReply
    BY DEF InfoToWire, NoReply
  <2>4. Answer(in) \in {InfoToWire(plugin.info), Error}
    BY <1>1 DEF Answer
  <2> QED BY <2>2, <2>3, <2>4, ErrorReply DEF Replies
<1>2. CASE in.rpc = "health"
  <2> DEFINE out == [healthy |-> TRUE, message |-> 0]
  <2>1. Answer(in) = out
    BY <1>2 DEF Answer
  <2>2. "healthy" \in DOMAIN out /\ "healthy" \notin DOMAIN NoReply
    BY DEF NoReply
  <2>3. out \in HealthResponse
    BY DEF HealthResponse
  <2> QED BY <2>1, <2>2, <2>3 DEF Replies
<1>3. CASE in.rpc = "validate"
  <2>1. in.config_json \in Json
    BY <1>3, MessageTypes DEF ConfigRequest
  <2> DEFINE parses == in.config_json \notin Malformed
             out == [valid |-> parses, message |-> IF parses THEN 0 ELSE 1,
                     normalized_config_json |-> IF parses THEN Normalized[in.config_json] ELSE NoJson]
  <2>2. Answer(in) = out
    BY <1>3 DEF Answer
  <2>3. "valid" \in DOMAIN out /\ "valid" \notin DOMAIN NoReply
    BY DEF NoReply
  <2>4. Normalized[in.config_json] \in Json
    BY <2>1, ExtensionAssumption
  <2>5. out \in ConfigResponse
    BY <2>4 DEF ConfigResponse
  <2> QED BY <2>2, <2>3, <2>5 DEF Replies
<1>4. CASE in.rpc = "test"
  <2> DEFINE ok == in.config_json \notin Malformed \/ plugin.kind = "host-aware"
             out == [success |-> ok, latency_ms |-> 0, message |-> IF ok THEN 0 ELSE 1]
  <2>1. Answer(in) = out
    BY <1>4 DEF Answer
  <2>2. "success" \in DOMAIN out /\ "success" \notin DOMAIN NoReply
    BY DEF NoReply
  <2>3. out \in TestResponse
    BY DEF TestResponse
  <2> QED BY <2>1, <2>2, <2>3 DEF Replies
<1> QED BY <1>1, <1>2, <1>3, <1>4

LEMMA PassReply ==
  /\ ResponseToWire(Pass) \in Replies /\ ResponseToWire(Pass) # NoReply
  /\ ResponseToWire(Pass) # Error
<1> DEFINE out == ResponseToWire(Pass)
<1>1. out = [decision |-> "pass", code |-> 0, reason |-> 0, patch |-> {}]
  BY DEF ResponseToWire, Pass, Decided
<1>2. out \in WireResponse
  BY <1>1 DEF WireResponse, Verdict
<1>3. "decision" \in DOMAIN out /\ "decision" \notin DOMAIN NoReply /\ "decision" \notin DOMAIN Error
  BY <1>1 DEF NoReply, Error
<1> QED BY <1>2, <1>3 DEF Replies

LEMMA DenyReply ==
  LET out == ResponseToWire(Decided("deny", 1)) IN
  out \in Replies /\ out # NoReply /\ out.decision = "deny"
<1> DEFINE out == ResponseToWire(Decided("deny", 1))
<1>1. out = [decision |-> "deny", code |-> 0, reason |-> 1, patch |-> {}]
  BY DEF ResponseToWire, Decided
<1>2. out \in WireResponse
  BY <1>1 DEF WireResponse, Verdict
<1>3. "decision" \in DOMAIN out /\ "decision" \notin DOMAIN NoReply
  BY <1>1 DEF NoReply
<1> QED BY <1>1, <1>2, <1>3 DEF Replies

\* A decision of the policy's: nothing, or one patch with a body.
Patches ==
  [method : Nat, path : Nat, headers : Headers, body_changed : BOOLEAN, body : BodyJson]
Responses == [decision : Verdict, patch : SUBSET Patches, code : Nat, reason : Nat]

LEMMA FromWireTyped ==
  ASSUME NEW m \in WireRequest
  PROVE  RequestFromWire(m).body \in BodyJson /\ RequestFromWire(m).context.model \in Nat
BY DEF RequestFromWire, WireRequest, WireContext

LEMMA DecideTyped ==
  ASSUME NEW json \in Json, NEW m \in WireRequest
  PROVE  Decide(Setting[json], RequestFromWire(m)) \in Responses
<1> DEFINE r == RequestFromWire(m)
           max == Setting[json].max
           p == [method |-> 0, path |-> 0, headers |-> NoHeaders, body_changed |-> TRUE,
                 body |-> WithLimit(r.body, max)]
<1>1. max \in Nat
  BY ExtensionTypes
<1>2. r.body \in BodyJson
  BY FromWireTyped
<1>3. WithLimit(r.body, max) \in BodyJson
  <2> DEFINE b == r.body
             n == IF b.tokens = 0 THEN b.bytes + 1 ELSE b.bytes
  <2> HIDE DEF r, max
  <2>1. n \in Nat
    BY <1>2 DEF BodyJson
  <2> HIDE DEF n
  <2>2. [b EXCEPT !.tokens = max, !.bytes = n] \in BodyJson
    BY <1>1, <1>2, <2>1 DEF BodyJson
  <2> QED BY <2>2 DEF WithLimit, n
<1>4. NoHeaders \in Headers
  BY DEF NoHeaders, Headers, HeaderValues
<1>5. p \in Patches
  <2> HIDE DEF r, max
  <2> QED BY <1>3, <1>4 DEF Patches
<1>6. [Decided("modify", 0) EXCEPT !.patch = {p}] \in Responses
  <2> HIDE DEF p
  <2> QED BY <1>5 DEF Responses, Decided, Verdict
<1>7. Decided("deny", 1) \in Responses /\ Pass \in Responses
  BY DEF Decided, Pass, Responses, Verdict
<1>8. Decide(Setting[json], r) \in
        {Decided("deny", 1), Pass, [Decided("modify", 0) EXCEPT !.patch = {p}]}
  BY DEF Decide, Limited
<1> QED BY <1>6, <1>7, <1>8

LEMMA ToWireTyped ==
  ASSUME NEW d \in Responses
  PROVE  LET out == ResponseToWire(d) IN out \in Replies /\ out # NoReply /\ out # Error
<1> DEFINE wire(p) == [method |-> p.method, path |-> p.path, headers |-> p.headers,
                       body_json |-> p.body, body_changed |-> p.body_changed]
           out == ResponseToWire(d)
<1>1. ASSUME NEW p \in Patches PROVE wire(p) \in WirePatch
  BY DEF Patches, WirePatch
<1>2. d.patch \subseteq Patches
  BY DEF Responses
<1>3. {wire(p) : p \in d.patch} \subseteq WirePatch
  BY <1>1, <1>2
<1>4. out = [decision |-> d.decision, code |-> d.code, reason |-> d.reason,
             patch |-> {wire(p) : p \in d.patch}]
  BY DEF ResponseToWire
<1>5. out \in WireResponse
  <2> HIDE DEF wire
  <2> QED BY <1>3, <1>4 DEF WireResponse, Responses
<1>6. "decision" \in DOMAIN out /\ "decision" \notin DOMAIN NoReply /\ "decision" \notin DOMAIN Error
  BY <1>4 DEF NoReply, Error
<1> QED BY <1>5, <1>6 DEF Replies

\* The answer is the decision, or an error.
LEMMA WiredReply ==
  ASSUME NEW s \in Slot, calls[s].seen \in Json, calls[s].in \in WireRequest
  PROVE  /\ Wired(s) \in Replies /\ Wired(s) # NoReply
         /\ Wired(s) = Error \/ Wired(s) = ResponseToWire(Decision(s))
<1>1. Decision(s) \in Responses
  BY DecideTyped DEF Decision, Request
<1>2. Wired(s) = Error \/ Wired(s) = ResponseToWire(Decision(s))
  BY DEF Wired
<1> QED BY <1>1, <1>2, ToWireTyped, ErrorReply

LEMMA InvokeTyped ==
  ASSUME Types, NEW s \in Slot, NEW by \in Client \cup {Nobody}, NEW m \in Requests,
         Invoke(s, by, m), clients' \in [Client -> ClientState], UNCHANGED <<plugin, host>>
  PROVE  Types'
<1> DEFINE alone == m.rpc = "apply" /\ ~AbandonedApply
           mine == IF m.rpc = "preprocess" THEN {plugin.config} ELSE {}
           r == [Free EXCEPT !.pc = "sent", !.by = by, !.in = m, !.waiting = TRUE,
                   !.alone = alone, !.mine = mine]
<1>1. calls' = [calls EXCEPT ![s] = r]
  BY DEF Invoke
<1>2. mine \subseteq Json
  BY DEF Types, PluginState
<1>3. alone \in BOOLEAN
  OBVIOUS
<1> HIDE DEF alone, mine
<1>4. r \in Call /\ r.pc = "sent" /\ r.in = m
  BY <1>2, <1>3, FreeTyped DEF Call, Pcs, Free
<1>5. Typed(r)
  BY <1>4 DEF Typed, Working
<1>6. plugin' \in PluginState /\ host' \in HostState
  BY DEF Types
<1> HIDE DEF r
<1> QED BY <1>1, <1>4, <1>5, <1>6, SlotTyped

LEMMA ToWireRequest ==
  ASSUME NEW r \in PreprocessRequest
  PROVE  RequestToWire(r) \in WireRequest /\ RequestToWire(r).rpc = "preprocess"
<1>1. UnixMilli(r.context.deadline) \in Int
  BY WireAssumption DEF UnixMilli, PreprocessRequest
<1> QED BY <1>1 DEF RequestToWire, PreprocessRequest, WireRequest, WireContext

LEMMA ClientAttached ==
  ASSUME NEW f \in [Client -> ClientState], NEW c \in Client
  PROVE  [f EXCEPT ![c].attached = TRUE] \in [Client -> ClientState]
BY DEF ClientState

LEMMA HostStepTyped ==
  ASSUME Types, NEW s \in Slot, HostStep(s)
  PROVE  Types'
<1> USE ExtensionAssumption, ExtensionTypes
<1>0. plugin.kind \in Kinds /\ clients \in [Client -> ClientState]
  BY DEF Types, PluginState
<1>1. ASSUME NEW m \in Services[plugin.kind], CallService(s, m) PROVE Types'
  <2>1. m \in Requests
    BY <1>0 DEF Requests
  <2> QED BY <1>0, <1>1, <2>1, InvokeTyped DEF CallService
<1>2. ASSUME NEW r \in Inputs[plugin.kind], CallPreprocess(s, r) PROVE Types'
  <2>1. RequestToWire(r) \in Requests
    BY <1>0, ToWireRequest DEF Requests
  <2> QED BY <1>0, <1>2, <2>1, InvokeTyped DEF CallPreprocess
<1>3. ASSUME NEW m \in Unchecked[plugin.kind], CallUnchecked(s, m) PROVE Types'
  <2>1. m \in Requests
    BY <1>0 DEF Requests
  <2> QED BY <1>0, <1>3, <2>1, InvokeTyped DEF CallUnchecked
<1>4. ASSUME NEW c \in Client, CallAttachHost(s, c) PROVE Types'
  <2> DEFINE m == [rpc |-> "attach", broker_id |-> BrokerId[c],
                   host_api_version |-> HostAPIVersion]
  <2>1. m \in AttachHostRequest
    BY DEF AttachHostRequest, HostAPIVersion
  <2>2. m \in Requests
    BY <2>1 DEF Requests
  <2>3. clients' \in [Client -> ClientState]
    <3>1. clients' = [clients EXCEPT ![c].attached = TRUE]
      BY <1>4 DEF CallAttachHost
    <3> QED BY <1>0, <3>1, ClientAttached
  <2>4. Invoke(s, c, m) /\ UNCHANGED <<plugin, host>>
    BY <1>4 DEF CallAttachHost
  <2> HIDE DEF m
  <2> QED BY <2>2, <2>3, <2>4, InvokeTyped
<1>5. CASE GiveUp(s)
  <2> DEFINE r == IF calls[s].pc = "reply" THEN Free ELSE [calls[s] EXCEPT !.waiting = FALSE]
  <2>1. calls' = [calls EXCEPT ![s] = r] /\ UNCHANGED <<plugin, clients>>
    BY <1>5 DEF GiveUp
  <2>2. calls[s] \in Call /\ Typed(calls[s]) /\ calls[s].pc # "free"
    BY <1>5 DEF Types, GiveUp, Busy
  <2>3. r \in Call /\ Typed(r)
    <3>1. CASE calls[s].pc = "reply"
      BY <3>1, FreeTyped
    <3>2. CASE calls[s].pc # "reply"
      BY <2>2, <3>2 DEF Call, Typed
    <3> QED BY <3>1, <3>2
  <2>4. host' \in HostState
    BY <1>5 DEF GiveUp, Types, HostState
  <2> HIDE DEF r
  <2> QED BY <1>0, <2>1, <2>3, <2>4, SlotTyped DEF Types
<1> QED BY <1>1, <1>2, <1>3, <1>4, <1>5 DEF HostStep

LEMMA ReturnTyped ==
  ASSUME Types, NEW s \in Slot, Return(s)
  PROVE  Types'
<1>1. calls' = [calls EXCEPT ![s] = Free] /\ plugin' = plugin /\ calls[s].pc = "reply"
  BY DEF Return
<1>2. calls[s].in \in Requests /\ clients \in [Client -> ClientState] /\ host \in HostState
  BY <1>1 DEF Types, Typed
<1>3. clients' \in [Client -> ClientState]
  BY <1>2 DEF Return, ClientState
<1>4. host' \in HostState
  <2>1. CASE calls[s].in.rpc = "info"
    BY <1>2, <2>1 DEF Return, HostState
  <2>2. CASE calls[s].in.rpc = "apply"
    <3>1. calls[s].in.config_json \in Json
      BY <1>2, <2>2, MessageTypes DEF ConfigRequest
    <3> QED BY <1>2, <2>2, <3>1 DEF Return, HostState
  <2>3. CASE calls[s].in.rpc \notin {"info", "apply"}
    BY <1>2, <2>3 DEF Return, HostState
  <2> QED BY <2>1, <2>2, <2>3
<1> QED BY <1>1, <1>3, <1>4, FreeTyped, SlotTyped DEF Types

LEMMA ServiceTyped ==
  ASSUME Types, NEW s \in Slot, Serve(s) \/ RefuseConfig(s) \/ RefuseHost(s)
  PROVE  Types'
<1>1. calls[s].pc = "sent" /\ calls[s].in \in Requests /\ plugin \in PluginState
  BY DEF Types, Typed, Serve, RefuseConfig, RefuseHost, Received
<1>2. CASE Serve(s)
  BY <1>1, <1>2, AnswerReply, ReplyTyped DEF Serve
<1>3. CASE RefuseConfig(s)
  <2> DEFINE out == [applied |-> FALSE, message |-> 1]
  <2>1. out \in Replies /\ out # NoReply
    BY AppliedReply
  <2>2. Reply(s, out) /\ UNCHANGED <<plugin, clients, host>>
    BY <1>3 DEF RefuseConfig
  <2> HIDE DEF out
  <2> QED BY <1>1, <2>1, <2>2, ReplyTyped
<1>4. CASE RefuseHost(s)
  BY <1>1, <1>4, ErrorReply, ReplyTyped DEF RefuseHost
<1> QED BY <1>2, <1>3, <1>4

\* What ApplyConfig makes of the calls: its own is answered, and those that are
\* being preprocessed see one more configuration.
Grown(r, json) == [r EXCEPT !.mine = @ \cup {json}]

LEMMA GrownCall ==
  ASSUME NEW r \in Call, NEW json \in Json
  PROVE  LET q == Grown(r, json) IN
         /\ q \in Call
         /\ q.pc = r.pc /\ q.in = r.in /\ q.out = r.out /\ q.waiting = r.waiting
         /\ q.alone = r.alone /\ q.seen = r.seen /\ q.mine = r.mine \cup {json}
BY DEF Grown, Call

LEMMA Applying ==
  ASSUME Types, NEW s \in Slot, ApplyConfig(s)
  PROVE  LET json == calls[s].in.config_json
             ok   == ~plugin.unreadable
             out  == [applied |-> ok, message |-> IF ok THEN 0 ELSE 1] IN
         /\ json \in Json /\ calls[s].pc = "sent" /\ calls[s].in.rpc = "apply"
         /\ calls[s].in \in Requests
         /\ plugin' \in PluginState /\ plugin' = [plugin EXCEPT !.config = json]
         /\ plugin'.config = json /\ plugin'.kind = plugin.kind /\ plugin'.info = plugin.info
         /\ plugin'.unreadable = plugin.unreadable
         /\ UNCHANGED <<clients, host>>
         /\ out \in Replies /\ out # NoReply
         /\ DOMAIN calls' = Slot
         /\ calls'[s] = Replied(calls[s], out)
         /\ \A t \in Slot \ {s} :
              calls'[t] = IF calls[t].in.rpc = "preprocess" THEN Grown(calls[t], json)
                          ELSE calls[t]
<1> DEFINE json == calls[s].in.config_json
           ok   == ~plugin.unreadable
           out  == [applied |-> ok, message |-> IF ok THEN 0 ELSE 1]
<1>1. calls[s].pc = "sent" /\ calls[s].in.rpc = "apply" /\ calls[s].in \in Requests
  BY DEF ApplyConfig, Received, Types, Typed
<1>2. json \in Json
  BY <1>1, MessageTypes DEF ConfigRequest
<1>3. plugin' \in PluginState /\ plugin' = [plugin EXCEPT !.config = json]
      /\ plugin'.config = json /\ plugin'.kind = plugin.kind /\ plugin'.info = plugin.info
      /\ plugin'.unreadable = plugin.unreadable /\ UNCHANGED <<clients, host>>
  BY <1>2 DEF ApplyConfig, Types, PluginState
<1>4. out \in Replies /\ out # NoReply
  BY AppliedReply
<1>5. calls' = [t \in Slot |->
         CASE t = s -> Replied(calls[s], out)
           [] calls[t].in.rpc = "preprocess" -> [calls[t] EXCEPT !.mine = @ \cup {json}]
           [] OTHER -> calls[t]]
  BY Zenon DEF ApplyConfig
<1>6. DOMAIN calls' = Slot /\ calls'[s] = Replied(calls[s], out)
  <2> HIDE DEF out, json
  <2> QED BY <1>1, <1>5
<1>7. ASSUME NEW t \in Slot \ {s}
      PROVE  calls'[t] = IF calls[t].in.rpc = "preprocess" THEN Grown(calls[t], json)
                         ELSE calls[t]
  <2> HIDE DEF out, json
  <2> QED BY <1>5 DEF Grown
<1> HIDE DEF out, json, ok
<1>8. /\ json \in Json /\ calls[s].pc = "sent" /\ calls[s].in.rpc = "apply"
      /\ calls[s].in \in Requests
      /\ plugin' \in PluginState /\ plugin' = [plugin EXCEPT !.config = json]
      /\ plugin'.config = json /\ plugin'.kind = plugin.kind /\ plugin'.info = plugin.info
      /\ plugin'.unreadable = plugin.unreadable
      /\ UNCHANGED <<clients, host>>
      /\ out \in Replies /\ out # NoReply
      /\ DOMAIN calls' = Slot
      /\ calls'[s] = Replied(calls[s], out)
      /\ \A t \in Slot \ {s} :
           calls'[t] = IF calls[t].in.rpc = "preprocess" THEN Grown(calls[t], json)
                       ELSE calls[t]
  BY <1>1, <1>2, <1>3, <1>4, <1>6, <1>7
<1> QED BY <1>8, Zenon DEF out, json, ok

LEMMA ApplyTyped ==
  ASSUME Types, NEW s \in Slot, ApplyConfig(s)
  PROVE  Types'
<1> DEFINE json == calls[s].in.config_json
           ok   == ~plugin.unreadable
           out  == [applied |-> ok, message |-> IF ok THEN 0 ELSE 1]
<1> HIDE DEF json, ok, out
<1>1. /\ json \in Json /\ calls[s].pc = "sent" /\ out \in Replies /\ out # NoReply
      /\ plugin' \in PluginState /\ UNCHANGED <<clients, host>>
      /\ DOMAIN calls' = Slot /\ calls'[s] = Replied(calls[s], out)
      /\ \A t \in Slot \ {s} :
           calls'[t] = IF calls[t].in.rpc = "preprocess" THEN Grown(calls[t], json)
                       ELSE calls[t]
  BY Applying DEF json, ok, out
<1>2. calls'[s] \in Call /\ Typed(calls'[s])
  <2>1. calls[s] \in Call /\ Typed(calls[s])
    BY DEF Types
  <2> QED BY <1>1, <2>1, RepliedCall, FreeTyped DEF Typed, Working
<1>3. ASSUME NEW t \in Slot \ {s} PROVE calls'[t] \in Call /\ Typed(calls'[t])
  <2>1. calls[t] \in Call /\ Typed(calls[t])
    BY DEF Types
  <2>2. CASE calls[t].in.rpc = "preprocess"
    <3>1. calls'[t] = Grown(calls[t], json) /\ calls[t].pc # "free"
      BY <1>1, <2>1, <2>2, FreeTyped DEF Typed
    <3> QED BY <1>1, <2>1, <3>1, GrownCall DEF Typed
  <2>3. CASE calls[t].in.rpc # "preprocess"
    BY <1>1, <2>1, <2>3
  <2> QED BY <2>2, <2>3
<1>4. \A t \in Slot : calls'[t] \in Call /\ Typed(calls'[t])
  BY <1>2, <1>3
<1>5. calls' \in [Slot -> Call]
  <2>1. calls' = [t \in Slot |-> calls'[t]]
    BY DEF ApplyConfig
  <2> QED BY <1>4, <2>1
<1> QED BY <1>1, <1>4, <1>5 DEF Types

LEMMA AttachTyped ==
  ASSUME Types, NEW s \in Slot, DialHost(s) \/ SetHost(s) \/ RejectHost(s)
  PROVE  Types'
<1>1. CASE DialHost(s)
  <2>1. /\ calls[s] \in Call /\ Typed(calls[s])
        /\ calls[s].pc = "sent" /\ calls[s].in \in AttachHostRequest
    BY <1>1, MessageTypes DEF DialHost, Received, Types, Typed
  <2>2. calls[s].in \in Requests
    BY <2>1 DEF Requests
  <2>3. plugin' \in PluginState
    BY <1>1, <2>1 DEF DialHost, Types, PluginState, AttachHostRequest
  <2>4. "set_host" \in Pcs
    BY DEF Pcs
  <2>5. Typed([calls[s] EXCEPT !.pc = "set_host"])
    BY <2>1, <2>2, <2>4, Moved DEF Typed, Working
  <2> QED BY <1>1, <2>3, <2>4, <2>5, ProceedTyped DEF DialHost
<1>2. CASE SetHost(s)
  <2> DEFINE out == [applied |-> TRUE, message |-> 0]
  <2>1. out \in Replies /\ out # NoReply
    BY AppliedReply
  <2>2. calls[s].pc = "set_host" /\ calls[s].in \in AttachHostRequest
    BY <1>2 DEF SetHost, Types, Typed
  <2>3. plugin' \in PluginState
    BY <1>2, <2>2 DEF SetHost, Types, PluginState, AttachHostRequest
  <2>4. Reply(s, out) /\ UNCHANGED <<clients, host>>
    BY <1>2 DEF SetHost
  <2> HIDE DEF out
  <2> QED BY <2>1, <2>2, <2>3, <2>4, ReplyTyped
<1>3. CASE RejectHost(s)
  <2>1. calls[s].pc = "set_host"
    BY <1>3 DEF RejectHost
  <2>2. plugin' \in PluginState
    BY <1>3 DEF RejectHost, Types, PluginState
  <2> QED BY <1>3, <2>1, <2>2, ErrorReply, ReplyTyped DEF RejectHost
<1> QED BY <1>1, <1>2, <1>3

LEMMA PreprocessTyped ==
  ASSUME Types, NEW s \in Slot,
         RefusePreprocess(s) \/ Preprocess(s) \/ DecidePolicy(s) \/ DelayExpires(s)
  PROVE  Types'
<1>1. /\ calls[s] \in Call /\ Typed(calls[s]) /\ plugin \in PluginState
      /\ calls[s].pc # "free" /\ calls[s].in \in WireRequest
      /\ UNCHANGED <<plugin, clients, host>>
  BY MessageTypes DEF Types, Typed, RefusePreprocess, Preprocess, DecidePolicy, DelayExpires,
     Received, Working
<1>2. CASE RefusePreprocess(s) \/ DelayExpires(s)
  BY <1>1, <1>2, ErrorReply, ReplyTyped DEF RefusePreprocess, DelayExpires
<1>3. CASE DecidePolicy(s)
  <2>1. calls[s].seen \in Json
    BY <1>1, <1>3 DEF Typed, DecidePolicy
  <2> QED BY <1>1, <1>3, <2>1, WiredReply, ReplyTyped DEF DecidePolicy
<1>4. CASE Preprocess(s)
  <2>1. CASE plugin.kind = "policy"
    <3> DEFINE r == [calls[s] EXCEPT !.pc = "delay", !.seen = plugin.config]
    <3>1. calls' = [calls EXCEPT ![s] = r]
      BY <1>4, <2>1 DEF Preprocess
    <3>2. plugin.config \in Json /\ "delay" \in Pcs
      BY <1>1 DEF PluginState, Pcs
    <3>3. r \in Call /\ r.pc = "delay" /\ r.in = calls[s].in /\ r.seen = plugin.config
      BY <1>1, <3>2, Looked
    <3>4. Typed(r)
      BY <1>1, <3>2, <3>3 DEF Typed
    <3> HIDE DEF r
    <3> QED BY <1>1, <3>1, <3>3, <3>4, SlotTyped DEF Types
  <2>2. CASE plugin.kind = "host-aware"
    <3>1. Reply(s, Error) \/ Proceed(s, "log")
      BY <1>4, <2>2 DEF Preprocess
    <3>2. "log" \in Pcs
      BY DEF Pcs
    <3>3. Typed([calls[s] EXCEPT !.pc = "log"])
      BY <1>1, <3>2, Moved DEF Typed
    <3> QED BY <1>1, <3>1, <3>2, <3>3, ErrorReply, ReplyTyped, ProceedTyped
  <2>3. CASE plugin.kind = "state-reuse"
    BY <1>1, <1>4, <2>3, PassReply, ReplyTyped DEF Preprocess
  <2> QED BY <1>1, <2>1, <2>2, <2>3, ExtensionAssumption DEF PluginState
<1> QED BY <1>2, <1>3, <1>4

\* The calls of the host that may follow each other.
LEMMA HostCallTyped ==
  ASSUME Types, NEW s \in Slot,
         \/ HostFails(s) \/ HostAccepts(s) \/ HostSendsConfig(s)
         \/ Compare(s) \/ HostSendsSecret(s)
  PROVE  Types'
<1>1. /\ calls[s] \in Call /\ Typed(calls[s]) /\ plugin \in PluginState
      /\ calls[s].pc \in HostCalls \cup {"compare"} /\ calls[s].in \in WireRequest
      /\ UNCHANGED <<plugin, clients, host>>
  BY DEF Types, Typed, HostFails, HostAccepts, HostSendsConfig, Compare, HostSendsSecret,
     Asking, HostCalls, Working
<1>2. calls[s].pc # "free"
  BY <1>1 DEF HostCalls
<1>3. calls[s].pc # "secret" => \A pc \in {"metric", "config"} : Typed([calls[s] EXCEPT !.pc = pc])
  <2>1. \A pc \in {"metric", "config"} : pc \in Pcs
    BY DEF Pcs
  <2> QED BY <1>1, <1>2, <2>1, Moved DEF Typed
<1>4. {"metric", "config", "publish", "secret"} \subseteq Pcs
  BY DEF Pcs
<1>5. CASE HostFails(s)
  BY <1>1, <1>2, <1>5, ErrorReply, ReplyTyped DEF HostFails
<1>6. CASE HostAccepts(s)
  <2>1. \/ Proceed(s, "metric") /\ calls[s].pc # "secret"
        \/ Proceed(s, "config") /\ calls[s].pc # "secret"
        \/ Reply(s, ResponseToWire(Pass))
    BY <1>6 DEF HostAccepts, Asking, Asked, HostCalls
  <2> QED BY <1>1, <1>2, <1>3, <1>4, <2>1, PassReply, ReplyTyped, ProceedTyped
<1>7. CASE HostSendsConfig(s)
  <2>1. PICK json \in Json : calls' = [calls EXCEPT ![s].pc = "compare", ![s].seen = json]
    BY <1>7 DEF HostSendsConfig, HostConfigResponse
  <2> DEFINE r == [calls[s] EXCEPT !.pc = "compare", !.seen = json]
  <2>2. calls' = [calls EXCEPT ![s] = r]
    BY <2>1
  <2>3. "compare" \in Pcs
    BY DEF Pcs
  <2>4. r \in Call /\ r.pc = "compare" /\ r.in = calls[s].in /\ r.seen = json
    <3>1. json \in Json /\ calls[s] \in Call
      BY <1>1, <2>1
    <3> QED BY <2>3, <3>1 DEF Call
  <2>5. Typed(r)
    BY <1>1, <1>2, <2>4 DEF Typed
  <2> HIDE DEF r
  <2> QED BY <1>1, <2>2, <2>4, <2>5, SlotTyped DEF Types
<1>8. CASE Compare(s)
  <2>1. \/ Reply(s, Error) \/ Proceed(s, "publish") \/ Proceed(s, "secret")
    BY <1>8 DEF Compare
  <2>2. calls[s].seen \in Json
    BY <1>1, <1>8 DEF Compare, Typed
  <2>3. \A pc \in {"publish", "secret"} : Typed([calls[s] EXCEPT !.pc = pc])
    BY <1>1, <1>2, <1>4, <2>2, Moved DEF Typed
  <2> QED BY <1>1, <1>2, <1>4, <2>1, <2>3, ErrorReply, ReplyTyped, ProceedTyped
<1>9. CASE HostSendsSecret(s)
  <2>1. Reply(s, ResponseToWire(Decided("deny", 1))) \/ Proceed(s, "publish")
    BY <1>9 DEF HostSendsSecret, Deny
  <2>2. Typed([calls[s] EXCEPT !.pc = "publish"])
    BY <1>1, <1>2, <1>4, Moved DEF Typed
  <2> QED BY <1>1, <1>2, <1>4, <2>1, <2>2, DenyReply, ReplyTyped, ProceedTyped
<1> QED BY <1>5, <1>6, <1>7, <1>8, <1>9

LEMMA NewTyped ==
  ASSUME NEW kind \in Kinds, NEW info \in Declarations, NEW unreadable \in BOOLEAN
  PROVE  NewPlugin(kind, info, unreadable) \in PluginState
BY ExtensionAssumption DEF NewPlugin, PluginState, None

LEMMA NewHostTyped == NewHost \in HostState /\ NewClients \in [Client -> ClientState]
BY DEF NewHost, HostState, NewClients, ClientState

LEMMA InitTyped == Init => Types
BY NewTyped, NewHostTyped, FreeTyped DEF Init, Types

LEMMA CrashTyped ==
  ASSUME Types, Crash
  PROVE  Types'
<1>1. plugin' \in PluginState
  BY NewTyped DEF Types, Crash, PluginState
<1> QED BY <1>1, NewHostTyped, FreeTyped DEF Crash, Types

LEMMA StepTyped == Types /\ [Next]_vars => Types'
<1> SUFFICES ASSUME Types, [Next]_vars PROVE Types'
  OBVIOUS
<1>1. ASSUME NEW s \in Slot, PluginStep(s) PROVE Types'
  BY <1>1, ServiceTyped, ApplyTyped, AttachTyped, PreprocessTyped, HostCallTyped DEF PluginStep
<1>2. ASSUME NEW s \in Slot, HostStep(s) PROVE Types'
  BY <1>2, HostStepTyped
<1>3. ASSUME NEW s \in Slot, Return(s) PROVE Types'
  BY <1>3, ReturnTyped
<1>4. CASE Crash
  BY <1>4, CrashTyped
<1>5. CASE UNCHANGED vars
  BY <1>5 DEF vars, Types, Typed
<1> QED BY <1>1, <1>2, <1>3, <1>4, <1>5 DEF Next

LEMMA TypesHold == Spec => []Types
<1> QED BY InitTyped, StepTyped, PTL DEF Spec

\* What the host-aware sample asks of the host is one of the host's messages.
LEMMA AsksTyped ==
  ASSUME Types, NEW s \in Slot, calls[s].pc \in HostCalls
  PROVE  Asked(s) \in HostRequests
<1>1. Typed(calls[s])
  BY DEF Types
<1>2. CASE calls[s].pc = "log"
  BY <1>2 DEF Asked, HostRequests, HostLogRequest
<1>3. CASE calls[s].pc = "metric"
  BY <1>3 DEF Asked, HostRequests, HostMetricRequest
<1>4. CASE calls[s].pc = "config"
  BY <1>4 DEF Asked, HostRequests, HostCapabilityRequest
<1>5. CASE calls[s].pc = "secret"
  <2>1. Setting[calls[s].seen].alias \in Nat
    BY <1>1, <1>5, ExtensionTypes DEF Typed
  <2> QED BY <1>5, <2>1 DEF Asked, HostRequests, HostSecretRequest
<1>6. CASE calls[s].pc = "publish"
  BY <1>6 DEF Asked, HostRequests, HostEventRequest
<1> QED BY <1>2, <1>3, <1>4, <1>5, <1>6 DEF HostCalls

\* Every variable has its type and every message, in both directions, is one of
\* the services' (wire/extension_grpc.pb.go); a slot without a call is empty.
THEOREM CallsTyped == Spec => []TypeOK
<1>1. Types => TypeOK
  <2> SUFFICES ASSUME Types PROVE TypeOK
    OBVIOUS
  <2>1. ASSUME NEW s \in Slot
        PROVE  /\ Busy(s) => calls[s].in # NoMessage
               /\ ~Busy(s) => calls[s] = Free
               /\ calls[s].pc = "reply" => calls[s].waiting /\ calls[s].out # NoReply
               /\ calls[s].pc \in HostCalls => Asked(s) \in HostRequests
    <3>1. Typed(calls[s])
      BY DEF Types
    <3>2. NoMessage.rpc = "none"
      BY DEF NoMessage
    <3> QED BY <3>1, <3>2, MessageTypes, AsksTyped DEF Typed, Busy
  <2> QED BY <2>1 DEF Types, TypeOK
<1> QED BY <1>1, TypesHold, PTL

----------------------------------------------------------------------------
(* Decisions.                                                              *)

Shared(r) == \E json \in r.mine : Setting[json] = Setting[r.seen]

Enforced(r) ==
  \E json \in r.mine :
    ResponseFromWire(r.out) = Decide(Setting[json], RequestFromWire(r.in))

Replying(r) == r.pc = "reply" /\ r.in.rpc = "preprocess" /\ r.out # Error

Decides(kind, config, r) ==
  /\ r.in.rpc = "preprocess" => config \in r.mine
  /\ r.pc \in Working => Present(r.in.context.headers) \cap SensitiveName = {}
  /\ r.pc = "delay" => kind = "policy" /\ r.seen \in r.mine
  /\ r.pc \in Working \ {"delay"} => kind = "host-aware"
  /\ r.pc \in {"secret", "publish"} => Shared(r)
  /\ Replying(r) /\ kind = "host-aware" /\ r.out.decision = "pass" => Shared(r)
  /\ Replying(r) /\ kind = "policy" => Enforced(r)

Decisions == \A s \in Slot : Decides(plugin.kind, plugin.config, calls[s])

LEMMA FreeDecides ==
  ASSUME NEW kind, NEW config
  PROVE  Decides(kind, config, Free)
BY FreeTyped DEF Decides, Replying, Working

\* A call that neither is being preprocessed nor was.
LEMMA OtherDecides ==
  ASSUME NEW kind, NEW config, NEW r, r.in.rpc # "preprocess", r.pc \notin Working
  PROVE  Decides(kind, config, r)
BY DEF Decides, Replying, Working

LEMMA SlotDecides ==
  ASSUME Types, Decisions, NEW s \in Slot, NEW r,
         Decides(plugin.kind, plugin.config, r), calls' = [calls EXCEPT ![s] = r],
         plugin'.kind = plugin.kind, plugin'.config = plugin.config
  PROVE  Decisions'
BY DEF Types, Decisions

\* A handler goes on: what it knows of its call stays true.
LEMMA ProceedDecides ==
  ASSUME Types, Decisions, NEW s \in Slot, NEW pc \in Working, Proceed(s, pc),
         calls[s].pc \in Working \/ pc = "log",
         calls[s].pc \notin Working => Present(calls[s].in.context.headers) \cap SensitiveName = {},
         calls[s].in.rpc = "preprocess",
         pc # "delay", plugin.kind = "host-aware",
         pc \in {"secret", "publish"} => Shared(calls[s]),
         UNCHANGED plugin
  PROVE  Decisions'
<1> DEFINE r == [calls[s] EXCEPT !.pc = pc]
<1>1. calls[s] \in Call /\ Decides(plugin.kind, plugin.config, calls[s]) /\ pc \in Pcs
  BY DEF Types, Decisions, Working, Pcs
<1>2. r.pc = pc /\ r.in = calls[s].in /\ r.seen = calls[s].seen /\ r.mine = calls[s].mine
  BY <1>1, Moved
<1>3. calls' = [calls EXCEPT ![s] = r]
  BY DEF Proceed
<1> HIDE DEF r
<1>4. pc # "reply"
  BY DEF Working
<1>5. Decides(plugin.kind, plugin.config, r)
  BY <1>1, <1>2, <1>4 DEF Decides, Shared, Replying
<1> QED BY <1>3, <1>5, SlotDecides

\* A request is answered with an error, or with what its kind of plugin owes it.
LEMMA ReplyDecides ==
  ASSUME Types, Decisions, NEW s \in Slot, NEW out \in Replies, Reply(s, out),
         calls[s].in.rpc = "preprocess" /\ out # Error =>
           /\ plugin.kind = "host-aware" /\ out.decision = "pass" => Shared(calls[s])
           /\ plugin.kind = "policy" =>
                \E json \in calls[s].mine :
                  ResponseFromWire(out) = Decide(Setting[json], RequestFromWire(calls[s].in)),
         plugin'.kind = plugin.kind, plugin'.config = plugin.config
  PROVE  Decisions'
<1> DEFINE r == Replied(calls[s], out)
<1>1. calls[s] \in Call /\ Decides(plugin.kind, plugin.config, calls[s])
  BY DEF Types, Decisions
<1>2. calls' = [calls EXCEPT ![s] = r]
  BY DEF Reply
<1>3. \/ r = Free
      \/ /\ r.pc = "reply" /\ r.in = calls[s].in /\ r.out = out
         /\ r.seen = calls[s].seen /\ r.mine = calls[s].mine
  BY <1>1, RepliedCall
<1> HIDE DEF r
<1>4. Decides(plugin.kind, plugin.config, r)
  <2>1. CASE r = Free
    BY <2>1, FreeDecides
  <2>2. CASE r # Free
    BY <1>1, <1>3, <2>2 DEF Decides, Shared, Enforced, Replying, Working
  <2> QED BY <2>1, <2>2
<1> QED BY <1>2, <1>4, SlotDecides

LEMMA HostStepDecides ==
  ASSUME Types, Decisions, NEW s \in Slot, HostStep(s)
  PROVE  Decisions'
<1>1. ASSUME NEW by, NEW m, Invoke(s, by, m), UNCHANGED plugin PROVE Decisions'
  <2> DEFINE r == [Free EXCEPT !.pc = "sent", !.by = by, !.in = m, !.waiting = TRUE,
                     !.alone = m.rpc = "apply" /\ ~AbandonedApply,
                     !.mine = IF m.rpc = "preprocess" THEN {plugin.config} ELSE {}]
  <2>1. calls' = [calls EXCEPT ![s] = r] /\ plugin'.kind = plugin.kind
        /\ plugin'.config = plugin.config
    BY <1>1 DEF Invoke
  <2>2. r.pc = "sent" /\ r.in = m /\ (m.rpc = "preprocess" => plugin.config \in r.mine)
    BY DEF Free
  <2> HIDE DEF r
  <2>3. Decides(plugin.kind, plugin.config, r)
    BY <2>2 DEF Decides, Working, Replying
  <2> QED BY <2>1, <2>3, SlotDecides
<1>2. CASE GiveUp(s)
  <2> DEFINE r == IF calls[s].pc = "reply" THEN Free ELSE [calls[s] EXCEPT !.waiting = FALSE]
  <2>1. calls' = [calls EXCEPT ![s] = r] /\ plugin' = plugin
    BY <1>2 DEF GiveUp
  <2>2. calls[s] \in Call /\ Decides(plugin.kind, plugin.config, calls[s])
    BY DEF Types, Decisions
  <2>3. CASE calls[s].pc = "reply"
    BY <2>1, <2>3, FreeDecides, SlotDecides
  <2>4. CASE calls[s].pc # "reply"
    <3>1. /\ r.pc = calls[s].pc /\ r.in = calls[s].in /\ r.out = calls[s].out
          /\ r.seen = calls[s].seen /\ r.mine = calls[s].mine
      BY <2>2, <2>4 DEF Call
    <3> HIDE DEF r
    <3>2. Decides(plugin.kind, plugin.config, r)
      BY <2>2, <3>1 DEF Decides, Shared, Enforced, Replying
    <3> QED BY <2>1, <3>2, SlotDecides
  <2> QED BY <2>3, <2>4
<1> QED BY <1>1, <1>2 DEF HostStep, CallService, CallPreprocess, CallUnchecked, CallAttachHost

LEMMA ReturnDecides ==
  ASSUME Types, Decisions, NEW s \in Slot, Return(s)
  PROVE  Decisions'
BY FreeDecides, SlotDecides DEF Return

\* Calls of the other services decide nothing.
LEMMA ServiceDecides ==
  ASSUME Types, Decisions, NEW s \in Slot,
         \/ Serve(s) \/ RefuseConfig(s) \/ RefuseHost(s)
         \/ DialHost(s) \/ SetHost(s) \/ RejectHost(s)
  PROVE  Decisions'
<1>1. Typed(calls[s]) /\ calls[s] \in Call
  BY DEF Types
<1>2. calls[s].in.rpc # "preprocess" /\ plugin'.kind = plugin.kind /\ plugin'.config = plugin.config
  BY <1>1 DEF Types, PluginState, Typed, AttachHostRequest, Serve, RefuseConfig, RefuseHost,
     DialHost, SetHost, RejectHost, Received
<1>3. CASE DialHost(s)
  <2> DEFINE r == [calls[s] EXCEPT !.pc = "set_host"]
  <2>1. calls' = [calls EXCEPT ![s] = r]
    BY <1>3 DEF DialHost, Proceed
  <2>2. r.pc = "set_host" /\ r.in = calls[s].in
    BY <1>1 DEF Call
  <2> HIDE DEF r
  <2>3. Decides(plugin.kind, plugin.config, r)
    BY <1>2, <2>2, OtherDecides DEF Working
  <2> QED BY <1>2, <2>1, <2>3, SlotDecides
<1>4. ASSUME NEW out \in Replies, Reply(s, out) PROVE Decisions'
  BY <1>2, <1>4, ReplyDecides
<1>5. CASE Serve(s)
  <2>1. Answer(calls[s].in) \in Replies
    BY <1>1, <1>5, AnswerReply DEF Serve, Typed
  <2> QED BY <1>4, <1>5, <2>1 DEF Serve
<1>6. CASE RefuseConfig(s)
  BY <1>4, <1>6, AppliedReply DEF RefuseConfig
<1>7. CASE RefuseHost(s) \/ RejectHost(s)
  BY <1>4, <1>7, ErrorReply DEF RefuseHost, RejectHost
<1>8. CASE SetHost(s)
  BY <1>4, <1>8, AppliedReply DEF SetHost
<1> QED BY <1>3, <1>5, <1>6, <1>7, <1>8

\* A new configuration is one of those of every call that is being preprocessed.
LEMMA ApplyDecides ==
  ASSUME Types, Decisions, NEW s \in Slot, ApplyConfig(s)
  PROVE  Decisions'
<1> DEFINE json == calls[s].in.config_json
           ok   == ~plugin.unreadable
           out  == [applied |-> ok, message |-> IF ok THEN 0 ELSE 1]
<1> HIDE DEF json, ok, out
<1>1. /\ json \in Json /\ calls[s].in.rpc = "apply" /\ out \in Replies
      /\ plugin'.config = json /\ plugin'.kind = plugin.kind
      /\ calls'[s] = Replied(calls[s], out)
      /\ \A t \in Slot \ {s} :
           calls'[t] = IF calls[t].in.rpc = "preprocess" THEN Grown(calls[t], json)
                       ELSE calls[t]
  BY Applying DEF json, ok, out
<1>2. Decides(plugin.kind, json, calls'[s])
  <2>1. calls[s] \in Call
    BY DEF Types
  <2> QED BY <1>1, <2>1, RepliedCall, FreeDecides, OtherDecides DEF Working
<1>3. ASSUME NEW t \in Slot \ {s} PROVE Decides(plugin.kind, json, calls'[t])
  <2>1. calls[t] \in Call /\ Decides(plugin.kind, plugin.config, calls[t]) /\ Typed(calls[t])
    BY DEF Types, Decisions
  <2>2. CASE calls[t].in.rpc = "preprocess"
    <3> DEFINE q == calls'[t]
    <3>1. /\ q.pc = calls[t].pc /\ q.in = calls[t].in /\ q.out = calls[t].out
          /\ q.seen = calls[t].seen /\ q.mine = calls[t].mine \cup {json}
      BY <1>1, <2>1, <2>2, GrownCall
    <3> HIDE DEF q
    <3>2. Shared(calls[t]) => Shared(q)
      BY <3>1 DEF Shared
    <3>3. Enforced(calls[t]) => Enforced(q)
      BY <3>1 DEF Enforced
    <3>4. Decides(plugin.kind, json, q)
      BY <2>1, <3>1, <3>2, <3>3 DEF Decides, Replying
    <3> QED BY <3>4 DEF q
  <2>3. CASE calls[t].in.rpc # "preprocess"
    BY <1>1, <2>1, <2>3 DEF Decides, Replying, Shared, Enforced
  <2> QED BY <2>2, <2>3
<1> QED BY <1>1, <1>2, <1>3 DEF Decisions

\* A decision survives the wire.
LEMMA WireRoundTrip ==
  ASSUME NEW d \in Responses
  PROVE  ResponseFromWire(ResponseToWire(d)) = d
<1> DEFINE wire(p) == [method |-> p.method, path |-> p.path, headers |-> p.headers,
                       body_json |-> p.body, body_changed |-> p.body_changed]
           back(q) == [method |-> q.method, path |-> q.path, headers |-> q.headers,
                       body |-> q.body_json, body_changed |-> q.body_changed]
           sent == {wire(p) : p \in d.patch}
<1>1. ASSUME NEW p \in Patches PROVE back(wire(p)) = p
  BY DEF Patches
<1>2. {back(q) : q \in sent} = d.patch
  <2>1. d.patch \subseteq Patches
    BY DEF Responses
  <2> HIDE DEF wire, back
  <2> QED BY <1>1, <2>1
<1>3. ResponseFromWire(ResponseToWire(d)) =
        [decision |-> d.decision, code |-> d.code, reason |-> d.reason,
         patch |-> {back(q) : q \in sent}]
  BY DEF ResponseFromWire, ResponseToWire
<1> HIDE DEF back, sent
<1> QED BY <1>2, <1>3 DEF Responses

LEMMA Sanitised ==
  ASSUME NEW s \in Slot, Acceptable(s)
  PROVE  Present(calls[s].in.context.headers) \cap SensitiveName = {}
<1>1. Request(s).context.headers = calls[s].in.context.headers
  BY DEF Request, RequestFromWire
<1> QED BY <1>1 DEF Acceptable, ValidRequest, ValidContext, ValidHeaders

LEMMA PreprocessDecides ==
  ASSUME Types, Decisions, NEW s \in Slot,
         RefusePreprocess(s) \/ Preprocess(s) \/ DecidePolicy(s) \/ DelayExpires(s)
  PROVE  Decisions'
<1>1. /\ calls[s] \in Call /\ Typed(calls[s]) /\ plugin \in PluginState
      /\ Decides(plugin.kind, plugin.config, calls[s])
      /\ calls[s].in \in WireRequest /\ calls[s].in.rpc = "preprocess"
      /\ plugin.config \in calls[s].mine
      /\ UNCHANGED plugin
  BY MessageTypes DEF Types, Decisions, Decides, Typed, RefusePreprocess, Preprocess,
     DecidePolicy, DelayExpires, Received, Working, WireRequest
<1>2. CASE RefusePreprocess(s) \/ DelayExpires(s)
  BY <1>1, <1>2, ErrorReply, ReplyDecides DEF RefusePreprocess, DelayExpires
<1>3. CASE DecidePolicy(s)
  <2>1. calls[s].seen \in Json /\ calls[s].seen \in calls[s].mine /\ plugin.kind = "policy"
    BY <1>1, <1>3 DEF Typed, Decides, DecidePolicy
  <2>2. Decision(s) \in Responses
    BY <1>1, <2>1, DecideTyped DEF Decision, Request
  <2>3. Wired(s) # Error => ResponseFromWire(Wired(s)) = Decision(s)
    BY <1>1, <2>1, <2>2, WiredReply, WireRoundTrip
  <2>4. Wired(s) # Error =>
          \E json \in calls[s].mine :
            ResponseFromWire(Wired(s)) = Decide(Setting[json], RequestFromWire(calls[s].in))
    BY <2>1, <2>3 DEF Decision, Request
  <2>5. Wired(s) \in Replies /\ Reply(s, Wired(s))
    BY <1>1, <1>3, <2>1, WiredReply DEF DecidePolicy
  <2> QED BY <1>1, <2>1, <2>4, <2>5, ReplyDecides
<1>4. CASE Preprocess(s)
  <2>1. Present(calls[s].in.context.headers) \cap SensitiveName = {}
    BY <1>4, Sanitised DEF Preprocess
  <2>2. CASE plugin.kind = "policy"
    <3> DEFINE r == [calls[s] EXCEPT !.pc = "delay", !.seen = plugin.config]
    <3>1. calls' = [calls EXCEPT ![s] = r]
      BY <1>4, <2>2 DEF Preprocess
    <3>2. plugin.config \in Json /\ "delay" \in Pcs
      BY <1>1 DEF PluginState, Pcs
    <3>3. /\ r.pc = "delay" /\ r.in = calls[s].in /\ r.seen = plugin.config
          /\ r.mine = calls[s].mine
      BY <1>1, <3>2 DEF Call
    <3> HIDE DEF r
    <3>4. Decides(plugin.kind, plugin.config, r)
      BY <1>1, <2>1, <2>2, <3>3 DEF Decides, Replying
    <3> QED BY <1>1, <3>1, <3>4, SlotDecides
  <2>3. CASE plugin.kind = "host-aware"
    <3>1. Reply(s, Error) \/ Proceed(s, "log")
      BY <1>4, <2>3 DEF Preprocess
    <3>2. calls[s].pc \notin Working /\ "log" \in Working
      BY <1>4 DEF Preprocess, Received, Working
    <3> QED BY <1>1, <2>1, <2>3, <3>1, <3>2, ErrorReply, ReplyDecides, ProceedDecides
  <2>4. CASE plugin.kind = "state-reuse"
    <3>1. Reply(s, ResponseToWire(Pass))
      BY <1>4, <2>4 DEF Preprocess
    <3> QED BY <1>1, <2>4, <3>1, PassReply, ReplyDecides
  <2> QED BY <1>1, <2>2, <2>3, <2>4, ExtensionAssumption DEF PluginState
<1> QED BY <1>2, <1>3, <1>4

LEMMA HostCallDecides ==
  ASSUME Types, Decisions, NEW s \in Slot,
         \/ HostFails(s) \/ HostAccepts(s) \/ HostSendsConfig(s)
         \/ Compare(s) \/ HostSendsSecret(s)
  PROVE  Decisions'
<1>1. /\ calls[s] \in Call /\ Typed(calls[s])
      /\ Decides(plugin.kind, plugin.config, calls[s])
      /\ calls[s].pc \in Working \ {"delay"} /\ UNCHANGED plugin
  BY DEF Types, Decisions, HostFails, HostAccepts, HostSendsConfig, Compare, HostSendsSecret,
     Asking, HostCalls, Working
<1>2. /\ calls[s].in.rpc = "preprocess" /\ plugin.kind = "host-aware"
      /\ plugin.config \in calls[s].mine
      /\ {"metric", "config", "secret", "publish"} \subseteq Working
  BY <1>1 DEF Typed, Decides, WireRequest, Working
<1>3. CASE HostFails(s)
  BY <1>1, <1>2, <1>3, ErrorReply, ReplyDecides DEF HostFails
<1>4. CASE HostAccepts(s)
  <2>1. \/ Proceed(s, "metric") \/ Proceed(s, "config")
        \/ calls[s].pc = "publish" /\ Reply(s, ResponseToWire(Pass))
    BY <1>4 DEF HostAccepts, Asking, Asked, HostCalls
  <2>2. calls[s].pc = "publish" => Shared(calls[s])
    BY <1>1 DEF Decides
  <2> QED BY <1>1, <1>2, <2>1, <2>2, PassReply, ReplyDecides, ProceedDecides
<1>5. CASE HostSendsConfig(s)
  <2>1. PICK json \in Json : calls' = [calls EXCEPT ![s].pc = "compare", ![s].seen = json]
    BY <1>5 DEF HostSendsConfig, HostConfigResponse
  <2> DEFINE r == [calls[s] EXCEPT !.pc = "compare", !.seen = json]
  <2>2. calls' = [calls EXCEPT ![s] = r]
    BY <2>1
  <2>3. r.pc = "compare" /\ r.in = calls[s].in /\ r.mine = calls[s].mine
    BY <1>1 DEF Call
  <2> HIDE DEF r
  <2>4. Decides(plugin.kind, plugin.config, r)
    BY <1>1, <1>2, <2>3 DEF Decides, Replying
  <2> QED BY <1>1, <2>2, <2>4, SlotDecides
<1>6. CASE Compare(s)
  <2>1. \/ Reply(s, Error)
        \/ /\ Proceed(s, "publish") \/ Proceed(s, "secret")
           /\ SameConfig(calls[s].seen)
    BY <1>6 DEF Compare
  <2>2. SameConfig(calls[s].seen) => Shared(calls[s])
    BY <1>2 DEF SameConfig, Shared
  <2> QED BY <1>1, <1>2, <2>1, <2>2, ErrorReply, ReplyDecides, ProceedDecides
<1>7. CASE HostSendsSecret(s)
  <2>1. calls[s].pc = "secret"
    BY <1>7 DEF HostSendsSecret, Asking, Asked, HostCalls
  <2>2. Shared(calls[s])
    BY <1>1, <2>1 DEF Decides
  <2>3. Reply(s, ResponseToWire(Decided("deny", 1))) \/ Proceed(s, "publish")
    BY <1>7 DEF HostSendsSecret, Deny
  <2> QED BY <1>1, <1>2, <2>2, <2>3, DenyReply, ReplyDecides, ProceedDecides
<1> QED BY <1>3, <1>4, <1>5, <1>6, <1>7

LEMMA InitDecides == Init => Decisions
BY FreeDecides DEF Init, Decisions

LEMMA StepDecides == Types /\ Decisions /\ [Next]_vars => Decisions'
<1> SUFFICES ASSUME Types, Decisions, [Next]_vars PROVE Decisions'
  OBVIOUS
<1>1. ASSUME NEW s \in Slot, PluginStep(s) PROVE Decisions'
  BY <1>1, ServiceDecides, ApplyDecides, PreprocessDecides, HostCallDecides DEF PluginStep
<1>2. ASSUME NEW s \in Slot, HostStep(s) PROVE Decisions'
  BY <1>2, HostStepDecides
<1>3. ASSUME NEW s \in Slot, Return(s) PROVE Decisions'
  BY <1>3, ReturnDecides
<1>4. CASE Crash
  BY <1>4, FreeDecides DEF Crash, Decisions
<1>5. CASE UNCHANGED vars
  BY <1>5 DEF vars, Decisions
<1> QED BY <1>1, <1>2, <1>3, <1>4, <1>5 DEF Next

LEMMA DecisionsHold == Spec => []Decisions
<1> QED BY InitDecides, StepDecides, TypesHold, PTL DEF Spec

\* handlerServer.Preprocess checks every request again (v2/adapter.go:209), so
\* that no handler works on a sensitive header, whoever called and however.
THEOREM OnlySanitisedWork == Spec => []OnlySanitisedRuns
<1>1. Decisions => OnlySanitisedRuns
  BY DEF Decisions, Decides, OnlySanitisedRuns, Working
<1> QED BY <1>1, DecisionsHold, PTL

\* policy.Preprocess decides by one configuration that was in force during the
\* call, whatever ApplyConfig stores meanwhile, and the decision arrives as it
\* was made (responseToWire, responseFromWire).
THEOREM OnePolicyDecides == Spec => []PolicyEnforced
<1>1. Types /\ Decisions => PolicyEnforced
  <2> SUFFICES ASSUME Types, Decisions, NEW s \in Slot,
                      plugin.kind = "policy", calls[s].pc = "reply",
                      calls[s].in.rpc = "preprocess", calls[s].out # Error
               PROVE  \E json \in calls[s].mine :
                        ResponseFromWire(calls[s].out) = Decide(Setting[json], Request(s))
    BY DEF PolicyEnforced
  <2>1. Decides(plugin.kind, plugin.config, calls[s])
    BY DEF Decisions
  <2> QED BY <2>1 DEF Decides, Enforced, Replying, Request
<1> QED BY <1>1, TypesHold, DecisionsHold, PTL

\* The host-aware sample passes a request only after the host's configuration
\* was found to be its own at some moment of the call (sample.Preprocess).
THEOREM PassedAgreed == Spec => []PassedUnderHostsConfig
<1>1. Decisions => PassedUnderHostsConfig
  BY DEF Decisions, Decides, PassedUnderHostsConfig, Answered, Replying, Shared
<1> QED BY <1>1, DecisionsHold, PTL

----------------------------------------------------------------------------
(* Configurations.                                                         *)

Applies(r)   == r.pc # "free" /\ r.in.rpc = "apply"
Awaited(r)   == Applies(r) /\ r.waiting
Abandoned(r) == Applies(r) /\ ~r.waiting
Done(r)      == r.pc = "reply" /\ Applied(r.out)

InForce ==
  host.config # NoJson /\ ~host.late /\ ~plugin.unreadable => plugin.config = host.config

\* One ApplyConfig is awaited at a time.  One that was given up makes the host
\* late, until an ApplyConfig has run alone; one that began beside it cannot
\* tell which of the two came last.  The acknowledged configuration is in force
\* unless the awaited call has already replaced it.
Configurations ==
  /\ \A s, t \in Slot : Awaited(calls[s]) /\ Awaited(calls[t]) => s = t
  /\ \A s \in Slot : Abandoned(calls[s]) => host.late
  /\ \A s \in Slot : Awaited(calls[s]) /\ calls[s].alone =>
       /\ \A t \in Slot : ~Abandoned(calls[t])
       /\ Done(calls[s]) => plugin.config = calls[s].in.config_json
  /\ \A s \in Slot : Awaited(calls[s]) /\ ~calls[s].alone => host.late
  /\ (\A s \in Slot : Awaited(calls[s]) => ~Done(calls[s])) => InForce

LEMMA FreeApplies == ~Applies(Free)
BY FreeTyped DEF Applies

\* Calls of other services change nothing.
LEMMA OtherConfigures ==
  ASSUME Types, Configurations, NEW s \in Slot, NEW r,
         ~Applies(calls[s]), ~Applies(r), calls' = [calls EXCEPT ![s] = r],
         plugin'.config = plugin.config, plugin'.unreadable = plugin.unreadable,
         host'.config = host.config, host'.late = host.late
  PROVE  Configurations'
<1>1. \A t \in Slot : calls'[t] = calls[t] \/ (~Applies(calls[t]) /\ ~Applies(calls'[t]))
  BY DEF Types
<1>2. \A t \in Slot : Applies(calls[t]) \/ Applies(calls'[t]) => calls'[t] = calls[t]
  BY <1>1
<1>3. \A t \in Slot : Awaited(calls'[t]) \/ Abandoned(calls'[t]) \/ Awaited(calls[t])
                        \/ Abandoned(calls[t]) => calls'[t] = calls[t]
  BY <1>2 DEF Awaited, Abandoned
<1>4. InForce => InForce'
  BY DEF InForce
<1> QED BY <1>3, <1>4 DEF Configurations

LEMMA ReplyConfigures ==
  ASSUME Types, Configurations, NEW s \in Slot, NEW out \in Replies, Reply(s, out),
         calls[s].in.rpc # "apply",
         plugin'.config = plugin.config, plugin'.unreadable = plugin.unreadable,
         UNCHANGED host
  PROVE  Configurations'
<1> DEFINE r == Replied(calls[s], out)
<1>1. calls[s] \in Call
  BY DEF Types
<1>2. calls' = [calls EXCEPT ![s] = r]
  BY DEF Reply
<1>3. r = Free \/ r.in = calls[s].in
  BY <1>1, RepliedCall
<1> HIDE DEF r
<1>4. ~Applies(r) /\ ~Applies(calls[s])
  BY <1>3, FreeApplies DEF Applies
<1> QED BY <1>2, <1>4, OtherConfigures

LEMMA InvokeConfigures ==
  ASSUME Types, Configurations, NEW s \in Slot, NEW by, NEW m, Invoke(s, by, m),
         m.rpc = "apply" => ~AwaitedApply, UNCHANGED <<plugin, host>>
  PROVE  Configurations'
<1> DEFINE r == [Free EXCEPT !.pc = "sent", !.by = by, !.in = m, !.waiting = TRUE,
                   !.alone = m.rpc = "apply" /\ ~AbandonedApply,
                   !.mine = IF m.rpc = "preprocess" THEN {plugin.config} ELSE {}]
<1>1. calls' = [calls EXCEPT ![s] = r] /\ calls[s].pc = "free"
  BY DEF Invoke, Busy
<1>2. r.pc = "sent" /\ r.in = m /\ r.waiting /\ (r.alone <=> m.rpc = "apply" /\ ~AbandonedApply)
  BY DEF Free
<1> HIDE DEF r
<1>3. ~Applies(calls[s])
  BY <1>1 DEF Applies
<1>4. CASE m.rpc # "apply"
  <2>1. ~Applies(r)
    BY <1>2, <1>4 DEF Applies
  <2> QED BY <1>1, <1>3, <2>1, OtherConfigures
<1>5. CASE m.rpc = "apply"
  <2>1. \A t \in Slot : ~Awaited(calls[t])
    BY <1>5 DEF AwaitedApply, Awaited, Applies, Busy
  <2>2. r.alone <=> \A t \in Slot : ~Abandoned(calls[t])
    BY <1>2, <1>5 DEF AbandonedApply, Abandoned, Applies, Busy
  <2>3. \A t \in Slot \ {s} : calls'[t] = calls[t]
    BY <1>1 DEF Types
  <2>4. calls'[s] = r /\ Awaited(r) /\ ~Abandoned(r) /\ ~Done(r) /\ ~Abandoned(calls[s])
    BY <1>1, <1>2, <1>3, <1>5 DEF Types, Awaited, Abandoned, Applies, Done
  <2>5. InForce /\ InForce'
    BY <2>1 DEF Configurations, InForce
  <2> QED BY <2>1, <2>2, <2>3, <2>4, <2>5 DEF Configurations
<1> QED BY <1>4, <1>5

LEMMA GiveUpConfigures ==
  ASSUME Types, Configurations, NEW s \in Slot, GiveUp(s)
  PROVE  Configurations'
<1> DEFINE r == IF calls[s].pc = "reply" THEN Free ELSE [calls[s] EXCEPT !.waiting = FALSE]
<1>1. /\ calls' = [calls EXCEPT ![s] = r] /\ plugin' = plugin
      /\ calls[s].pc # "free" /\ calls[s].waiting /\ host \in HostState
      /\ host' = [host EXCEPT !.late = @ \/ calls[s].in.rpc = "apply"]
  BY DEF GiveUp, Busy, Types
<1>2. host'.config = host.config /\ (host'.late <=> host.late \/ calls[s].in.rpc = "apply")
  BY <1>1 DEF HostState
<1>3. ~Awaited(r) /\ (calls[s].in.rpc # "apply" => ~Applies(r))
  <2>1. calls[s] \in Call
    BY DEF Types
  <2> QED BY <2>1, FreeApplies DEF Awaited, Applies, Call
<1> HIDE DEF r
<1>4. CASE calls[s].in.rpc # "apply"
  <2>1. ~Applies(calls[s]) /\ host'.late = host.late
    BY <1>1, <1>2, <1>4 DEF Applies, HostState
  <2> QED BY <1>1, <1>2, <1>3, <1>4, <2>1, OtherConfigures
<1>5. CASE calls[s].in.rpc = "apply"
  <2>1. Awaited(calls[s])
    BY <1>1, <1>5 DEF Awaited, Applies
  <2>2. \A t \in Slot : ~Awaited(calls'[t])
    BY <1>1, <1>3, <2>1 DEF Types, Configurations
  <2>3. host'.late
    BY <1>2, <1>5
  <2> QED BY <2>2, <2>3 DEF Configurations, InForce
<1> QED BY <1>4, <1>5

\* The host learns that its configuration has been applied, or that it has not.
LEMMA ReturnConfigures ==
  ASSUME Types, Configurations, NEW s \in Slot, Return(s)
  PROVE  Configurations'
<1>1. /\ calls' = [calls EXCEPT ![s] = Free] /\ plugin' = plugin
      /\ calls[s].pc = "reply" /\ calls[s].waiting /\ host \in HostState
  BY DEF Return, Types, Typed
<1>2. \A t \in Slot \ {s} : calls'[t] = calls[t]
  BY <1>1 DEF Types
<1>3. calls'[s] = Free
  BY <1>1 DEF Types
<1>4. CASE calls[s].in.rpc # "apply"
  <2>1. host'.config = host.config /\ host'.late = host.late
    BY <1>1, <1>4 DEF Return, HostState
  <2>2. ~Applies(calls[s])
    BY <1>4 DEF Applies
  <2> QED BY <1>1, <2>1, <2>2, FreeApplies, OtherConfigures
<1>5. CASE calls[s].in.rpc = "apply"
  <2>1. Awaited(calls[s]) /\ ~Abandoned(calls[s]) /\ (Done(calls[s]) <=> Applied(calls[s].out))
    BY <1>1, <1>5 DEF Awaited, Abandoned, Applies, Done
  <2>2. \A t \in Slot : ~Awaited(calls'[t])
    BY <1>2, <1>3, <2>1, FreeApplies DEF Configurations, Awaited
  <2>3. \A t \in Slot : Abandoned(calls'[t]) => Abandoned(calls[t])
    BY <1>2, <1>3, FreeApplies DEF Abandoned
  <2>4. CASE Applied(calls[s].out)
    <3>1. host' = [host EXCEPT !.config = calls[s].in.config_json, !.late = @ /\ ~calls[s].alone]
      BY <1>5, <2>4 DEF Return
    <3>2. host'.config = calls[s].in.config_json /\ (host'.late <=> host.late /\ ~calls[s].alone)
      BY <1>1, <3>1 DEF HostState
    <3>3. CASE calls[s].alone
      <4>1. plugin.config = calls[s].in.config_json /\ \A t \in Slot : ~Abandoned(calls[t])
        BY <2>1, <2>4, <3>3 DEF Configurations
      <4>2. InForce'
        BY <1>1, <3>2, <4>1 DEF InForce
      <4> QED BY <2>2, <2>3, <4>1, <4>2 DEF Configurations
    <3>4. CASE ~calls[s].alone
      <4>1. host'.late
        BY <2>1, <3>2, <3>4 DEF Configurations
      <4> QED BY <2>2, <2>3, <4>1 DEF Configurations, InForce
    <3> QED BY <3>3, <3>4
  <2>5. CASE ~Applied(calls[s].out)
    <3>1. host' = host
      BY <1>5, <2>5 DEF Return
    <3>2. InForce
      BY <2>1, <2>5 DEF Configurations
    <3>3. InForce'
      BY <1>1, <3>1, <3>2 DEF InForce
    <3> QED BY <2>2, <2>3, <3>1, <3>3 DEF Configurations
  <2> QED BY <2>4, <2>5
<1> QED BY <1>4, <1>5

\* A text that does not parse: the call ends as if it had not been made.
LEMMA RefuseConfigures ==
  ASSUME Types, Configurations, NEW s \in Slot, RefuseConfig(s)
  PROVE  Configurations'
<1> DEFINE out == [applied |-> FALSE, message |-> 1]
           r == Replied(calls[s], out)
<1>1. /\ calls[s] \in Call /\ calls[s].pc = "sent" /\ calls[s].in.rpc = "apply"
      /\ calls' = [calls EXCEPT ![s] = r] /\ UNCHANGED <<plugin, host>>
  BY DEF Types, RefuseConfig, Received, Reply
<1>2. out \in Replies /\ ~Applied(out)
  BY AppliedReply DEF Applied
<1> HIDE DEF out
<1>3. \/ ~calls[s].waiting /\ r = Free
      \/ calls[s].waiting /\ r.pc = "reply" /\ r.in = calls[s].in /\ r.out = out /\ r.waiting
         /\ r.alone = calls[s].alone
  BY <1>1, <1>2, RepliedCall
<1>4. (Awaited(r) <=> Awaited(calls[s])) /\ ~Abandoned(r) /\ ~Done(calls[s])
  BY <1>1, <1>3, FreeApplies DEF Awaited, Abandoned, Applies, Done
<1>5. Awaited(r) => ~Done(r) /\ r.alone = calls[s].alone
  BY <1>2, <1>3, FreeApplies DEF Awaited, Done
<1> HIDE DEF r
<1>6. calls'[s] = r /\ \A t \in Slot \ {s} : calls'[t] = calls[t]
  BY <1>1 DEF Types
<1>7. InForce => InForce'
  BY <1>1 DEF InForce
<1> QED BY <1>1, <1>4, <1>5, <1>6, <1>7 DEF Configurations

\* The configuration is replaced, by the awaited call or by one that was given up.
LEMMA ApplyConfigures ==
  ASSUME Types, Configurations, NEW s \in Slot, ApplyConfig(s)
  PROVE  Configurations'
<1> DEFINE json == calls[s].in.config_json
           ok   == ~plugin.unreadable
           out  == [applied |-> ok, message |-> IF ok THEN 0 ELSE 1]
           r    == calls'[s]
<1>0. Applied(out) <=> ~plugin.unreadable
  <2>1. ok \in BOOLEAN /\ 0 \in Nat /\ 1 \in Nat
    BY DEF Types, PluginState
  <2>2. out # Error
    <3> HIDE DEF ok
    <3> QED BY <2>1, AppliedReply
  <2>3. out.applied <=> ok
    OBVIOUS
  <2> HIDE DEF out
  <2> QED BY <2>2, <2>3 DEF Applied
<1> HIDE DEF json, ok, out
<1>1. /\ calls[s].pc = "sent" /\ calls[s].in.rpc = "apply" /\ out \in Replies
      /\ plugin'.config = json /\ plugin'.unreadable = plugin.unreadable /\ UNCHANGED host
      /\ r = Replied(calls[s], out)
      /\ \A t \in Slot \ {s} :
           calls'[t] = IF calls[t].in.rpc = "preprocess" THEN Grown(calls[t], json)
                       ELSE calls[t]
  BY Applying DEF json, ok, out
<1>2. \/ ~calls[s].waiting /\ r = Free
      \/ calls[s].waiting /\ r.pc = "reply" /\ r.in = calls[s].in /\ r.out = out /\ r.waiting
         /\ r.alone = calls[s].alone
  <2>1. calls[s] \in Call
    BY DEF Types
  <2> QED BY <1>1, <2>1, RepliedCall
<1> HIDE DEF r
<1>3. ASSUME NEW t \in Slot \ {s}, Applies(calls[t]) \/ Applies(calls'[t])
      PROVE  calls'[t] = calls[t]
  <2>1. CASE calls[t].in.rpc # "preprocess"
    BY <1>1, <2>1
  <2>2. CASE calls[t].in.rpc = "preprocess"
    <3>1. calls[t] \in Call /\ json \in Json
      BY Applying DEF Types, json
    <3>2. calls'[t].in = calls[t].in
      BY <1>1, <2>2, <3>1, GrownCall
    <3> QED BY <1>3, <2>2, <3>2 DEF Applies
  <2> QED BY <2>1, <2>2
<1>4. \A t \in Slot \ {s} :
        /\ Awaited(calls'[t]) \/ Awaited(calls[t]) => calls'[t] = calls[t]
        /\ Abandoned(calls'[t]) \/ Abandoned(calls[t]) => calls'[t] = calls[t]
  BY <1>3 DEF Awaited, Abandoned
<1>5. (Awaited(r) <=> Awaited(calls[s])) /\ ~Abandoned(r)
  BY <1>1, <1>2, FreeApplies DEF Awaited, Abandoned, Applies
<1>6. (\A t \in Slot : Abandoned(calls'[t]) => Abandoned(calls[t]))
      /\ \A t \in Slot : Awaited(calls'[t]) <=> Awaited(calls[t])
  BY <1>4, <1>5 DEF r
<1>7. CASE calls[s].waiting
  <2>1. Awaited(calls[s]) /\ Awaited(r) /\ r.alone = calls[s].alone
        /\ r.in = calls[s].in /\ (Done(r) <=> Applied(out))
    BY <1>1, <1>2, <1>7 DEF Awaited, Applies, Done
  <2>2. \A t \in Slot : Awaited(calls'[t]) => t = s
    BY <1>6, <2>1 DEF Configurations
  <2>3. ~Done(r) => InForce'
    BY <1>0, <1>1, <2>1 DEF InForce
  <2>4. Done(r) => plugin'.config = r.in.config_json
    BY <1>1, <2>1 DEF json
  <2> QED BY <1>1, <1>6, <2>1, <2>2, <2>3, <2>4 DEF Configurations, r
<1>8. CASE ~calls[s].waiting
  <2>1. Abandoned(calls[s]) /\ host.late
    BY <1>1, <1>8 DEF Abandoned, Applies, Configurations
  <2>2. \A t \in Slot : Awaited(calls'[t]) => calls'[t] = calls[t] /\ ~calls[t].alone
    BY <1>4, <1>5, <1>6, <1>8, <2>1 DEF Configurations, r, Awaited
  <2> QED BY <1>1, <1>6, <2>1, <2>2 DEF Configurations, InForce
<1> QED BY <1>7, <1>8

\* The handlers of AttachHost and Preprocess move their own call on, or end it,
\* and leave alone what the other services work on.
LEMMA HandlerMoves ==
  ASSUME Types, NEW s \in Slot,
         \/ RefuseHost(s) \/ DialHost(s) \/ SetHost(s) \/ RejectHost(s)
         \/ RefusePreprocess(s) \/ Preprocess(s) \/ DecidePolicy(s) \/ DelayExpires(s)
         \/ HostFails(s) \/ HostAccepts(s) \/ HostSendsConfig(s) \/ Compare(s)
         \/ HostSendsSecret(s)
  PROVE  /\ calls[s].in.rpc \in {"attach", "preprocess"}
         /\ \E r : calls' = [calls EXCEPT ![s] = r] /\ (r = Free \/ r.in = calls[s].in)
         /\ plugin'.config = plugin.config /\ plugin'.unreadable = plugin.unreadable
         /\ plugin'.info = plugin.info /\ UNCHANGED host
<1> DEFINE Moves == \E r : calls' = [calls EXCEPT ![s] = r] /\ (r = Free \/ r.in = calls[s].in)
<1>1. Typed(calls[s]) /\ calls[s] \in Call /\ plugin \in PluginState
  BY DEF Types
<1>2. calls[s].in.rpc \in {"attach", "preprocess"}
  BY <1>1 DEF Typed, AttachHostRequest, WireRequest, RefuseHost, DialHost, SetHost,
     RejectHost, RefusePreprocess, Preprocess, DecidePolicy, DelayExpires, HostFails,
     HostAccepts, HostSendsConfig, Compare, HostSendsSecret, Asking, HostCalls, Received, Working
<1>3. /\ plugin'.config = plugin.config /\ plugin'.unreadable = plugin.unreadable
      /\ plugin'.info = plugin.info /\ UNCHANGED host
  BY <1>1 DEF PluginState, RefuseHost, DialHost, SetHost,
     RejectHost, RefusePreprocess, Preprocess, DecidePolicy, DelayExpires, HostFails,
     HostAccepts, HostSendsConfig, Compare, HostSendsSecret
<1>4. ASSUME NEW out \in Replies, Reply(s, out) PROVE Moves
  <2> DEFINE r == Replied(calls[s], out)
  <2>1. calls' = [calls EXCEPT ![s] = r]
    BY <1>4 DEF Reply
  <2>2. r = Free \/ r.in = calls[s].in
    BY <1>1, RepliedCall
  <2> HIDE DEF r
  <2> QED BY <2>1, <2>2
<1>5. ASSUME NEW pc \in Pcs, Proceed(s, pc) PROVE Moves
  <2> DEFINE r == [calls[s] EXCEPT !.pc = pc]
  <2>1. calls' = [calls EXCEPT ![s] = r]
    BY <1>5 DEF Proceed
  <2>2. r.in = calls[s].in
    BY <1>1 DEF Call
  <2> HIDE DEF r
  <2> QED BY <2>1, <2>2
<1>6. {"set_host", "delay", "log", "metric", "config", "compare", "secret", "publish"} \subseteq Pcs
  BY DEF Pcs
<1>7. ASSUME NEW json, NEW pc \in {"delay", "compare"},
             calls' = [calls EXCEPT ![s].pc = pc, ![s].seen = json]
      PROVE  Moves
  <2>1. calls' = [calls EXCEPT ![s] = [calls[s] EXCEPT !.pc = pc, !.seen = json]]
    BY <1>7
  <2>2. [calls[s] EXCEPT !.pc = pc, !.seen = json].in = calls[s].in
    BY <1>1 DEF Call
  <2> QED BY <2>1, <2>2
<1> HIDE DEF Moves
<1>8. ASSUME RefuseHost(s) \/ RejectHost(s) \/ RefusePreprocess(s) \/ DelayExpires(s)
               \/ HostFails(s)
      PROVE  Moves
  BY <1>4, <1>8, ErrorReply DEF RefuseHost, RejectHost, RefusePreprocess, DelayExpires, HostFails
<1>9. ASSUME DialHost(s) PROVE Moves
  BY <1>5, <1>6, <1>9 DEF DialHost
<1>10. ASSUME SetHost(s) PROVE Moves
  BY <1>4, <1>10, AppliedReply DEF SetHost
<1>11. ASSUME Preprocess(s) PROVE Moves
  <2>1. CASE plugin.kind = "policy"
    BY <1>7, <1>11, <2>1 DEF Preprocess
  <2>2. CASE plugin.kind = "host-aware"
    <3>1. Reply(s, Error) \/ Proceed(s, "log")
      BY <1>11, <2>2 DEF Preprocess
    <3> QED BY <1>4, <1>5, <1>6, <3>1, ErrorReply
  <2>3. CASE plugin.kind = "state-reuse"
    BY <1>4, <1>11, <2>3, PassReply DEF Preprocess
  <2> QED BY <1>1, <2>1, <2>2, <2>3, ExtensionAssumption DEF PluginState
<1>12. ASSUME DecidePolicy(s) PROVE Moves
  <2>1. Wired(s) \in Replies
    BY <1>1, <1>12, WiredReply DEF DecidePolicy, Typed, Working
  <2> QED BY <1>4, <1>12, <2>1 DEF DecidePolicy
<1>13. ASSUME HostAccepts(s) PROVE Moves
  <2>1. Proceed(s, "metric") \/ Proceed(s, "config") \/ Reply(s, ResponseToWire(Pass))
    BY <1>13 DEF HostAccepts
  <2> QED BY <1>4, <1>5, <1>6, <2>1, PassReply
<1>14. ASSUME HostSendsConfig(s) PROVE Moves
  BY <1>7, <1>14 DEF HostSendsConfig
<1>15. ASSUME Compare(s) PROVE Moves
  <2>1. Reply(s, Error) \/ Proceed(s, "publish") \/ Proceed(s, "secret")
    BY <1>15 DEF Compare
  <2> QED BY <1>4, <1>5, <1>6, <2>1, ErrorReply
<1>16. ASSUME HostSendsSecret(s) PROVE Moves
  <2>1. Reply(s, ResponseToWire(Decided("deny", 1))) \/ Proceed(s, "publish")
    BY <1>16 DEF HostSendsSecret, Deny
  <2> QED BY <1>4, <1>5, <1>6, <2>1, DenyReply
<1> QED BY <1>2, <1>3, <1>8, <1>9, <1>10, <1>11, <1>12, <1>13, <1>14, <1>15, <1>16 DEF Moves

LEMMA HandlerConfigures ==
  ASSUME Types, Configurations, NEW s \in Slot, PluginStep(s),
         ~RefuseConfig(s), ~ApplyConfig(s)
  PROVE  Configurations'
<1>1. CASE Serve(s)
  <2>1. calls[s].in \in Requests /\ calls[s].in.rpc # "apply" /\ UNCHANGED <<plugin, host>>
    BY <1>1 DEF Types, Typed, Serve
  <2>2. Answer(calls[s].in) \in Replies /\ Reply(s, Answer(calls[s].in))
    BY <1>1, <2>1, AnswerReply DEF Serve
  <2> QED BY <2>1, <2>2, ReplyConfigures
<1>2. CASE ~Serve(s)
  <2>1. /\ calls[s].in.rpc # "apply" /\ UNCHANGED host
        /\ plugin'.config = plugin.config /\ plugin'.unreadable = plugin.unreadable
    BY <1>2, HandlerMoves DEF PluginStep
  <2>2. PICK r : calls' = [calls EXCEPT ![s] = r] /\ (r = Free \/ r.in = calls[s].in)
    BY <1>2, HandlerMoves DEF PluginStep
  <2>3. ~Applies(r) /\ ~Applies(calls[s])
    BY <2>1, <2>2, FreeApplies DEF Applies
  <2> QED BY <2>1, <2>2, <2>3, OtherConfigures
<1> QED BY <1>1, <1>2

LEMMA HostStepConfigures ==
  ASSUME Types, Configurations, NEW s \in Slot, HostStep(s)
  PROVE  Configurations'
<1>1. plugin.kind \in Kinds
  BY DEF Types, PluginState
<1>2. CASE \E m \in Services[plugin.kind] : CallService(s, m)
  BY <1>2, InvokeConfigures DEF CallService
<1>3. CASE \E q \in Inputs[plugin.kind] : CallPreprocess(s, q)
  <2>1. PICK q : Invoke(s, Nobody, RequestToWire(q)) /\ UNCHANGED <<plugin, host>>
    BY <1>3 DEF CallPreprocess
  <2>2. RequestToWire(q).rpc # "apply"
    BY DEF RequestToWire
  <2> QED BY <2>1, <2>2, InvokeConfigures
<1>4. CASE \E m \in Unchecked[plugin.kind] : CallUnchecked(s, m)
  <2>1. PICK m \in Unchecked[plugin.kind] : Invoke(s, Nobody, m) /\ UNCHANGED <<plugin, host>>
    BY <1>4 DEF CallUnchecked
  <2>2. m.rpc # "apply"
    BY <1>1, ExtensionTypes DEF WireRequest, AttachHostRequest
  <2> QED BY <2>1, <2>2, InvokeConfigures
<1>5. CASE \E c \in Client : CallAttachHost(s, c)
  <2>1. PICK c \in Client :
          /\ Invoke(s, c, [rpc |-> "attach", broker_id |-> BrokerId[c],
                           host_api_version |-> HostAPIVersion])
          /\ UNCHANGED <<plugin, host>>
    BY <1>5 DEF CallAttachHost
  <2> QED BY <2>1, InvokeConfigures
<1>6. CASE GiveUp(s)
  BY <1>6, GiveUpConfigures
<1> QED BY <1>2, <1>3, <1>4, <1>5, <1>6 DEF HostStep

LEMMA InitConfigures == Init => Configurations
BY FreeApplies DEF Init, NewHost, Configurations, InForce, Awaited, Abandoned

LEMMA StepConfigures == Types /\ Configurations /\ [Next]_vars => Configurations'
<1> SUFFICES ASSUME Types, Configurations, [Next]_vars PROVE Configurations'
  OBVIOUS
<1>1. ASSUME NEW s \in Slot, PluginStep(s) PROVE Configurations'
  BY <1>1, RefuseConfigures, ApplyConfigures, HandlerConfigures DEF PluginStep
<1>2. ASSUME NEW s \in Slot, HostStep(s) PROVE Configurations'
  BY <1>2, HostStepConfigures
<1>3. ASSUME NEW s \in Slot, Return(s) PROVE Configurations'
  BY <1>3, ReturnConfigures
<1>4. CASE Crash
  BY <1>4, FreeApplies DEF Crash, NewHost, Configurations, InForce, Awaited, Abandoned
<1>5. CASE UNCHANGED vars
  BY <1>5 DEF vars, Configurations, InForce
<1> QED BY <1>1, <1>2, <1>3, <1>4, <1>5 DEF Next

LEMMA ConfigurationsHold == Spec => []Configurations
<1> QED BY InitConfigures, StepConfigures, TypesHold, PTL DEF Spec

\* Once no ApplyConfig is under way, the plugin runs the configuration that the
\* host has seen acknowledged last, unless one that was given up may still have
\* come after it (handlerServer.ApplyConfig; main.go:178-183).
THEOREM AcknowledgedRuns == Spec => []AckedConfigRuns
<1>1. Configurations => AckedConfigRuns
  BY DEF Configurations, InForce, AckedConfigRuns, AwaitedApply, Awaited, Applies, Busy
<1> QED BY <1>1, ConfigurationsHold, PTL

----------------------------------------------------------------------------
(* Lists in order: NormalizeCapabilities.                                  *)

\* The place of x among the elements of S.
Below(S, key, x) == {y \in S : key[y] < key[x]}

LEMMA Places ==
  ASSUME NEW S, IsFiniteSet(S), NEW key \in [S -> Nat], IsInjective(key), NEW x \in S
  PROVE  /\ Cardinality(Below(S, key, x)) + 1 \in 1 .. Cardinality(S)
         /\ \A z \in S : Cardinality(Below(S, key, x)) = Cardinality(Below(S, key, z)) => x = z
<1>1. \A z \in S : /\ IsFiniteSet(Below(S, key, z))
                   /\ Cardinality(Below(S, key, z)) \in Nat
                   /\ z \notin Below(S, key, z) /\ Below(S, key, z) \subseteq S
  BY FS_Subset, FS_CardinalityType DEF Below
<1>2. ASSUME NEW y \in S, NEW z \in S, key[y] < key[z]
      PROVE  Cardinality(Below(S, key, y)) < Cardinality(Below(S, key, z))
  <2>1. Below(S, key, y) \subseteq Below(S, key, z) /\ y \in Below(S, key, z)
    BY <1>2 DEF Below
  <2>2. Below(S, key, y) # Below(S, key, z)
    BY <1>1, <2>1
  <2> QED BY <1>1, <2>1, <2>2, FS_Subset
<1>3. Cardinality(Below(S, key, x)) < Cardinality(S)
  <2>1. Below(S, key, x) # S
    BY <1>1
  <2>2. Cardinality(S) \in Nat
    BY FS_CardinalityType
  <2> QED BY <1>1, <2>1, <2>2, FS_Subset
<1>4. ASSUME NEW z \in S, x # z
      PROVE  Cardinality(Below(S, key, x)) # Cardinality(Below(S, key, z))
  <2>1. key[x] # key[z] /\ key[x] \in Nat /\ key[z] \in Nat
    BY <1>4 DEF IsInjective
  <2>2. CASE key[x] < key[z]
    BY <1>1, <1>2, <2>2
  <2>3. CASE key[z] < key[x]
    BY <1>1, <1>2, <2>3
  <2> QED BY <2>1, <2>2, <2>3
<1>5. Cardinality(S) \in Nat
  BY FS_CardinalityType
<1> QED BY <1>1, <1>3, <1>4, <1>5

\* Each element has its place, and each place its element.
LEMMA InOrderRange ==
  ASSUME NEW S, IsFiniteSet(S), NEW key \in [S -> Nat], IsInjective(key)
  PROVE  {InOrder(S, key)[i] : i \in 1 .. Cardinality(S)} = S
<1> DEFINE n == Cardinality(S)
           place == [x \in S |-> Cardinality(Below(S, key, x)) + 1]
<1>1. n \in Nat
  BY FS_CardinalityType
<1>2. \A x \in S : Cardinality(Below(S, key, x)) \in Nat
  BY FS_Subset, FS_CardinalityType DEF Below
<1>3. place \in [S -> 1 .. n]
  BY Places
<1>4. \A x, z \in S : place[x] = place[z] => x = z
  BY <1>2, Places
<1>5. place \in Injection(S, 1 .. n)
  BY <1>3, <1>4 DEF Injection, IsInjective
<1>6. IsFiniteSet(1 .. n) /\ Cardinality(1 .. n) = n
  BY <1>1, FS_Interval
<1>7. \A i \in 1 .. n : \E x \in S : place[x] = i
  <2> HIDE DEF place
  <2>1. place \in Surjection(S, 1 .. n)
    BY <1>5, <1>6, FS_Injection
  <2> QED BY <2>1 DEF Surjection
<1>8. \A i \in 1 .. n, x \in S :
        place[x] = i <=> Cardinality(Below(S, key, x)) = i - 1
  BY <1>2
<1>9. \A i \in 1 .. n : InOrder(S, key)[i] =
        CHOOSE x \in S : Cardinality(Below(S, key, x)) = i - 1
  BY DEF InOrder, Below
<1> HIDE DEF place
<1>10. \A i \in 1 .. n : InOrder(S, key)[i] \in S /\ place[InOrder(S, key)[i]] = i
  BY <1>7, <1>8, <1>9
<1>11. \A x \in S : InOrder(S, key)[place[x]] = x
  BY <1>3, <1>4, <1>10
<1> QED BY <1>3, <1>10, <1>11

LEMMA SameOrderSameSet ==
  ASSUME NEW S, IsFiniteSet(S), NEW key \in [S -> Nat], IsInjective(key),
         NEW T, IsFiniteSet(T), NEW other \in [T -> Nat], IsInjective(other),
         InOrder(S, key) = InOrder(T, other)
  PROVE  S = T
<1>1. 1 .. Cardinality(S) = 1 .. Cardinality(T)
  <2>1. /\ DOMAIN InOrder(S, key) = 1 .. Cardinality(S)
        /\ DOMAIN InOrder(T, other) = 1 .. Cardinality(T)
    BY DEF InOrder
  <2> QED BY <2>1
<1>2. {InOrder(S, key)[i] : i \in 1 .. Cardinality(S)} =
        {InOrder(T, other)[i] : i \in 1 .. Cardinality(T)}
  BY <1>1
<1>3. {InOrder(S, key)[i] : i \in 1 .. Cardinality(S)} = S
  BY InOrderRange
<1>4. {InOrder(T, other)[i] : i \in 1 .. Cardinality(T)} = T
  BY InOrderRange
<1> QED BY <1>2, <1>3, <1>4

LEMMA SortedRange ==
  ASSUME NEW p \in Seq(Nat)
  PROVE  IsFiniteSet(Range(p)) /\ Range(p) \subseteq Nat
<1>1. p \in Surjection(1 .. Len(p), Range(p))
  BY DEF Range, Surjection
<1>2. IsFiniteSet(1 .. Len(p))
  BY FS_Interval
<1> QED BY <1>1, <1>2, FS_Surjection DEF Range

\* A sorted list tells which permissions it lists.
LEMMA SortedSame ==
  ASSUME NEW p \in Seq(Nat), NEW q \in Seq(Nat)
  PROVE  Sorted(Range(p)) = Sorted(Range(q)) <=> Range(p) = Range(q)
<1>1. ASSUME NEW S \in SUBSET Nat
      PROVE  [n \in S |-> n] \in [S -> Nat] /\ IsInjective([n \in S |-> n])
  BY DEF IsInjective
<1>2. /\ IsFiniteSet(Range(p)) /\ Range(p) \in SUBSET Nat
      /\ IsFiniteSet(Range(q)) /\ Range(q) \in SUBSET Nat
  BY SortedRange
<1>3. ASSUME NEW S \in SUBSET Nat, IsFiniteSet(S), NEW T \in SUBSET Nat, IsFiniteSet(T),
             Sorted(S) = Sorted(T)
      PROVE  S = T
  <2> DEFINE key == [n \in S |-> n]
             other == [n \in T |-> n]
  <2>1. InOrder(S, key) = InOrder(T, other)
    BY <1>3 DEF Sorted
  <2>2. key \in [S -> Nat] /\ IsInjective(key) /\ other \in [T -> Nat] /\ IsInjective(other)
    BY <1>1
  <2> HIDE DEF key, other
  <2> QED BY <1>3, <2>1, <2>2, SameOrderSameSet
<1> QED BY <1>2, <1>3

\* The capabilities with their permissions in order.
Ordered(list) == {[c EXCEPT !.permissions = Sorted(Range(@))] : c \in Range(list)}

Distinct(list) ==
  /\ list \in Seq(Capability)
  /\ \A c \in Range(list) : ValidCapability(c)
  /\ IsInjective(Ids(list))

LEMMA OrderedById ==
  ASSUME NEW list, Distinct(list)
  PROVE  /\ IsFiniteSet(Ordered(list))
         /\ [c \in Ordered(list) |-> c.id] \in [Ordered(list) -> Nat]
         /\ IsInjective([c \in Ordered(list) |-> c.id])
<1> DEFINE f == [i \in 1 .. Len(list) |-> [list[i] EXCEPT !.permissions = Sorted(Range(@))]]
<1>1. /\ list \in Seq(Capability)
      /\ \A i, j \in 1 .. Len(list) : list[i].id = list[j].id => i = j
  BY DEF Distinct, Ids, IsInjective
<1>2. ASSUME NEW i \in 1 .. Len(list)
      PROVE  list[i] \in Capability /\ f[i].id = list[i].id /\ list[i].id \in Nat
  <2>1. list[i] \in Capability
    BY <1>1
  <2>2. f[i] = [list[i] EXCEPT !.permissions = Sorted(Range(@))]
    OBVIOUS
  <2> HIDE DEF f
  <2> QED BY <2>1, <2>2 DEF Capability
<1>3. \A c : c \in Ordered(list) <=> \E i \in 1 .. Len(list) : c = f[i]
  <2>1. DOMAIN list = 1 .. Len(list)
    BY <1>1
  <2>2. \A i \in 1 .. Len(list) : f[i] = [list[i] EXCEPT !.permissions = Sorted(Range(@))]
    OBVIOUS
  <2>3. Ordered(list) = {[c EXCEPT !.permissions = Sorted(Range(@))] : c \in {list[i] : i \in 1 .. Len(list)}}
    BY <2>1 DEF Ordered, Range
  <2>4. ASSUME NEW c PROVE c \in Ordered(list) <=> \E i \in 1 .. Len(list) : c = f[i]
    <3>1. c \in Ordered(list) <=>
            \E i \in 1 .. Len(list) : c = [list[i] EXCEPT !.permissions = Sorted(Range(@))]
      BY <2>3
    <3> HIDE DEF f
    <3> QED BY <2>2, <3>1
  <2> QED BY <2>4
<1> HIDE DEF f
<1>4. f \in Surjection(1 .. Len(list), Ordered(list))
  <2>1. f \in [1 .. Len(list) -> Ordered(list)]
    BY <1>3 DEF f
  <2> QED BY <1>3, <2>1 DEF Surjection
<1>5. IsFiniteSet(Ordered(list))
  <2>1. IsFiniteSet(1 .. Len(list))
    BY <1>1, FS_Interval
  <2> QED BY <1>4, <2>1, FS_Surjection
<1>6. [c \in Ordered(list) |-> c.id] \in [Ordered(list) -> Nat]
  BY <1>2, <1>3
<1>7. IsInjective([c \in Ordered(list) |-> c.id])
  BY <1>1, <1>2, <1>3 DEF IsInjective
<1> QED BY <1>5, <1>6, <1>7

\* Lists of the same capabilities, and only they, are the same in order.
LEMMA OrderedSame ==
  ASSUME NEW p, Distinct(p), NEW q, Distinct(q)
  PROVE  Ordered(p) = Ordered(q) <=> Capabilities(p) = Capabilities(q)
<1> DEFINE InSort(c) == [c EXCEPT !.permissions = Sorted(Range(@))]
           AsSet(c) == [c EXCEPT !.permissions = Range(@)]
<1>1. ASSUME NEW c \in Capability, NEW d \in Capability
      PROVE  InSort(c) = InSort(d) <=> AsSet(c) = AsSet(d)
  <2> DEFINE rest == /\ c.id = d.id /\ c.kind = d.kind /\ c.scope = d.scope
                     /\ c.timeout_ms = d.timeout_ms /\ c.failure_mode = d.failure_mode
                     /\ c.synchronous = d.synchronous
  <2>1. InSort(c) = InSort(d) <=> rest /\ Sorted(Range(c.permissions)) = Sorted(Range(d.permissions))
    BY DEF Capability
  <2>2. AsSet(c) = AsSet(d) <=> rest /\ Range(c.permissions) = Range(d.permissions)
    BY DEF Capability
  <2>3. c.permissions \in Seq(Nat) /\ d.permissions \in Seq(Nat)
    BY DEF Capability
  <2> HIDE DEF InSort, AsSet, rest
  <2> QED BY <2>1, <2>2, <2>3, SortedSame
<1>2. \A c \in Range(p) \cup Range(q) : c \in Capability
  BY DEF Distinct, Range
<1>3. /\ Ordered(p) = {InSort(c) : c \in Range(p)} /\ Ordered(q) = {InSort(c) : c \in Range(q)}
      /\ Capabilities(p) = {AsSet(c) : c \in Range(p)} /\ Capabilities(q) = {AsSet(c) : c \in Range(q)}
  BY DEF Ordered, Capabilities
<1> HIDE DEF InSort, AsSet
<1>4. ASSUME Ordered(p) = Ordered(q) PROVE Capabilities(p) = Capabilities(q)
  <2>1. \A c \in Range(p) : \E d \in Range(q) : InSort(c) = InSort(d)
    BY <1>3, <1>4
  <2>2. \A d \in Range(q) : \E c \in Range(p) : InSort(c) = InSort(d)
    BY <1>3, <1>4
  <2>3. \A c \in Range(p) : \E d \in Range(q) : AsSet(c) = AsSet(d)
    BY <1>1, <1>2, <2>1
  <2>4. \A d \in Range(q) : \E c \in Range(p) : AsSet(c) = AsSet(d)
    BY <1>1, <1>2, <2>2
  <2> QED BY <1>3, <2>3, <2>4
<1>5. ASSUME Capabilities(p) = Capabilities(q) PROVE Ordered(p) = Ordered(q)
  <2>1. \A c \in Range(p) : \E d \in Range(q) : AsSet(c) = AsSet(d)
    BY <1>3, <1>5
  <2>2. \A d \in Range(q) : \E c \in Range(p) : AsSet(c) = AsSet(d)
    BY <1>3, <1>5
  <2>3. \A c \in Range(p) : \E d \in Range(q) : InSort(c) = InSort(d)
    BY <1>1, <1>2, <2>1
  <2>4. \A d \in Range(q) : \E c \in Range(p) : InSort(c) = InSort(d)
    BY <1>1, <1>2, <2>2
  <2> QED BY <1>3, <2>3, <2>4
<1> QED BY <1>4, <1>5

\* NormalizeCapabilities compares exactly that.
LEMMA NormalizedSame ==
  ASSUME NEW list, Distinct(list), list # <<>>
  PROVE  NormalizeCapabilities(list) = Manifest <=> Capabilities(list) = Capabilities(Manifest)
<1>1. NormalizeCapabilities(list) = ById(Ordered(list))
  BY DEF NormalizeCapabilities, Distinct, Ordered
<1>2. Distinct(Manifest)
  BY ManifestAssumption DEF NormalizeCapabilities, Distinct
<1>3. Manifest = ById(Ordered(Manifest))
  BY <1>2, ManifestAssumption DEF NormalizeCapabilities, Distinct, Ordered
<1>4. NormalizeCapabilities(list) = Manifest <=> Ordered(list) = Ordered(Manifest)
  BY <1>1, <1>2, <1>3, OrderedById, SameOrderSameSet DEF ById
<1> QED BY <1>2, <1>4, OrderedSame

----------------------------------------------------------------------------
(* The handshake.                                                          *)

\* What GetInfo answers, whenever it is called.
Declared == IF ValidInfo(plugin.info) THEN InfoToWire(plugin.info) ELSE Error

Handshake ==
  /\ \A s \in Slot : calls[s].pc = "reply" /\ calls[s].in.rpc = "info" => calls[s].out = Declared
  /\ host.phase = "ready" => Agreed(Declared)
  /\ host.phase = "refused" => ~Agreed(Declared)

LEMMA Agreement ==
  ASSUME Types
  PROVE  Agreed(Declared) <=> /\ ValidInfo(plugin.info)
                              /\ Capabilities(plugin.info.capabilities) = Capabilities(Manifest)
<1> DEFINE info == plugin.info
<1>1. info \in PluginInfo
  BY ExtensionTypes DEF Types, PluginState
<1>2. CASE ~ValidInfo(info)
  BY <1>2 DEF Declared, Agreed
<1>3. CASE ValidInfo(info)
  <2>1. Declared = InfoToWire(info) /\ InfoFromWire(Declared) = info
    BY <1>1, <1>3 DEF Declared, InfoToWire, InfoFromWire, PluginInfo
  <2>2. Declared # Error
    <3>1. "plugin_id" \in DOMAIN InfoToWire(info) /\ "plugin_id" \notin DOMAIN Error
      BY DEF InfoToWire, Error
    <3> QED BY <2>1, <3>1
  <2>3. Distinct(info.capabilities) /\ info.capabilities # <<>>
    BY <1>1, <1>3 DEF ValidInfo, Distinct, PluginInfo
  <2> HIDE DEF info
  <2>4. Agreed(Declared) <=> NormalizeCapabilities(info.capabilities) = Manifest
    BY <1>3, <2>1, <2>2 DEF Agreed
  <2>5. Agreed(Declared) <=> Capabilities(info.capabilities) = Capabilities(Manifest)
    BY <2>3, <2>4, NormalizedSame
  <2> QED BY <1>3, <2>5 DEF info
<1> QED BY <1>2, <1>3
LEMMA SlotAgrees ==
  ASSUME Types, Handshake, NEW s \in Slot, NEW r, calls' = [calls EXCEPT ![s] = r],
         r.pc = "reply" /\ r.in.rpc = "info" => r.out = Declared,
         plugin'.info = plugin.info, host'.phase = host.phase
  PROVE  Handshake'
<1>1. Declared' = Declared
  BY DEF Declared
<1>2. \A t \in Slot : calls'[t] = IF t = s THEN r ELSE calls[t]
  BY DEF Types
<1> QED BY <1>1, <1>2 DEF Handshake, Agreed

LEMMA HostStepAgrees ==
  ASSUME Types, Handshake, NEW s \in Slot, HostStep(s)
  PROVE  Handshake'
<1>1. /\ UNCHANGED plugin
      /\ (\E by, m : Invoke(s, by, m) /\ UNCHANGED host) \/ GiveUp(s)
  BY DEF HostStep, CallService, CallPreprocess, CallUnchecked, CallAttachHost, GiveUp
<1>2. ASSUME NEW by, NEW m, Invoke(s, by, m), UNCHANGED host PROVE Handshake'
  <2> DEFINE r == [Free EXCEPT !.pc = "sent", !.by = by, !.in = m, !.waiting = TRUE,
                     !.alone = m.rpc = "apply" /\ ~AbandonedApply,
                     !.mine = IF m.rpc = "preprocess" THEN {plugin.config} ELSE {}]
  <2>1. calls' = [calls EXCEPT ![s] = r] /\ r.pc = "sent"
    BY <1>2 DEF Invoke, Free
  <2> HIDE DEF r
  <2> QED BY <1>1, <1>2, <2>1, SlotAgrees
<1>3. CASE GiveUp(s)
  <2> DEFINE r == IF calls[s].pc = "reply" THEN Free ELSE [calls[s] EXCEPT !.waiting = FALSE]
  <2>1. calls' = [calls EXCEPT ![s] = r] /\ host'.phase = host.phase
    BY <1>3 DEF GiveUp, Types, HostState
  <2>2. r.pc # "reply"
    BY FreeTyped DEF Types, Call
  <2> HIDE DEF r
  <2> QED BY <1>1, <2>1, <2>2, SlotAgrees
<1> QED BY <1>1, <1>2, <1>3

LEMMA ReturnAgrees ==
  ASSUME Types, Handshake, NEW s \in Slot, Return(s)
  PROVE  Handshake'
<1>1. /\ calls' = [calls EXCEPT ![s] = Free] /\ plugin' = plugin /\ calls[s].pc = "reply"
      /\ host \in HostState /\ Free.pc # "reply"
  BY FreeTyped DEF Return, Types
<1>2. CASE calls[s].in.rpc # "info"
  <2>1. host'.phase = host.phase
    BY <1>1, <1>2 DEF Return, HostState
  <2> QED BY <1>1, <2>1, SlotAgrees
<1>3. CASE calls[s].in.rpc = "info"
  <2>1. calls[s].out = Declared /\ Declared' = Declared
    BY <1>1, <1>3 DEF Handshake, Declared
  <2>2. host'.phase = IF Agreed(Declared) THEN "ready" ELSE "refused"
    BY <1>1, <1>3, <2>1 DEF Return, HostState
  <2>3. \A t \in Slot : calls'[t] = calls[t] \/ calls'[t].pc # "reply"
    BY <1>1 DEF Types
  <2> QED BY <2>1, <2>2, <2>3 DEF Handshake, Agreed
<1> QED BY <1>2, <1>3

LEMMA HandlerAgrees ==
  ASSUME Types, Handshake, NEW s \in Slot, PluginStep(s)
  PROVE  Handshake'
<1>1. calls[s] \in Call /\ Typed(calls[s]) /\ plugin \in PluginState
  BY DEF Types
<1>2. ASSUME NEW out \in Replies, calls[s].in.rpc = "info" => out = Declared,
             Reply(s, out), UNCHANGED <<plugin, host>>
      PROVE  Handshake'
  <2> DEFINE r == Replied(calls[s], out)
  <2>1. calls' = [calls EXCEPT ![s] = r]
    BY <1>2 DEF Reply
  <2>2. r = Free \/ (r.in = calls[s].in /\ r.out = out)
    BY <1>1, RepliedCall
  <2> HIDE DEF r
  <2>3. r.pc = "reply" /\ r.in.rpc = "info" => r.out = Declared
    BY <1>2, <2>2, FreeTyped
  <2> QED BY <1>2, <2>1, <2>3, SlotAgrees
<1>3. CASE Serve(s)
  <2>1. calls[s].in \in Requests /\ UNCHANGED <<plugin, host>>
    BY <1>1, <1>3 DEF Typed, Serve
  <2>2. Answer(calls[s].in) \in Replies /\ Reply(s, Answer(calls[s].in))
    BY <1>3, <2>1, AnswerReply DEF Serve
  <2>3. calls[s].in.rpc = "info" => Answer(calls[s].in) = Declared
    BY DEF Answer, Declared
  <2> QED BY <1>2, <2>1, <2>2, <2>3
<1>4. CASE RefuseConfig(s)
  <2>1. [applied |-> FALSE, message |-> 1] \in Replies
    BY AppliedReply
  <2> QED BY <1>2, <1>4, <2>1 DEF RefuseConfig, Received
<1>5. CASE ApplyConfig(s)
  <2> DEFINE json == calls[s].in.config_json
             out == [applied |-> ~plugin.unreadable, message |-> IF ~plugin.unreadable THEN 0 ELSE 1]
  <2>1. /\ calls[s].in.rpc = "apply" /\ plugin'.info = plugin.info /\ UNCHANGED host
    BY <1>1, <1>5 DEF ApplyConfig, Received, PluginState
  <2>2. /\ json \in Json /\ out \in Replies
        /\ calls'[s] = Replied(calls[s], out)
        /\ \A t \in Slot \ {s} :
             calls'[t] = IF calls[t].in.rpc = "preprocess" THEN Grown(calls[t], json)
                         ELSE calls[t]
    BY <1>5, Applying
  <2> HIDE DEF json, out
  <2>3. calls'[s] = Free \/ calls'[s].in = calls[s].in
    BY <1>1, <2>2, RepliedCall
  <2>4. ~(calls'[s].pc = "reply" /\ calls'[s].in.rpc = "info")
    BY <2>1, <2>3, FreeTyped
  <2>5. ASSUME NEW t \in Slot \ {s}, calls[t].in.rpc = "preprocess"
        PROVE  calls'[t].in.rpc # "info"
    <3>1. calls'[t] = Grown(calls[t], json) /\ calls[t] \in Call
      BY <2>2, <2>5 DEF Types
    <3>2. calls'[t].in = calls[t].in
      BY <2>2, <3>1, GrownCall
    <3> QED BY <2>5, <3>2
  <2>6. Declared' = Declared
    BY <2>1 DEF Declared
  <2> QED BY <2>1, <2>2, <2>4, <2>5, <2>6 DEF Handshake, Agreed
<1>6. CASE ~Serve(s) /\ ~RefuseConfig(s) /\ ~ApplyConfig(s)
  <2>1. calls[s].in.rpc # "info" /\ plugin'.info = plugin.info /\ UNCHANGED host
    BY <1>6, HandlerMoves DEF PluginStep
  <2>2. PICK r : calls' = [calls EXCEPT ![s] = r] /\ (r = Free \/ r.in = calls[s].in)
    BY <1>6, HandlerMoves DEF PluginStep
  <2> QED BY <2>1, <2>2, FreeTyped, SlotAgrees
<1> QED BY <1>3, <1>4, <1>5, <1>6

LEMMA InitAgrees == Init => Handshake
BY FreeTyped DEF Init, NewHost, Handshake

LEMMA StepAgrees == Types /\ Handshake /\ [Next]_vars => Handshake'
<1> SUFFICES ASSUME Types, Handshake, [Next]_vars PROVE Handshake'
  OBVIOUS
<1>1. ASSUME NEW s \in Slot, PluginStep(s) PROVE Handshake'
  BY <1>1, HandlerAgrees
<1>2. ASSUME NEW s \in Slot, HostStep(s) PROVE Handshake'
  BY <1>2, HostStepAgrees
<1>3. ASSUME NEW s \in Slot, Return(s) PROVE Handshake'
  BY <1>3, ReturnAgrees
<1>4. CASE Crash
  BY <1>4, FreeTyped DEF Crash, NewHost, Handshake
<1>5. CASE UNCHANGED vars
  <2>1. Declared' = Declared
    BY <1>5 DEF vars, Declared
  <2> QED BY <1>5, <2>1 DEF vars, Handshake, Agreed
<1> QED BY <1>1, <1>2, <1>3, <1>4, <1>5 DEF Next

\* The host, which compares normalised lists, uses a plugin exactly if its
\* GetInfo declares the manifest's capabilities, in whatever order, however many
\* GetInfo calls overlap or are given up (contract.go:344; docs/host-api.md:9).
THEOREM HandshakeDecides == Spec => []HandshakeExact
<1>1. Types /\ Handshake => HandshakeExact
  BY Agreement DEF Handshake, HandshakeExact
<1>2. Spec => []Handshake
  BY InitAgrees, StepAgrees, TypesHold, PTL DEF Spec
<1> QED BY <1>1, <1>2, TypesHold, PTL
=============================================================================
