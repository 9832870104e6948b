-------------------------------- MODULE Wire --------------------------------
(***************************************************************************)
(* The messages of the v2 services (wire/extension.pb.go) and the          *)
(* conversions between them and the contract's types (v2/adapter.go).      *)
(* Identifiers that nothing decides on (trace, account, user and group     *)
(* ids, the host) are left out; a configuration's JSON is one value.       *)
(***************************************************************************)
EXTENDS Contract

CONSTANTS
  Json,      \* configurations, as texts
  NoJson,    \* an empty text
  Milli      \* the ticks of a millisecond

ASSUME WireAssumption == NoJson \notin Json /\ Milli \in Nat \ {0}

HeaderValues == [values : Nat, bytes : Nat, control : BOOLEAN]
Headers == [HeaderName -> HeaderValues]
BodyJson == [bytes : Nat, form : {"object", "malformed", "invalid"}, tokens : Nat]

WireCapability ==
  [id : Nat, kind : STRING, scope : Nat, permissions : Seq(Nat), timeout_ms : Int,
   failure_mode : STRING, synchronous : BOOLEAN]

GetInfoRequest  == [rpc : {"info"}]
GetInfoResponse ==
  [plugin_id : Nat, plugin_version : Nat, protocol_version : Nat,
   capabilities : Seq(WireCapability)]
HealthRequest   == [rpc : {"health"}]
HealthResponse  == [healthy : BOOLEAN, message : Nat]

\* One message for three services: ValidateConfig, ApplyConfig, TestConfig.
ConfigRequest   == [rpc : {"validate", "apply", "test"}, config_json : Json]
ConfigResponse  == [valid : BOOLEAN, normalized_config_json : Json \cup {NoJson}, message : Nat]
ApplyResponse   == [applied : BOOLEAN, message : Nat]
TestResponse    == [success : BOOLEAN, latency_ms : Nat, message : Nat]

WireContext ==
  [request_id : Nat, platform : Nat, account_type : Nat, method : Nat, path : Nat,
   model : Nat, deadline_unix_millis : Int, headers : Headers]
WireRequest ==
  [rpc : {"preprocess"}, capability : STRING, context : WireContext, body_json : BodyJson]
WirePatch ==
  [method : Nat, path : Nat, headers : Headers, body_json : BodyJson, body_changed : BOOLEAN]
WireResponse ==
  [decision : Verdict, patch : SUBSET WirePatch, code : Nat, reason : Nat]

\* The contract's request, before the conversion.
PreprocessRequest ==
  [capability : STRING, body : BodyJson,
   context :
     [request_id : Nat, platform : Nat, account_type : Nat, method : Nat, path : Nat,
      model : Nat, deadline : Int, headers : Headers]]

AttachHostRequest == [rpc : {"attach"}, broker_id : Nat, host_api_version : Nat]

\* Levels, codes and names are the sample's.
HostLogRequest        == [host_rpc : {"log"}, level : {"info"}, code : {"plugin.ready"}]
HostMetricRequest     == [host_rpc : {"metric"}, name : {"requests"}, value : Nat]
HostCapabilityRequest == [host_rpc : {"config"}]
HostSecretRequest     == [host_rpc : {"secret"}, alias : Nat]
HostEventRequest      == [host_rpc : {"publish"}, name : {"policy.pass"}, value : Nat]
HostConfigResponse    == [config_json : Json]
HostSecretResponse    == [value : Nat, expires_unix_millis : Int]
HostRequests ==
  HostLogRequest \cup HostMetricRequest \cup HostCapabilityRequest \cup HostSecretRequest
    \cup HostEventRequest

Requests ==
  GetInfoRequest \cup HealthRequest \cup ConfigRequest \cup WireRequest \cup AttachHostRequest

----------------------------------------------------------------------------
(* Conversions.                                                            *)

InfoToWire(info) ==
  [plugin_id |-> info.plugin_id, plugin_version |-> info.plugin_version,
   protocol_version |-> info.protocol_version, capabilities |-> info.capabilities]
InfoFromWire(r) ==
  [plugin_id |-> r.plugin_id, plugin_version |-> r.plugin_version,
   protocol_version |-> r.protocol_version, capabilities |-> r.capabilities]

\* A deadline loses what is below a millisecond.
UnixMilli(t) == t \div Milli

RequestToWire(r) ==
  LET c == r.context IN
  [rpc |-> "preprocess", capability |-> r.capability, body_json |-> r.body,
   context |->
     [request_id |-> c.request_id, platform |-> c.platform, account_type |-> c.account_type,
      method |-> c.method, path |-> c.path, model |-> c.model,
      deadline_unix_millis |-> UnixMilli(c.deadline), headers |-> c.headers]]

RequestFromWire(r) ==
  LET c == r.context IN
  [capability |-> r.capability, body |-> r.body_json,
   context |->
     [request_id |-> c.request_id, platform |-> c.platform, account_type |-> c.account_type,
      method |-> c.method, path |-> c.path, model |-> c.model,
      deadline |-> c.deadline_unix_millis * Milli, headers |-> c.headers]]

ResponseToWire(r) ==
  [decision |-> r.decision, code |-> r.code, reason |-> r.reason,
   patch |-> {[method |-> p.method, path |-> p.path, headers |-> p.headers,
               body_json |-> p.body, body_changed |-> p.body_changed] : p \in r.patch}]

ResponseFromWire(r) ==
  [decision |-> r.decision, code |-> r.code, reason |-> r.reason,
   patch |-> {[method |-> p.method, path |-> p.path, headers |-> p.headers,
               body |-> p.body_json, body_changed |-> p.body_changed] : p \in r.patch}]
=============================================================================
