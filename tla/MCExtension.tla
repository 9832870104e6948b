---------------------------- MODULE MCExtension ----------------------------
(***************************************************************************)
(* Values for the constants of Extension under TLC.                        *)
(***************************************************************************)
EXTENDS Extension, TLC

CONSTANTS h1, h2

OneIdEach == h1 :> 1 @@ h2 :> 2

AttachedBy == "policy" :> {} @@ "host-aware" :> {h1, h2} @@ "state-reuse" :> {h1}

\* "full" and "other" differ in all that the samples read; "short" stands for
\* "full" without its defaults.
SettingOf ==
  "full" :> [deny |-> 1, max |-> 1, alias |-> 0, digest |-> 0]
  @@ "short" :> [deny |-> 1, max |-> 1, alias |-> 0, digest |-> 0]
  @@ "other" :> [deny |-> 0, max |-> 2, alias |-> 1, digest |-> 1]
  @@ "bad" :> [deny |-> 0, max |-> 0, alias |-> 0, digest |-> 0]
SecretValues == [value : {1, 2}, expires_unix_millis : {0, 1}]
WithDefaults == [json \in Json |-> IF json = "short" THEN "full" ELSE json]

\* The services that change nothing are asked of one plugin only, with a text
\* without its defaults and one that does not parse.
Asks ==
  [kind \in Kinds |->
    GetInfoRequest \cup [rpc : {"apply"}, config_json : {"full", "other"}]
      \cup IF kind = "state-reuse"
            THEN HealthRequest \cup [rpc : {"validate", "test"}, config_json : {"short", "bad"}]
                   \cup [rpc : {"apply"}, config_json : {"bad"}]
            ELSE {}]

Hook(id, permissions) ==
  [id |-> id, kind |-> "hook", scope |-> 1, permissions |-> permissions, timeout_ms |-> 1,
   failure_mode |-> "fail_closed", synchronous |-> TRUE]
Info(capabilities) ==
  [plugin_id |-> 1, plugin_version |-> 1, protocol_version |-> 2, capabilities |-> capabilities]

ManifestCapabilities == <<Hook(1, <<1, 2>>), Hook(2, <<1>>)>>

\* The manifest's capabilities in another order; a permission less; one twice;
\* a capability twice; one that cannot be.
DeclaredInfos ==
  {Info(<<Hook(2, <<1>>), Hook(1, <<2, 1>>)>>),
   Info(<<Hook(1, <<1>>), Hook(2, <<1>>)>>),
   Info(<<Hook(1, <<1, 2, 1>>), Hook(2, <<1>>)>>),
   Info(<<Hook(1, <<1, 2>>), Hook(2, <<1>>), Hook(2, <<1>>)>>),
   Info(<<Hook(1, <<1, 2>>), [Hook(2, <<1>>) EXCEPT !.kind = "event_sink"]>>),
   [Info(ManifestCapabilities) EXCEPT !.protocol_version = 1]}

With(n) == [NoHeaders EXCEPT ![n] = [values |-> 1, bytes |-> 1, control |-> FALSE]]

Ask(model, bytes, tokens, headers) ==
  [capability |-> "request.preprocess.v1",
   body |-> [bytes |-> bytes, form |-> "object", tokens |-> tokens],
   context |->
     [request_id |-> 1, platform |-> 1, account_type |-> 1, method |-> 1, path |-> 1,
      model |-> model, deadline |-> 3, headers |-> headers]]

\* For the policy: no body; two tokens asked for, of either model; a body at its limit; a body
\* that it cannot read.
Requested ==
  [kind \in Kinds |->
    IF kind = "policy"
    THEN {Ask(2, 0, 0, With("accept")), Ask(1, 1, 2, NoHeaders), Ask(2, 1, 2, NoHeaders),
          Ask(2, MaxRequestBodyBytes, 0, NoHeaders),
          [Ask(2, 1, 0, NoHeaders) EXCEPT !.body.form = "malformed"]}
    ELSE {Ask(2, 1, 0, With("accept"))}]

\* A sensitive header; a deadline below a millisecond; a newer host.
WithoutChecks ==
  [kind \in Kinds |->
    CASE kind = "policy" -> {RequestToWire(Ask(2, 0, 0, With("cookie"))),
                             RequestToWire([Ask(2, 0, 0, NoHeaders) EXCEPT !.context.deadline = 1])}
      [] kind = "host-aware" -> {[rpc |-> "attach", broker_id |-> 3, host_api_version |-> 2]}
      [] OTHER -> {}]
=============================================================================
