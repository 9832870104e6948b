------------------------------ MODULE Contract ------------------------------
(***************************************************************************)
(* The v2 extension contract, pluginapi/v2/contract.go: what a plugin may  *)
(* declare, what a request and a decision may hold, and the checks that    *)
(* both ends apply.                                                        *)
(* A text is its length, 0 for an empty or blank one; an id or permission  *)
(* is its rank in the order of strings, 0 for an ill-formed one.           *)
(***************************************************************************)
EXTENDS Integers, SequencesExt

CONSTANTS
  HeaderName,       \* the names a header may have, well formed or not
  InvalidName,      \* upper case, blanks, other characters
  SensitiveName,    \* authorization, cookie, x-api-key, ...
  MaxRequestBodyBytes, MaxHeaderCount, MaxHeaderValues, MaxHeaderBytes,
  MaxReasonBytes,
  MaxTimeoutMS      \* 120000

ASSUME ContractAssumption ==
  /\ InvalidName \cup SensitiveName \subseteq HeaderName
  /\ {MaxRequestBodyBytes, MaxHeaderCount, MaxHeaderValues, MaxHeaderBytes,
      MaxReasonBytes, MaxTimeoutMS} \subseteq Nat

ProtocolVersion == 2

CapabilityKind == {"hook", "provider", "event_sink", "worker"}
FailureMode == {"fail_closed", "fail_open", "async"}
Verdict == {"pass", "modify", "deny", "error"}

\* scope: platform and account type.
Capability ==
  [id : Nat, kind : STRING, scope : Nat, permissions : Seq(Nat), timeout_ms : Int,
   failure_mode : STRING, synchronous : BOOLEAN]
PluginInfo ==
  [plugin_id : Nat, plugin_version : Nat, protocol_version : Nat,
   capabilities : Seq(Capability)]

ValidCapability(c) ==
  /\ c.id # 0
  /\ c.kind \in CapabilityKind
  /\ c.timeout_ms \in 1 .. MaxTimeoutMS
  /\ c.failure_mode \in FailureMode
  /\ c.failure_mode = "async" => ~c.synchronous
  /\ c.kind = "event_sink" => c.failure_mode = "async"
  /\ 0 \notin Range(c.permissions)
  /\ IsInjective(c.permissions)

Ids(capabilities) == [i \in DOMAIN capabilities |-> capabilities[i].id]

\* PluginInfo.Validate.
ValidInfo(info) ==
  /\ info.plugin_id # 0 /\ info.plugin_version # 0
  /\ info.protocol_version = ProtocolVersion
  /\ info.capabilities # <<>>
  /\ \A c \in Range(info.capabilities) : ValidCapability(c)
  /\ IsInjective(Ids(info.capabilities))

\* The elements of S in the order of their keys, which differ.
InOrder(S, key) ==
  [i \in 1 .. Cardinality(S) |->
     CHOOSE x \in S : Cardinality({y \in S : key[y] < key[x]}) = i - 1]

Sorted(S) == InOrder(S, [n \in S |-> n])
ById(S)   == InOrder(S, [c \in S |-> c.id])

Rejected == <<>>

\* Mutant: permissions keep the plugin's order.
NormalizeById(capabilities) ==
  IF /\ \A c \in Range(capabilities) : ValidCapability(c)
     /\ IsInjective(Ids(capabilities))
  THEN ById(Range(capabilities))
  ELSE Rejected

\* NormalizeCapabilities: the capabilities by id, each with its permissions in
\* order; Rejected for an error, and nothing of nothing.
NormalizeCapabilities(capabilities) ==
  IF /\ \A c \in Range(capabilities) : ValidCapability(c)
     /\ IsInjective(Ids(capabilities))
  THEN ById({[c EXCEPT !.permissions = Sorted(Range(@))] : c \in Range(capabilities)})
  ELSE Rejected

----------------------------------------------------------------------------
(* Requests and decisions.  Headers give each name the number of its       *)
(* values, 0 for a header that is not there, their bytes with the name's,  *)
(* and whether one of them holds a control character.                      *)

Present(headers) == {n \in HeaderName : headers[n].values > 0}
NoHeaders == [n \in HeaderName |-> [values |-> 0, bytes |-> 0, control |-> FALSE]]

\* Mutant: sensitive names pass.
ValidHeadersNamed(headers) ==
  /\ Cardinality(Present(headers)) <= MaxHeaderCount
  /\ Present(headers) \cap InvalidName = {}
  /\ \A n \in Present(headers) : headers[n].values <= MaxHeaderValues /\ ~headers[n].control
  /\ MapThenSumSet(LAMBDA n : headers[n].bytes, Present(headers)) <= MaxHeaderBytes

ValidHeaders(headers) ==
  /\ Cardinality(Present(headers)) <= MaxHeaderCount
  /\ Present(headers) \cap (InvalidName \cup SensitiveName) = {}
  /\ \A n \in Present(headers) : headers[n].values <= MaxHeaderValues /\ ~headers[n].control
  /\ MapThenSumSet(LAMBDA n : headers[n].bytes, Present(headers)) <= MaxHeaderBytes

\* Body: its length, 0 for none; JSON or not; what a policy reads of it, the
\* tokens asked for (0: none) in an object, or something it cannot read.
NoBody == [bytes |-> 0, form |-> "object", tokens |-> 0]
IsJSON(body) == body.form # "invalid"

ZeroTime == -1

\* RequestContext.Validate.
ValidContext(c) ==
  /\ 0 \notin {c.request_id, c.platform, c.account_type, c.method, c.path}
  /\ c.deadline # ZeroTime
  /\ ValidHeaders(c.headers)

\* PreprocessRequest.Validate.
ValidRequest(r) ==
  /\ r.capability = "request.preprocess.v1"
  /\ ValidContext(r.context)
  /\ r.body.bytes <= MaxRequestBodyBytes
  /\ r.body.bytes > 0 => IsJSON(r.body)

\* RequestPatch.Validate.
ValidPatch(p) ==
  /\ ValidHeaders(p.headers)
  /\ p.body.bytes > 0 => p.body_changed /\ IsJSON(p.body)
  /\ p.body.bytes <= MaxRequestBodyBytes
  /\ p.body_changed \/ p.method # 0 \/ p.path # 0 \/ Present(p.headers) # {}

\* PreprocessResponse.Validate; `patch` is a set with at most one patch.
ValidResponse(r) ==
  /\ CASE r.decision = "pass"   -> r.patch = {} /\ r.code = 0
       [] r.decision = "modify" -> r.patch # {} /\ \A p \in r.patch : ValidPatch(p)
       [] r.decision = "deny"   -> r.patch = {} /\ r.reason # 0
       [] r.decision = "error"  -> r.patch = {} /\ r.code # 0 /\ r.reason # 0
       [] OTHER -> FALSE
  /\ r.code <= MaxReasonBytes /\ r.reason <= MaxReasonBytes
=============================================================================
