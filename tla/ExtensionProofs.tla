--------------------------- MODULE ExtensionProofs ---------------------------
(***************************************************************************)
(* Proofs about Extension: however many clients, calls and configurations  *)
(* there are, a client that was told so is the one the plugin is attached  *)
(* to, and no connection is left open.                                     *)
(* A step is of one of four kinds: it leaves the attachment alone (Quiet), *)
(* it dials, it ends an attachment, or the process dies.                   *)
(***************************************************************************)
EXTENDS Extension, TLAPS

Fields == {"pc", "by", "in", "out", "waiting", "alone", "seen", "mine"}
PluginFields ==
  {"kind", "info", "config", "unreadable", "locked", "connection", "services", "open"}

Working == {"delay", "log", "metric", "config", "compare", "secret", "publish"}

Attached(c) == plugin.connection = BrokerId[c] /\ plugin.services = BrokerId[c]

\* Only an attachment is called in a client's name; whoever dials has the
\* mutex, and nobody is attached yet; an answer that says so is true.
CallGood(r) ==
  /\ DOMAIN r = Fields
  /\ r.by \in Client => r.in.rpc = "attach" /\ r.in.broker_id = BrokerId[r.by]
  /\ r.pc = "set_host" =>
       /\ r.in.rpc = "attach" /\ r.in.broker_id # None
       /\ plugin.locked /\ plugin.connection = None
  /\ r.pc \in Working => r.in.rpc = "preprocess"
  /\ r.pc = "reply" /\ r.by \in Client /\ Applied(r.out) => Attached(r.by)

OneDials == \A s, t \in Slot : calls[s].pc = "set_host" /\ calls[t].pc = "set_host" => s = t

IInv ==
  /\ DOMAIN plugin = PluginFields /\ plugin.kind \in Kinds
  /\ clients \in [Client -> ClientState]
  /\ DOMAIN calls = Slot
  /\ \A s \in Slot : CallGood(calls[s])
  /\ OneDials
  /\ AttachAgreement
  /\ None \notin plugin.open /\ NoLeakedConnection

----------------------------------------------------------------------------
(* Records.                                                                *)

\* What the invariant tells apart of two calls.
Same(q, r) ==
  /\ DOMAIN q = Fields /\ DOMAIN r = Fields
  /\ q.pc = r.pc /\ q.by = r.by /\ q.in = r.in /\ q.out = r.out

LEMMA FreeCall ==
  /\ DOMAIN Free = Fields
  /\ Free.pc = "free" /\ Free.by = Nobody /\ Free.out = NoReply
  BY DEF Free, Fields

LEMMA Moved ==
  ASSUME NEW r, DOMAIN r = Fields, NEW pc
  PROVE  LET q == [r EXCEPT !.pc = pc] IN
         DOMAIN q = Fields /\ q.pc = pc /\ q.by = r.by /\ q.in = r.in /\ q.out = r.out
  BY DEF Fields

LEMMA RepliedCall ==
  ASSUME NEW r, DOMAIN r = Fields, NEW out
  PROVE  LET q == Replied(r, out) IN
         \/ q = Free
         \/ DOMAIN q = Fields /\ q.pc = "reply" /\ q.by = r.by /\ q.in = r.in /\ q.out = out
  BY DEF Fields, Replied

LEMMA NotApplied == ~Applied(Error)
  BY DEF Applied

----------------------------------------------------------------------------
(* The kinds of steps.                                                     *)

\* A call is free, as it was, or has moved on without touching an attachment.
QuietCall(q, r) ==
  \/ r = Free
  \/ Same(q, r)
  \/ /\ q.pc # "set_host" /\ r.pc # "set_host"
     /\ DOMAIN r = Fields
     /\ r.by \in Client => r.in.rpc = "attach" /\ r.in.broker_id = BrokerId[r.by]
     /\ r.pc \in Working => r.in.rpc = "preprocess"
     /\ r.pc = "reply" /\ r.by \in Client => ~Applied(r.out)

SamePlugin ==
  /\ DOMAIN plugin' = PluginFields /\ plugin'.kind = plugin.kind
  /\ plugin'.locked = plugin.locked /\ plugin'.connection = plugin.connection
  /\ plugin'.services = plugin.services /\ plugin'.open = plugin.open

\* A step that leaves the attachment alone keeps the invariant, and also one in
\* which a client is told what is true.
LEMMA QuietStep ==
  ASSUME IInv, SamePlugin,
         DOMAIN calls' = Slot,
         \A t \in Slot : QuietCall(calls[t], calls'[t]),
         \A t \in Slot : calls[t].pc = "set_host" => calls'[t].pc = "set_host",
         \A t \in Slot : calls[t].pc = "set_host" => calls'[t].in = calls[t].in,
         clients' \in [Client -> ClientState],
         \A c \in Client : clients'[c].told => clients[c].told \/ Attached(c)
  PROVE  IInv'
<1>1. ASSUME NEW t \in Slot PROVE CallGood(calls[t])'
  <2>1. CASE calls'[t] = Free
    BY <2>1, FreeCall, ExtensionAssumption DEF CallGood, Working
  <2>2. CASE Same(calls[t], calls'[t])
    BY <2>2 DEF Same, IInv, CallGood, SamePlugin, Attached
  <2>3. CASE ~(calls'[t] = Free) /\ ~Same(calls[t], calls'[t])
    BY <2>3 DEF QuietCall, CallGood
  <2> QED BY <2>1, <2>2, <2>3
<1>2. \A t \in Slot : calls'[t].pc = "set_host" => calls[t].pc = "set_host"
  BY FreeCall DEF QuietCall, Same
<1>3. OneDials'
  BY <1>2 DEF IInv, OneDials
<1>4. AttachAgreement'
  BY DEF IInv, AttachAgreement, SamePlugin, Attached
<1>5. NoLeakedConnection'
  BY DEF IInv, NoLeakedConnection, SamePlugin
<1> QED BY <1>1, <1>3, <1>4, <1>5 DEF IInv, SamePlugin

\* The usual case: nothing but one call changes.
LEMMA QuietSlot ==
  ASSUME IInv, NEW s \in Slot, NEW r,
         calls' = [calls EXCEPT ![s] = r],
         QuietCall(calls[s], r),
         calls[s].pc = "set_host" => r.pc = "set_host" /\ r.in = calls[s].in,
         UNCHANGED <<plugin, clients>>
  PROVE  IInv'
<1>1. DOMAIN calls' = Slot /\ calls'[s] = r /\ \A t \in Slot \ {s} : calls'[t] = calls[t]
  BY DEF IInv
<1>2. \A t \in Slot : QuietCall(calls[t], calls'[t])
  BY <1>1 DEF IInv, CallGood, QuietCall, Same
<1>3. \A t \in Slot : calls[t].pc = "set_host" => calls'[t].pc = "set_host"
  BY <1>1
<1>4. \A t \in Slot : calls[t].pc = "set_host" => calls'[t].in = calls[t].in
  BY <1>1
<1>5. SamePlugin
  BY DEF SamePlugin, IInv
<1> QED BY <1>1, <1>2, <1>3, <1>4, <1>5, QuietStep DEF IInv

\* A handler that is not attaching moves on.
LEMMA QuietProceed ==
  ASSUME IInv, NEW s \in Slot, NEW pc, Proceed(s, pc),
         calls[s].in.rpc = "preprocess", calls[s].pc # "set_host",
         pc \notin {"set_host", "reply"}, UNCHANGED <<plugin, clients>>
  PROVE  IInv'
<1> DEFINE r == [calls[s] EXCEPT !.pc = pc]
<1>1. DOMAIN calls[s] = Fields /\ CallGood(calls[s])
  BY DEF IInv, CallGood
<1>2. calls' = [calls EXCEPT ![s] = r]
  BY DEF Proceed
<1>3. DOMAIN r = Fields /\ r.pc = pc /\ r.by = calls[s].by /\ r.in = calls[s].in
  BY <1>1, Moved
<1>4. QuietCall(calls[s], r)
  BY <1>1, <1>3 DEF QuietCall, CallGood
<1> HIDE DEF r
<1> QED BY <1>2, <1>4, QuietSlot

\* A call that is not attaching, or in nobody's name, is answered.
LEMMA QuietReply ==
  ASSUME IInv, NEW s \in Slot, NEW out, Reply(s, out),
         calls[s].pc # "set_host",
         calls[s].by \in Client => ~Applied(out), UNCHANGED <<plugin, clients>>
  PROVE  IInv'
<1> DEFINE r == Replied(calls[s], out)
<1>1. DOMAIN calls[s] = Fields /\ CallGood(calls[s])
  BY DEF IInv, CallGood
<1>2. calls' = [calls EXCEPT ![s] = r]
  BY DEF Reply
<1>3. \/ r = Free
      \/ DOMAIN r = Fields /\ r.pc = "reply" /\ r.by = calls[s].by /\ r.in = calls[s].in
         /\ r.out = out
  BY <1>1, RepliedCall
<1>4. QuietCall(calls[s], r)
  BY <1>1, <1>3 DEF QuietCall, CallGood, Working
<1> HIDE DEF r
<1> QED BY <1>2, <1>4, QuietSlot

----------------------------------------------------------------------------
(* The host's calls.                                                       *)

LEMMA Invoked ==
  ASSUME IInv, NEW s \in Slot, NEW by \in Client \cup {Nobody}, NEW message,
         Invoke(s, by, message),
         by \in Client => message.rpc = "attach" /\ message.broker_id = BrokerId[by],
         plugin' = plugin, clients' \in [Client -> ClientState],
         \A c \in Client : clients'[c].told => clients[c].told
  PROVE  IInv'
<1> DEFINE new == calls'[s]
<1>1. /\ DOMAIN calls' = Slot
      /\ \A t \in Slot \ {s} : calls'[t] = calls[t]
      /\ DOMAIN new = Fields /\ new.pc = "sent" /\ new.by = by /\ new.in = message
      /\ calls[s].pc = "free"
  BY DEF IInv, Invoke, Free, Fields, Busy
<1>2. QuietCall(calls[s], new)
  BY <1>1 DEF QuietCall, Working
<1>3. \A t \in Slot : QuietCall(calls[t], calls'[t])
  BY <1>1, <1>2 DEF IInv, CallGood, QuietCall, Same
<1>4. SamePlugin
  BY DEF SamePlugin, IInv
<1> QED BY <1>1, <1>3, <1>4, QuietStep

LEMMA HostStepKeeps ==
  ASSUME IInv, NEW s \in Slot, HostStep(s)
  PROVE  IInv'
<1> USE ExtensionAssumption
<1>1. ASSUME NEW m \in Services[plugin.kind], CallService(s, m) PROVE IInv'
  BY <1>1, Invoked DEF CallService, IInv
<1>2. ASSUME NEW r \in Inputs[plugin.kind], CallPreprocess(s, r) PROVE IInv'
  BY <1>2, Invoked DEF CallPreprocess, IInv
<1>3. ASSUME NEW m \in Unchecked[plugin.kind], CallUnchecked(s, m) PROVE IInv'
  BY <1>3, Invoked DEF CallUnchecked, IInv
<1>4. ASSUME NEW c \in Client, CallAttachHost(s, c) PROVE IInv'
  <2> DEFINE message == [rpc |-> "attach", broker_id |-> BrokerId[c],
                         host_api_version |-> HostAPIVersion]
  <2>1. Invoke(s, c, message) /\ message.rpc = "attach" /\ message.broker_id = BrokerId[c]
    BY <1>4 DEF CallAttachHost
  <2>2. clients' \in [Client -> ClientState] /\ \A d \in Client : clients'[d].told = clients[d].told
    BY <1>4 DEF CallAttachHost, IInv, ClientState
  <2>3. plugin' = plugin
    BY <1>4 DEF CallAttachHost
  <2> HIDE DEF message
  <2> QED BY <2>1, <2>2, <2>3, Invoked
<1>5. CASE GiveUp(s)
  <2> DEFINE r == IF calls[s].pc = "reply" THEN Free ELSE [calls[s] EXCEPT !.waiting = FALSE]
  <2>1. calls' = [calls EXCEPT ![s] = r] /\ UNCHANGED <<plugin, clients>>
    BY <1>5 DEF GiveUp
  <2>2. DOMAIN calls[s] = Fields
    BY DEF IInv, CallGood
  <2>3. r = Free \/ Same(calls[s], r)
    BY <2>2 DEF Same, Fields
  <2>4. calls[s].pc = "set_host" => r.pc = "set_host" /\ r.in = calls[s].in
    BY <2>2 DEF Fields
  <2> HIDE DEF r
  <2> QED BY <2>1, <2>3, <2>4, QuietSlot DEF QuietCall
<1> QED BY <1>1, <1>2, <1>3, <1>4, <1>5 DEF HostStep

\* A client is told what is true.
LEMMA ReturnKeeps ==
  ASSUME IInv, NEW s \in Slot, Return(s)
  PROVE  IInv'
<1>1. calls' = [calls EXCEPT ![s] = Free] /\ plugin' = plugin /\ calls[s].pc = "reply"
  BY DEF Return
<1>2. /\ clients' \in [Client -> ClientState]
      /\ \A c \in Client : clients'[c].told => clients[c].told
           \/ (calls[s].by = c /\ Applied(calls[s].out))
  BY DEF Return, IInv, ClientState
<1>3. \A c \in Client : clients'[c].told => clients[c].told \/ Attached(c)
  BY <1>1, <1>2 DEF IInv, CallGood
<1>4. \A t \in Slot : QuietCall(calls[t], calls'[t])
  BY <1>1 DEF IInv, CallGood, QuietCall, Same
<1>5. \A t \in Slot : calls[t].pc = "set_host" => calls'[t] = calls[t]
  BY <1>1 DEF IInv
<1>6. DOMAIN calls' = Slot /\ SamePlugin
  BY <1>1 DEF IInv, SamePlugin
<1> QED BY <1>2, <1>3, <1>4, <1>5, <1>6, QuietStep

----------------------------------------------------------------------------
(* The plugin's steps that are not attachments.                            *)

LEMMA ServiceKeeps ==
  ASSUME IInv, NEW s \in Slot, Serve(s) \/ RefuseConfig(s) \/ ApplyConfig(s)
  PROVE  IInv'
<1>1. CallGood(calls[s])
  BY DEF IInv
<1>2. CASE Serve(s)
  <2>1. calls[s].pc # "set_host" /\ calls[s].by \notin Client
    BY <1>1, <1>2 DEF Serve, CallGood
  <2> QED BY <1>2, <2>1, QuietReply DEF Serve
<1>3. CASE RefuseConfig(s)
  <2>1. calls[s].pc # "set_host" /\ calls[s].by \notin Client
    BY <1>1, <1>3 DEF RefuseConfig, Received, CallGood
  <2> QED BY <1>3, <2>1, QuietReply DEF RefuseConfig
<1>4. CASE ApplyConfig(s)
  <2> DEFINE ok == ~plugin.unreadable
             out == [applied |-> ok, message |-> IF ok THEN 0 ELSE 1]
  <2>1. calls[s].pc = "sent" /\ calls[s].by \notin Client
    BY <1>1, <1>4 DEF ApplyConfig, Received, CallGood
  <2>2. DOMAIN calls' = Slot /\ calls'[s] = Replied(calls[s], out)
    <3>1. calls' = [t \in Slot |->
             CASE t = s -> Replied(calls[s], out)
               [] calls[t].in.rpc = "preprocess" ->
                    [calls[t] EXCEPT !.mine = @ \cup {calls[s].in.config_json}]
               [] OTHER -> calls[t]]
      BY <1>4, Zenon DEF ApplyConfig
    <3>2. calls[s].in.rpc # "preprocess"
      BY <1>4 DEF ApplyConfig, Received
    <3> HIDE DEF out
    <3> QED BY <3>1, <3>2
  <2>3. ASSUME NEW t \in Slot, t # s PROVE Same(calls[t], calls'[t])
    <3>1. DOMAIN calls[t] = Fields
      BY DEF IInv, CallGood
    <3>2. \/ calls'[t] = calls[t]
          \/ calls'[t] = [calls[t] EXCEPT !.mine = @ \cup {calls[s].in.config_json}]
      BY <1>4, <2>3 DEF ApplyConfig
    <3> QED BY <3>1, <3>2 DEF Same, Fields
  <2>4. QuietCall(calls[s], calls'[s])
    <3> HIDE DEF out
    <3>1. DOMAIN calls[s] = Fields
      BY DEF IInv, CallGood
    <3> QED BY <3>1, <2>1, <2>2, RepliedCall DEF QuietCall, Working
  <2>5. SamePlugin
    BY <1>4 DEF ApplyConfig, SamePlugin, IInv, PluginFields
  <2>6. clients' = clients
    BY <1>4 DEF ApplyConfig
  <2>7. \A t \in Slot : QuietCall(calls[t], calls'[t])
    BY <2>3, <2>4 DEF QuietCall
  <2>8. \A t \in Slot : calls[t].pc = "set_host" => calls'[t].pc = "set_host" /\ calls'[t].in = calls[t].in
    BY <2>1, <2>3 DEF Same
  <2> QED BY <2>2, <2>5, <2>6, <2>7, <2>8, QuietStep DEF IInv
<1> QED BY <1>2, <1>3, <1>4

LEMMA PreprocessKeeps ==
  ASSUME IInv, NEW s \in Slot,
         RefusePreprocess(s) \/ Preprocess(s) \/ DecidePolicy(s) \/ DelayExpires(s)
  PROVE  IInv'
<1>1. DOMAIN calls[s] = Fields /\ CallGood(calls[s])
  BY DEF IInv, CallGood
<1>2. /\ calls[s].pc # "set_host"
      /\ calls[s].in.rpc = "preprocess"
      /\ calls[s].by \notin Client
      /\ UNCHANGED <<plugin, clients>>
  BY <1>1 DEF RefusePreprocess, Preprocess, DecidePolicy, DelayExpires, Received,
              CallGood, Working
<1>3. CASE RefusePreprocess(s) \/ DecidePolicy(s) \/ DelayExpires(s)
  BY <1>2, <1>3, QuietReply DEF RefusePreprocess, DecidePolicy, DelayExpires
<1>4. CASE Preprocess(s)
  <2>1. CASE plugin.kind = "policy"
    <3> DEFINE r == [calls[s] EXCEPT !.pc = "delay", !.seen = plugin.config]
    <3>1. calls' = [calls EXCEPT ![s] = r]
      BY <1>4, <2>1 DEF Preprocess
    <3>2. DOMAIN r = Fields /\ r.pc = "delay" /\ r.by = calls[s].by /\ r.in = calls[s].in
      BY <1>1 DEF Fields
    <3>3. QuietCall(calls[s], r)
      BY <1>2, <3>2 DEF QuietCall
    <3> HIDE DEF r
    <3> QED BY <1>2, <3>1, <3>3, QuietSlot
  <2>2. CASE plugin.kind = "host-aware"
    <3>1. Reply(s, Error) \/ Proceed(s, "log")
      BY <1>4, <2>2 DEF Preprocess
    <3> QED BY <1>2, <3>1, QuietReply, QuietProceed
  <2>3. CASE plugin.kind = "state-reuse"
    <3>1. Reply(s, ResponseToWire(Pass))
      BY <1>4, <2>3 DEF Preprocess
    <3> QED BY <1>2, <3>1, QuietReply
  <2> QED BY <2>1, <2>2, <2>3, ExtensionAssumption DEF IInv
<1> QED BY <1>3, <1>4

LEMMA HostCallKeeps ==
  ASSUME IInv, NEW s \in Slot,
         \/ HostFails(s) \/ HostAccepts(s) \/ HostSendsConfig(s)
         \/ Compare(s) \/ HostSendsSecret(s)
  PROVE  IInv'
<1>1. DOMAIN calls[s] = Fields /\ CallGood(calls[s])
  BY DEF IInv, CallGood
<1>2. /\ calls[s].pc # "set_host"
      /\ calls[s].in.rpc = "preprocess"
      /\ calls[s].by \notin Client
      /\ UNCHANGED <<plugin, clients>>
  BY <1>1 DEF HostFails, HostAccepts, HostSendsConfig, Compare, HostSendsSecret, Asking,
              HostCalls, CallGood, Working
<1>3. CASE HostFails(s)
  BY <1>2, <1>3, QuietReply DEF HostFails
<1>4. CASE HostAccepts(s)
  <2>1. \/ Proceed(s, "metric") \/ Proceed(s, "config")
        \/ Reply(s, ResponseToWire(Pass))
    BY <1>4 DEF HostAccepts
  <2> QED BY <1>2, <2>1, QuietReply, QuietProceed
<1>5. CASE HostSendsConfig(s)
  <2>1. PICK json : calls' = [calls EXCEPT ![s].pc = "compare", ![s].seen = json]
    BY <1>5 DEF HostSendsConfig
  <2> DEFINE r == [calls[s] EXCEPT !.pc = "compare", !.seen = json]
  <2>2. calls' = [calls EXCEPT ![s] = r]
    BY <2>1
  <2>3. DOMAIN r = Fields /\ r.pc = "compare" /\ r.by = calls[s].by /\ r.in = calls[s].in
    BY <1>1 DEF Fields
  <2>4. QuietCall(calls[s], r)
    BY <1>2, <2>3 DEF QuietCall
  <2> HIDE DEF r
  <2> QED BY <1>2, <2>2, <2>4, QuietSlot
<1>6. CASE Compare(s)
  <2>1. Reply(s, Error) \/ Proceed(s, "publish") \/ Proceed(s, "secret")
    BY <1>6 DEF Compare
  <2> QED BY <1>2, <2>1, QuietReply, QuietProceed
<1>7. CASE HostSendsSecret(s)
  <2>1. Reply(s, ResponseToWire(Decided("deny", 1))) \/ Proceed(s, "publish")
    BY <1>7 DEF HostSendsSecret, Deny
  <2> QED BY <1>2, <2>1, QuietReply, QuietProceed
<1> QED BY <1>3, <1>4, <1>5, <1>6, <1>7

----------------------------------------------------------------------------
(* Attachments.                                                            *)

LEMMA RefuseHostKeeps ==
  ASSUME IInv, NEW s \in Slot, RefuseHost(s)
  PROVE  IInv'
BY QuietReply, NotApplied DEF RefuseHost, Received

\* Nobody else is dialling, and nobody is attached: the mutex is free.
LEMMA DialKeeps ==
  ASSUME IInv, NEW s \in Slot, DialHost(s)
  PROVE  IInv'
<1> DEFINE id == calls[s].in.broker_id
<1>1. /\ calls[s].pc = "sent" /\ calls[s].in.rpc = "attach" /\ id # None
      /\ ~plugin.locked /\ plugin.connection = None
      /\ clients' = clients /\ DOMAIN calls[s] = Fields
  BY DEF DialHost, Received, MayAttach, IInv, CallGood, None
<1>2. /\ DOMAIN calls' = Slot
      /\ \A t \in Slot \ {s} : calls'[t] = calls[t]
      /\ calls'[s] = [calls[s] EXCEPT !.pc = "set_host"]
  BY DEF DialHost, Proceed, IInv
<1>3. /\ DOMAIN calls'[s] = Fields /\ calls'[s].pc = "set_host"
      /\ calls'[s].by = calls[s].by /\ calls'[s].in = calls[s].in
  BY <1>1, <1>2, Moved
<1>4. /\ DOMAIN plugin' = PluginFields /\ plugin'.kind = plugin.kind
      /\ plugin'.locked /\ plugin'.open = plugin.open \cup {id}
      /\ plugin'.connection = None /\ plugin'.services = plugin.services
  BY <1>1 DEF DialHost, IInv, PluginFields
<1>5. \A t \in Slot : calls[t].pc # "set_host"
  BY <1>1 DEF IInv, CallGood
<1>6. ASSUME NEW t \in Slot PROVE CallGood(calls[t])'
  <2>1. CASE t = s
    BY <1>1, <1>3, <1>4, <2>1 DEF IInv, CallGood, Working
  <2>2. CASE t # s
    BY <1>1, <1>2, <1>4, <1>5, <2>2 DEF IInv, CallGood, Attached
  <2> QED BY <2>1, <2>2
<1>7. OneDials'
  BY <1>2, <1>5 DEF OneDials
<1>8. AttachAgreement'
  BY <1>1, <1>4 DEF IInv, AttachAgreement
<1>9. NoLeakedConnection'
  BY <1>1, <1>3, <1>4, <1>5 DEF IInv, NoLeakedConnection
<1> QED BY <1>1, <1>2, <1>4, <1>6, <1>7, <1>8, <1>9 DEF IInv

\* The end of an attachment: the caller is told, if it is still there.
LEMMA EndOfDial ==
  ASSUME IInv, NEW s \in Slot, calls[s].pc = "set_host", NEW out, Reply(s, out)
  PROVE  /\ DOMAIN calls' = Slot
         /\ \A t \in Slot \ {s} : calls'[t] = calls[t] /\ calls[t].pc # "set_host"
         /\ \/ calls'[s] = Free
            \/ /\ DOMAIN calls'[s] = Fields /\ calls'[s].pc = "reply"
               /\ calls'[s].by = calls[s].by /\ calls'[s].in = calls[s].in
               /\ calls'[s].out = out
<1>1. DOMAIN calls[s] = Fields
  BY DEF IInv, CallGood
<1>2. DOMAIN calls' = Slot /\ calls'[s] = Replied(calls[s], out)
      /\ \A t \in Slot \ {s} : calls'[t] = calls[t]
  BY DEF IInv, Reply
<1> QED BY <1>1, <1>2, RepliedCall DEF IInv, OneDials

LEMMA SetHostKeeps ==
  ASSUME IInv, NEW s \in Slot, SetHost(s)
  PROVE  IInv'
<1> DEFINE id == calls[s].in.broker_id
           out == [applied |-> TRUE, message |-> 0]
<1>1. /\ calls[s].pc = "set_host" /\ calls[s].in.rpc = "attach" /\ id # None
      /\ plugin.connection = None /\ clients' = clients /\ Reply(s, out)
      /\ calls[s].by \in Client => id = BrokerId[calls[s].by]
  BY DEF SetHost, IInv, CallGood
<1>2. /\ DOMAIN plugin' = PluginFields /\ plugin'.kind = plugin.kind
      /\ plugin'.open = plugin.open
      /\ plugin'.connection = id /\ plugin'.services = id
  BY DEF SetHost, IInv, PluginFields
<1> HIDE DEF out
<1>3. /\ DOMAIN calls' = Slot
      /\ \A t \in Slot \ {s} : calls'[t] = calls[t] /\ calls[t].pc # "set_host"
      /\ \/ calls'[s] = Free
         \/ /\ DOMAIN calls'[s] = Fields /\ calls'[s].pc = "reply"
            /\ calls'[s].by = calls[s].by /\ calls'[s].in = calls[s].in
  BY <1>1, EndOfDial
<1>4. \A c \in Client : BrokerId[c] # None
  BY ExtensionAssumption DEF None
<1>5. ASSUME NEW t \in Slot PROVE CallGood(calls[t])'
  <2>1. CASE t = s
    BY <1>1, <1>2, <1>3, <2>1, FreeCall, ExtensionAssumption DEF CallGood, Attached, Working
  <2>2. CASE t # s
    BY <1>1, <1>2, <1>3, <1>4, <2>2 DEF IInv, CallGood, Attached
  <2> QED BY <2>1, <2>2
<1>6. OneDials'
  BY <1>3, FreeCall DEF OneDials
<1>7. AttachAgreement'
  BY <1>1, <1>4 DEF IInv, AttachAgreement
<1>8. NoLeakedConnection'
  BY <1>1, <1>2, <1>3 DEF IInv, NoLeakedConnection
<1> QED BY <1>1, <1>2, <1>3, <1>5, <1>6, <1>7, <1>8 DEF IInv

LEMMA RejectHostKeeps ==
  ASSUME IInv, NEW s \in Slot, RejectHost(s)
  PROVE  IInv'
<1> DEFINE id == calls[s].in.broker_id
<1>1. /\ calls[s].pc = "set_host" /\ calls[s].in.rpc = "attach"
      /\ plugin.connection = None /\ clients' = clients /\ Reply(s, Error)
      /\ calls[s].by \in Client => id = BrokerId[calls[s].by]
  BY DEF RejectHost, IInv, CallGood
<1>2. /\ DOMAIN plugin' = PluginFields /\ plugin'.kind = plugin.kind
      /\ plugin'.open = plugin.open \ {id}
      /\ plugin'.connection = None /\ plugin'.services = plugin.services
  BY <1>1 DEF RejectHost, IInv, PluginFields
<1>3. /\ DOMAIN calls' = Slot
      /\ \A t \in Slot \ {s} : calls'[t] = calls[t] /\ calls[t].pc # "set_host"
      /\ \/ calls'[s] = Free
         \/ /\ DOMAIN calls'[s] = Fields /\ calls'[s].pc = "reply"
            /\ calls'[s].by = calls[s].by /\ calls'[s].in = calls[s].in
            /\ calls'[s].out = Error
  BY <1>1, EndOfDial
<1>4. ASSUME NEW t \in Slot PROVE CallGood(calls[t])'
  <2>1. CASE t = s
    BY <1>1, <1>3, <2>1, FreeCall, NotApplied, ExtensionAssumption DEF CallGood, Working
  <2>2. CASE t # s
    BY <1>1, <1>2, <1>3, <2>2 DEF IInv, CallGood, Attached
  <2> QED BY <2>1, <2>2
<1>5. OneDials'
  BY <1>3, FreeCall DEF OneDials
<1>6. AttachAgreement'
  BY <1>1, <1>2 DEF IInv, AttachAgreement
<1>7. NoLeakedConnection'
  <2>1. ASSUME NEW x \in plugin'.open PROVE FALSE
    BY <1>1, <1>2, <1>3, <2>1 DEF IInv, NoLeakedConnection
  <2> QED BY <2>1 DEF NoLeakedConnection
<1> QED BY <1>1, <1>2, <1>3, <1>4, <1>5, <1>6, <1>7 DEF IInv

----------------------------------------------------------------------------
(* A new process, with nothing attached and nothing open.                  *)

LEMMA Afresh ==
  ASSUME DOMAIN plugin = PluginFields, plugin.kind \in Kinds,
         plugin.open = {}, clients = NewClients, calls = [s \in Slot |-> Free]
  PROVE  IInv
<1>1. ASSUME NEW s \in Slot PROVE calls[s] = Free
  OBVIOUS
<1>2. ASSUME NEW s \in Slot PROVE CallGood(calls[s])
  BY <1>1, FreeCall, ExtensionAssumption DEF CallGood, Working
<1>3. OneDials
  BY <1>1, FreeCall DEF OneDials
<1>4. clients \in [Client -> ClientState] /\ \A c \in Client : ~clients[c].told
  BY DEF NewClients, ClientState
<1> QED BY <1>2, <1>3, <1>4 DEF IInv, AttachAgreement, NoLeakedConnection

LEMMA InitGood == Init => IInv
<1> SUFFICES ASSUME Init PROVE IInv
  OBVIOUS
<1>1. PICK kind \in Kinds, info \in Declarations, unreadable \in BOOLEAN :
        plugin = NewPlugin(kind, info, unreadable)
  BY DEF Init
<1>2. DOMAIN plugin = PluginFields /\ plugin.kind \in Kinds /\ plugin.open = {}
  BY <1>1 DEF NewPlugin, PluginFields
<1> QED BY <1>2, Afresh DEF Init

LEMMA CrashKeeps == IInv /\ Crash => IInv'
<1> SUFFICES ASSUME IInv, Crash PROVE IInv'
  OBVIOUS
<1>1. DOMAIN plugin' = PluginFields /\ plugin'.kind \in Kinds /\ plugin'.open = {}
  BY DEF Crash, NewPlugin, PluginFields, IInv
<1>2. clients' = NewClients /\ calls' = [s \in Slot |-> Free]
  BY DEF Crash
<1>3. ASSUME NEW s \in Slot PROVE calls'[s] = Free
  BY <1>2
<1>4. ASSUME NEW s \in Slot PROVE CallGood(calls[s])'
  BY <1>3, FreeCall, ExtensionAssumption DEF CallGood, Working
<1>5. OneDials'
  BY <1>3, FreeCall DEF OneDials
<1>6. clients' \in [Client -> ClientState] /\ \A c \in Client : ~clients'[c].told
  BY <1>2 DEF NewClients, ClientState
<1> QED BY <1>1, <1>2, <1>4, <1>5, <1>6 DEF IInv, AttachAgreement, NoLeakedConnection

LEMMA StepKeeps == IInv /\ [Next]_vars => IInv'
<1> SUFFICES ASSUME IInv, [Next]_vars PROVE IInv'
  OBVIOUS
<1>1. ASSUME NEW s \in Slot, PluginStep(s) PROVE IInv'
  BY <1>1, ServiceKeeps, PreprocessKeeps, HostCallKeeps, RefuseHostKeeps, DialKeeps,
     SetHostKeeps, RejectHostKeeps DEF PluginStep
<1>2. ASSUME NEW s \in Slot, HostStep(s) PROVE IInv'
  BY <1>2, HostStepKeeps
<1>3. ASSUME NEW s \in Slot, Return(s) PROVE IInv'
  BY <1>3, ReturnKeeps
<1>4. CASE Crash
  BY <1>4, CrashKeeps
<1>5. CASE UNCHANGED vars
  BY <1>5 DEF vars, IInv, CallGood, Attached, OneDials, AttachAgreement, NoLeakedConnection
<1> QED BY <1>1, <1>2, <1>3, <1>4, <1>5 DEF Next

\* Whoever was told that it is attached is, and nobody else: AttachHost of
\* handlerServer (v2/host.go:54-100), for any number of clients and calls.
THEOREM AttachedIsAttached == Spec => []AttachAgreement
<1>1. IInv => AttachAgreement
  BY DEF IInv
<1> QED BY <1>1, InitGood, StepKeeps, PTL DEF Spec

\* Every connection that AttachHost has dialled is in use, about to be, or
\* closed again, on each of its ways out.
THEOREM ConnectionsAccounted == Spec => []NoLeakedConnection
<1>1. IInv => NoLeakedConnection
  BY DEF IInv
<1> QED BY <1>1, InitGood, StepKeeps, PTL DEF Spec
=============================================================================
