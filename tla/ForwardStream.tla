--------------------------- MODULE ForwardStream ---------------------------
(***************************************************************************)
(* One request on its way host - plugin - upstream: the bidirectional      *)
(* stream of Plugin.Forward (plugin/main.go) frame by frame.  The host may *)
(* break off at any time, and it sends the request again through another   *)
(* account when the plugin says it has not been sent.                      *)
(* What Forward decides about accounts, slots and tickets is module        *)
(* Plugin's; here such a decision is a choice.                             *)
(***************************************************************************)
EXTENDS Frames

CONSTANTS
  Scope,        \* the accounts in the plugin's configuration
  Input,        \* the frames a host may send
  MaxFrames,    \* bound: frames of one attempt
  MaxBytes,     \* bound: the longest response body
  MaxAttempts   \* how often the host sends a request

ASSUME StreamAssumption ==
  /\ Scope \subseteq Account
  /\ Input \subseteq ForwardRequest
  /\ MaxFrames \in Nat /\ MaxBytes \in Nat
  /\ MaxAttempts \in Nat \ {0}

VARIABLES
  calls,    \* how often the upstream has been called for the host's request
  host,     \* the host's side of the attempt
  sent,     \* the frames the host has sent
  replies,  \* the frames the plugin has sent
  h,        \* the handler
  up        \* the upstream's side of the call

vars == <<calls, host, sent, replies, h, up>>

Outcome == {"pending", "answered", "limited", "refused", "uncertain"}

\* live: the stream's context; seen: the replies read.
Host ==
  [attempt : 1 .. MaxAttempts, outcome : Outcome, live : BOOLEAN,
   closed : BOOLEAN, seen : Nat]

\* taken: the frames received; size: bytes buffered; nread: bytes relayed.
Handler ==
  [pc : {"start", "body", "check", "slot", "gate", "prepare", "do", "await",
         "relay", "limited", "returned"},
   taken : Nat, size : 0 .. BodyLimit, nread : 0 .. MaxBytes]

NoStatus == 0

\* received: bytes of the request; made: bytes of the answer so far.
Upstream ==
  [state : {"none", "working", "streaming", "ended", "broken"},
   status : Status \cup {NoStatus}, received : Nat, made : 0 .. MaxBytes]

Fresh == [pc |-> "start", taken |-> 0, size |-> 0, nread |-> 0]
NoCall == [state |-> "none", status |-> NoStatus, received |-> 0, made |-> 0]

FirstAttempt ==
  [attempt |-> 1, outcome |-> "pending", live |-> TRUE, closed |-> FALSE, seen |-> 0]

Init ==
  /\ calls = 0
  /\ host = FirstAttempt
  /\ sent = <<>> /\ replies = <<>>
  /\ h = Fresh /\ up = NoCall

----------------------------------------------------------------------------
(* The handler.                                                            *)

\* `return` with or without an error: the stream has no further frame.
Returned == [h EXCEPT !.pc = "returned"]

At(pc, next) == h.pc = pc /\ h' = [h EXCEPT !.pc = next]

\* stream.Send.  A frame for a host that has gone is lost, and the handler
\* may or may not be told.
Send(f, next) ==
  \/ /\ host.live
     /\ replies' = Append(replies, f)
     /\ h' = next
  \/ /\ ~host.live
     /\ replies' = replies
     /\ h' \in {next, Returned}

\* errorFrame, `fail`: an error is the handler's last frame.
Fail(requestSent) ==
  Send(ErrorFrame(requestSent), Returned) /\ UNCHANGED <<calls, host, sent, up>>

Recv(f) == h.taken < Len(sent) /\ f = sent[h.taken + 1]
Took == [h EXCEPT !.taken = @ + 1]

\* Mutants: the end of the stream taken for the end of the body; not noticed.
RecvEOFAsEnd ==
  /\ h.pc \in {"start", "body"}
  /\ ~host.live \/ (host.closed /\ h.taken = Len(sent))
  /\ h' = IF h.pc = "body" /\ host.live THEN [h EXCEPT !.pc = "check"] ELSE Returned
  /\ UNCHANGED <<calls, host, sent, replies, up>>

RecvFailsCancelled ==
  /\ h.pc \in {"start", "body"} /\ ~host.live
  /\ h' = Returned
  /\ UNCHANGED <<calls, host, sent, replies, up>>

\* stream.Recv fails: half-closed by the host, or cancelled.
RecvFails ==
  /\ h.pc \in {"start", "body"}
  /\ ~host.live \/ (host.closed /\ h.taken = Len(sent))
  /\ h' = Returned
  /\ UNCHANGED <<calls, host, sent, replies, up>>

StartsRequest(f) == HasStart(f) /\ f.start.url # "foreign"

RecvStart(f) ==
  /\ h.pc = "start" /\ Recv(f)
  /\ StartsRequest(f)
  /\ h' = [Took EXCEPT !.pc = "body"]
  /\ UNCHANGED <<calls, host, sent, replies, up>>

\* invalid_start, invalid_upstream.
RejectStart(f) ==
  /\ h.pc = "start" /\ Recv(f)
  /\ ~StartsRequest(f)
  /\ Send(ErrorFrame(FALSE), [Took EXCEPT !.pc = "returned"])
  /\ UNCHANGED <<calls, host, sent, up>>

RecvEnd(f) ==
  /\ h.pc = "body" /\ Recv(f) /\ GetBodyEnd(f)
  /\ h' = [Took EXCEPT !.pc = "check"]
  /\ UNCHANGED <<calls, host, sent, replies, up>>

\* Mutant: no limit.
RecvChunkUnlimited(f) ==
  /\ h.pc = "body" /\ Recv(f) /\ ~GetBodyEnd(f)
  /\ h' = [Took EXCEPT !.size = @ + GetBodyChunk(f)]
  /\ UNCHANGED <<calls, host, sent, replies, up>>

\* Any other frame counts as a chunk, an empty one if it carries none.
RecvChunk(f) ==
  /\ h.pc = "body" /\ Recv(f) /\ ~GetBodyEnd(f)
  /\ h.size + GetBodyChunk(f) <= BodyLimit
  /\ h' = [Took EXCEPT !.size = @ + GetBodyChunk(f)]
  /\ UNCHANGED <<calls, host, sent, replies, up>>

\* Mutant: refuses the chunk but goes on receiving.
RecvTooMuchGoesOn(f) ==
  /\ h.pc = "body" /\ Recv(f) /\ ~GetBodyEnd(f)
  /\ h.size + GetBodyChunk(f) > BodyLimit
  /\ Send(StartFrame(413), Took)
  /\ UNCHANGED <<calls, host, sent, up>>

\* A 413 of the plugin's own; EndLimited follows.
RecvTooMuch(f) ==
  /\ h.pc = "body" /\ Recv(f) /\ ~GetBodyEnd(f)
  /\ h.size + GetBodyChunk(f) > BodyLimit
  /\ Send(StartFrame(413), [Took EXCEPT !.pc = "limited"])
  /\ UNCHANGED <<calls, host, sent, up>>

EndLimited ==
  /\ h.pc = "limited"
  /\ Send(EndFrame(0), Returned)
  /\ UNCHANGED <<calls, host, sent, up>>

Start == sent[1].start

\* invalid_request, invalid_body (a body that is not JSON), account_outside_scope.
RejectRequest ==
  /\ h.pc = "check"
  /\ Start.method = "malformed" \/ h.size > 0 \/ Start.account_id \notin Scope
  /\ Fail(FALSE)

AcceptRequest ==
  /\ At("check", "slot")
  /\ Start.method # "malformed" /\ Start.account_id \in Scope
  /\ UNCHANGED <<calls, host, sent, replies, up>>

AcquireBusiness == At("slot", "gate") /\ UNCHANGED <<calls, host, sent, replies, up>>

\* account_concurrency_wait_canceled.
WaitCancelled == h.pc = "slot" /\ ~host.live /\ Fail(FALSE)

\* A back-off of the account is running: a 429 of the plugin's own.
RefuseBackoff ==
  /\ h.pc = "gate"
  /\ Send(StartFrame(429), [h EXCEPT !.pc = "limited"])
  /\ UNCHANGED <<calls, host, sent, up>>

PassGate == At("gate", "prepare") /\ UNCHANGED <<calls, host, sent, replies, up>>

Protected == Start.method = "POST" /\ Start.url = "responses"

\* missing_model, invalid_account_proxy.
RejectPrepared ==
  /\ h.pc = "prepare"
  /\ Protected \/ Start.proxy_url = "malformed"
  /\ Fail(FALSE)

\* With or without a ticket the request goes out.
Prepared ==
  /\ At("prepare", "do")
  /\ Start.proxy_url # "malformed"
  /\ UNCHANGED <<calls, host, sent, replies, up>>

\* Mutant: one retry when the connection breaks.
CallAndRetry ==
  /\ h.pc = "do" \/ (h.pc = "await" /\ up.state = "broken")
  /\ h' = [h EXCEPT !.pc = "await"]
  /\ calls' = calls + 1
  /\ up' = [NoCall EXCEPT !.state = "working", !.received = h.size]
  /\ UNCHANGED <<host, sent, replies>>

\* client.Do puts the request on the wire, once: no retry, no redirect.
Call ==
  /\ At("do", "await")
  /\ calls' = calls + 1
  /\ up' = [NoCall EXCEPT !.state = "working", !.received = h.size]
  /\ UNCHANGED <<host, sent, replies>>

\* Mutants: a failed call counts as unsent; the call outlives the stream.
DoFailsUnsent ==
  /\ \/ h.pc = "do"
     \/ h.pc = "await" /\ (~host.live \/ (up.state = "broken" /\ up.status = NoStatus))
  /\ Fail(FALSE)

DoFailsUncancelled ==
  /\ \/ h.pc = "do"
     \/ h.pc = "await" /\ up.state = "broken" /\ up.status = NoStatus
  /\ Fail(TRUE)

\* upstream_transport_error: Do gives up before or after the request is out.
DoFails ==
  /\ \/ h.pc = "do"
     \/ h.pc = "await" /\ (~host.live \/ (up.state = "broken" /\ up.status = NoStatus))
  /\ Fail(TRUE)

RelayStart ==
  /\ h.pc = "await" /\ up.status # NoStatus
  /\ Send(StartFrame(up.status), [h EXCEPT !.pc = "relay"])
  /\ UNCHANGED <<calls, host, sent, up>>

RelayChunk(n) ==
  /\ h.pc = "relay" /\ n \in 1 .. up.made - h.nread
  /\ Send(ChunkFrame(n), [h EXCEPT !.nread = @ + n])
  /\ UNCHANGED <<calls, host, sent, up>>

\* Mutant: every read error counts as the end.
RelayEndAnyError ==
  /\ h.pc = "relay" /\ up.state \in {"ended", "broken"} /\ h.nread = up.made
  /\ Send(EndFrame(h.nread), Returned)
  /\ UNCHANGED <<calls, host, sent, up>>

RelayEnd ==
  /\ h.pc = "relay" /\ up.state = "ended" /\ h.nread = up.made
  /\ Send(EndFrame(h.nread), Returned)
  /\ UNCHANGED <<calls, host, sent, up>>

\* response_read_error: the connection broke or the stream was cancelled.
ReadFails ==
  /\ h.pc = "relay" /\ (up.state = "broken" \/ ~host.live)
  /\ Fail(TRUE)

Forward ==
  \/ RecvFails \/ EndLimited \/ RejectRequest \/ AcceptRequest
  \/ AcquireBusiness \/ WaitCancelled \/ RefuseBackoff \/ PassGate
  \/ RejectPrepared \/ Prepared \/ Call \/ DoFails
  \/ RelayStart \/ RelayEnd \/ ReadFails
  \/ \E f \in Input :
       RecvStart(f) \/ RejectStart(f) \/ RecvEnd(f) \/ RecvChunk(f) \/ RecvTooMuch(f)
  \/ \E n \in 1 .. MaxBytes : RelayChunk(n)

----------------------------------------------------------------------------
(* The upstream.                                                           *)

UpstreamStep ==
  /\ \/ \E s \in Status :
          up.state = "working" /\ up' = [up EXCEPT !.state = "streaming", !.status = s]
     \/ up.state = "streaming" /\ up.made < MaxBytes /\ up' = [up EXCEPT !.made = @ + 1]
     \/ up.state = "streaming" /\ up' = [up EXCEPT !.state = "ended"]
     \/ up.state \in {"working", "streaming"} /\ up' = [up EXCEPT !.state = "broken"]
  /\ UNCHANGED <<calls, host, sent, replies, h>>

----------------------------------------------------------------------------
(* The host.                                                               *)

Pending == host.outcome = "pending"
HasEnded == sent # <<>> /\ GetBodyEnd(sent[Len(sent)])

HostSends(f) ==
  /\ Pending /\ ~host.closed /\ ~HasEnded
  /\ Len(sent) < MaxFrames /\ h.pc # "returned"
  /\ sent' = Append(sent, f)
  /\ UNCHANGED <<calls, host, replies, h, up>>

\* The host half-closes a request it has not completed.
HostCloses ==
  /\ Pending /\ ~host.closed /\ ~HasEnded
  /\ host' = [host EXCEPT !.closed = TRUE]
  /\ UNCHANGED <<calls, sent, replies, h, up>>

\* A timeout of the host, or its client has gone.
HostCancels ==
  /\ Pending
  /\ host' = [host EXCEPT !.outcome = "uncertain", !.live = FALSE]
  /\ UNCHANGED <<calls, sent, replies, h, up>>

Unread(kinds) ==
  /\ Pending /\ host.seen < Len(replies)
  /\ replies[host.seen + 1].frame \in kinds

HostReads ==
  /\ Unread({"start", "body_chunk"})
  /\ host' = [host EXCEPT !.seen = @ + 1]
  /\ UNCHANGED <<calls, sent, replies, h, up>>

Concludes(o) ==
  /\ host' = [host EXCEPT !.outcome = o]
  /\ UNCHANGED <<calls, sent, replies, h, up>>

HostReadsEnd ==
  /\ Unread({"end"})
  /\ Concludes(IF replies[1].status_code \in {413, 429} THEN "limited" ELSE "answered")

UnsentReported == Unread({"error"}) /\ ~replies[host.seen + 1].request_sent

HostGivesUp ==
  \/ Unread({"error"}) /\ replies[host.seen + 1].request_sent /\ Concludes("uncertain")
  \/ UnsentReported /\ Concludes("refused")

\* The stream ended without an end or an error frame.
HostFindsBroken ==
  /\ Pending /\ h.pc = "returned" /\ host.seen = Len(replies)
  /\ Concludes("uncertain")

NewStream ==
  /\ sent' = <<>> /\ replies' = <<>>
  /\ h' = Fresh /\ up' = NoCall

\* The same request through another account.
HostReplays ==
  /\ UnsentReported /\ host.attempt < MaxAttempts
  /\ host' = [FirstAttempt EXCEPT !.attempt = host.attempt + 1]
  /\ NewStream
  /\ calls' = calls

\* The next request, once this one has left the plugin.
NewRequest ==
  /\ ~Pending /\ h.pc = "returned"
  /\ calls' = 0
  /\ host' = FirstAttempt
  /\ NewStream

HostFinishesSending == HostCloses \/ \E f \in Input : HostSends(f)
HostListens == HostReads \/ HostReadsEnd \/ HostGivesUp \/ HostFindsBroken \/ HostReplays

Next == Forward \/ UpstreamStep \/ HostFinishesSending \/ HostListens \/ HostCancels \/ NewRequest

\* The handler runs on, the host sends its frames and reads what there is.
\* Nothing makes the upstream answer.
Fairness ==
  /\ WF_vars(Forward)
  /\ WF_vars(HostFinishesSending)
  /\ WF_vars(HostListens)

Spec == Init /\ [][Next]_vars /\ Fairness

----------------------------------------------------------------------------
(* Properties.                                                             *)

\* Frames and counters keep their types; the body stays within its limit.
TypeOK ==
  /\ calls \in Nat
  /\ host \in Host
  /\ sent \in Seq(Input)
  /\ replies \in Seq(ForwardResponse)
  /\ h \in Handler
  /\ up \in Upstream

\* "start, any number of body_chunk, end" and error for what cannot go on
\* (docs/development.md:36), on every way through Forward and its two refusals
\* of its own: one start, in front; nothing after an end or an error; and an
\* error that calls the request unsent stands alone.
FramesInOrder ==
  \A i \in DOMAIN replies :
    LET f == replies[i] IN
    /\ f.frame = "start" => i = 1
    /\ f.frame \in {"body_chunk", "end"} => replies[1].frame = "start"
    /\ f.frame \in {"end", "error"} => i = Len(replies) /\ h.pc = "returned"
    /\ f.frame = "error" /\ ~f.request_sent => Len(replies) = 1

\* request_sent = false is only said when the upstream was not called
\* (docs/development.md:38), however long ago the error was sent.
RequestSentTruthful ==
  \A i \in DOMAIN replies :
    replies[i].frame = "error" /\ ~replies[i].request_sent => up.state = "none"

\* What the upstream received is what the host sent up to a body_end of the
\* host's: a stream that breaks off never becomes a shorter request.
NothingTruncated ==
  up.state # "none" =>
    /\ GetBodyEnd(sent[h.taken])
    /\ up.received = ChunkBytes(SubSeq(sent, 1, h.taken))

\* An end frame after an upstream's answer: the answer was complete, and every
\* byte of it went out before, once.
EndMeansComplete ==
  \A i \in DOMAIN replies :
    replies[i].frame = "end" /\ up.state # "none" =>
      /\ up.state = "ended"
      /\ replies[i].bytes_received = up.made
      /\ ChunkBytes(replies) = up.made

\* A handler whose stream was cancelled returns, whatever it was waiting for
\* ("cancel DNS, connection, upload and reading with the stream's context",
\* docs/development.md:52), although nothing makes the upstream answer.
CancelledHandlersReturn == ~host.live ~> h.pc = "returned"

\* Only an upstream that is still at work keeps the host waiting: no error path
\* leaves it without a verdict.
OnlyUpstreamDelays == []<>(~Pending \/ up.state \in {"working", "streaming"})

\* Frame by frame, replays and broken streams included, this is one exchange:
\* at most one call, no call after a refusal, no answer without a call.
OneExchange == INSTANCE Exchange WITH outcome <- host.outcome
ImplementsExchange == OneExchange!Spec
=============================================================================
