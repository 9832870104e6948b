---------------------------- MODULE ForwardProofs ----------------------------
(***************************************************************************)
(* Proofs about ForwardStream, for every set of accounts, frames and       *)
(* statuses and every bound: its type invariant, the order of the frames,  *)
(* that request_sent tells the truth, that it implements Exchange, and     *)
(* that neither the request nor the answer is ever cut short unnoticed.    *)
(* Every step is of one of four kinds: the handler moves on silently, it   *)
(* sends a frame, the host or the upstream moves, a request begins anew.   *)
(* One lemma for each kind carries the invariant.                          *)
(***************************************************************************)
EXTENDS ForwardStream, WellFoundedInduction, TLAPS

\* Before the upstream is called.
Early == {"start", "body", "check", "slot", "gate", "prepare", "do"}

\* The upstream is called once, and only after all the early checks.
CallInv ==
  /\ calls = IF up.state = "none" THEN 0 ELSE 1
  /\ h.pc \in Early \cup {"limited"} => up.state = "none"
  /\ h.pc \in {"await", "relay"} => up.state # "none"

\* Nothing is sent before the call or a refusal; a start frame is not lost on a
\* host that is still there; an answer of the upstream's tells of a call.
ReplyInv ==
  /\ h.pc \in Early \cup {"await"} => replies = <<>>
  /\ h.pc \in {"relay", "limited"} /\ host.live => replies # <<>> /\ replies[1].frame = "start"
  /\ \A i \in DOMAIN replies :
       replies[i].frame = "start" /\ replies[i].status_code \notin {413, 429}
         => up.state # "none"

\* What the host has concluded stays true.
OutcomeInv ==
  /\ host.outcome \in {"answered", "limited", "refused"} => h.pc = "returned"
  /\ host.outcome = "answered" => calls = 1
  /\ host.outcome = "refused" => calls = 0

IInv ==
  /\ TypeOK /\ CallInv /\ ReplyInv /\ OutcomeInv
  /\ FramesInOrder /\ RequestSentTruthful

----------------------------------------------------------------------------
(* Sequences and frames.                                                   *)

LEMMA AppendProperties ==
  ASSUME NEW S, NEW s \in Seq(S), NEW e \in S
  PROVE  /\ Append(s, e) \in Seq(S)
         /\ Len(Append(s, e)) = Len(s) + 1
         /\ \A i \in 1 .. Len(s) : Append(s, e)[i] = s[i]
         /\ Append(s, e)[Len(s) + 1] = e
         /\ Append(s, e) # <<>>
  OBVIOUS

LEMMA FrameTypes ==
         /\ \A s \in Status : StartFrame(s) \in ForwardResponse
         /\ \A n \in Nat \ {0} : ChunkFrame(n) \in ForwardResponse
         /\ \A n \in Nat : EndFrame(n) \in ForwardResponse
         /\ \A b \in BOOLEAN : ErrorFrame(b) \in ForwardResponse
  BY DEF StartFrame, ChunkFrame, EndFrame, ErrorFrame, ForwardResponse,
         ForwardResponseStart, ForwardResponseChunk, ForwardResponseEnd, ForwardResponseError

LEMMA ChunkIsNat ==
  ASSUME NEW f \in Input
  PROVE  GetBodyChunk(f) \in Nat
  BY StreamAssumption DEF GetBodyChunk, ForwardRequest

LEMMA MoveTo ==
  ASSUME NEW x \in Handler, NEW pc,
         pc \in {"start", "body", "check", "slot", "gate", "prepare", "do", "await",
                "relay", "limited", "returned"}
  PROVE  [x EXCEPT !.pc = pc] \in Handler /\ [x EXCEPT !.pc = pc].pc = pc
  BY DEF Handler

LEMMA TookType ==
  ASSUME TypeOK
  PROVE  Took \in Handler /\ Took.pc = h.pc /\ Took.size = h.size
  BY DEF TypeOK, Handler, Took

----------------------------------------------------------------------------
(* The kinds of steps.                                                     *)

\* The handler goes from one early point to another, or returns.
LEMMA SilentStep ==
  ASSUME IInv, h' \in Handler,
         UNCHANGED <<calls, host, sent, replies, up>>,
         h.pc \in Early, h'.pc \in Early \cup {"returned"}
  PROVE  IInv'
  <1>1. TypeOK'
    BY DEF IInv, TypeOK
  <1>2. CallInv' /\ ReplyInv' /\ OutcomeInv'
    BY DEF IInv, CallInv, ReplyInv, OutcomeInv, Early
  <1>3. FramesInOrder' /\ RequestSentTruthful'
    BY DEF IInv, ReplyInv, FramesInOrder, RequestSentTruthful
  <1> QED
    BY <1>1, <1>2, <1>3 DEF IInv

\* The handler sends a frame that fits what it has sent and what it has done.
Fitting(f, next) ==
  /\ f.frame = "start" => replies = <<>>
  /\ f.frame = "start" /\ f.status_code \notin {413, 429} => up.state # "none"
  /\ f.frame \in {"body_chunk", "end"} => h.pc \in {"relay", "limited"}
  /\ f.frame \in {"end", "error"} => next.pc = "returned"
  /\ f.frame = "error" /\ ~f.request_sent => replies = <<>> /\ up.state = "none"
  /\ next.pc \in {"relay", "limited", "returned"}
  /\ next.pc = "limited" => f.frame = "start" /\ up.state = "none"
  /\ next.pc = "relay" => f.frame \in {"start", "body_chunk"} /\ up.state # "none"

LEMMA SendStep ==
  ASSUME IInv, NEW f \in ForwardResponse, NEW next \in Handler,
         h.pc # "returned", Fitting(f, next), Send(f, next),
         UNCHANGED <<calls, host, sent, up>>
  PROVE  IInv'
  <1>r. Returned \in Handler /\ Returned.pc = "returned"
    BY DEF IInv, TypeOK, Handler, Returned
  <1>1. CASE host.live /\ replies' = Append(replies, f) /\ h' = next
    <2>a. /\ replies' \in Seq(ForwardResponse) /\ Len(replies') = Len(replies) + 1
          /\ \A i \in 1 .. Len(replies) : replies'[i] = replies[i]
          /\ replies'[Len(replies) + 1] = f /\ replies' # <<>>
      BY <1>1, AppendProperties DEF IInv, TypeOK
    <2>b. /\ DOMAIN replies = 1 .. Len(replies) /\ Len(replies) \in Nat
          /\ DOMAIN replies' = 1 .. Len(replies) + 1
          /\ replies = <<>> => Len(replies) = 0
          /\ replies # <<>> => Len(replies) >= 1
      BY <2>a DEF IInv, TypeOK
    <2>c. \A i \in DOMAIN replies' :
            \/ i \in DOMAIN replies /\ replies'[i] = replies[i]
            \/ i = Len(replies) + 1 /\ replies'[i] = f
      BY <2>a, <2>b
    <2>d. f.frame # "start" /\ h.pc \in {"relay", "limited"} => replies'[1].frame = "start"
      BY <1>1, <2>a, <2>b DEF IInv, ReplyInv
    <2>e. f.frame = "start" => replies'[1].frame = "start"
      BY <2>a, <2>b DEF Fitting
    <2>f. \A i \in DOMAIN replies : replies[i].frame \notin {"end", "error"}
      BY DEF IInv, FramesInOrder
    <2>1. TypeOK'
      BY <1>1, <2>a DEF IInv, TypeOK
    <2>2. CallInv'
      BY <1>1 DEF IInv, CallInv, Fitting, Early
    <2>3. ReplyInv'
      <3>1. h'.pc \notin Early \cup {"await"}
        BY <1>1 DEF Fitting, Early
      <3>2. h'.pc \in {"relay", "limited"} => replies'[1].frame = "start"
        <4>1. CASE f.frame = "start"
          BY <4>1, <2>e
        <4>2. CASE f.frame # "start" /\ h'.pc \in {"relay", "limited"}
          BY <4>2, <1>1, <2>d DEF Fitting
        <4> QED
          BY <4>1, <4>2
      <3>3. ASSUME NEW i \in DOMAIN replies', replies'[i].frame = "start",
                   replies'[i].status_code \notin {413, 429}
            PROVE  up.state # "none"
        BY <3>3, <2>c DEF IInv, ReplyInv, Fitting
      <3> QED
        BY <2>a, <3>1, <3>2, <3>3 DEF ReplyInv
    <2>4. OutcomeInv'
      BY DEF IInv, OutcomeInv
    <2>5. FramesInOrder'
      <3> SUFFICES ASSUME NEW i \in DOMAIN replies'
                   PROVE  /\ replies'[i].frame = "start" => i = 1
                          /\ replies'[i].frame \in {"body_chunk", "end"}
                               => replies'[1].frame = "start"
                          /\ replies'[i].frame \in {"end", "error"}
                               => i = Len(replies') /\ h'.pc = "returned"
                          /\ replies'[i].frame = "error" /\ ~replies'[i].request_sent
                               => Len(replies') = 1
        BY DEF FramesInOrder
      <3>1. CASE i \in DOMAIN replies /\ replies'[i] = replies[i]
        <4>1. 1 \in DOMAIN replies /\ replies'[1] = replies[1]
          BY <3>1, <2>a, <2>b
        <4> QED
          BY <3>1, <4>1, <2>f DEF IInv, FramesInOrder
      <3>2. CASE i = Len(replies) + 1 /\ replies'[i] = f
        BY <1>1, <3>2, <2>a, <2>b, <2>d DEF Fitting
      <3> QED
        BY <2>c, <3>1, <3>2
    <2>6. RequestSentTruthful'
      BY <2>c, <2>f DEF RequestSentTruthful, Fitting
    <2> QED
      BY <2>1, <2>2, <2>3, <2>4, <2>5, <2>6 DEF IInv
  <1>2. CASE ~host.live /\ replies' = replies /\ h' \in {next, Returned}
    <2>1. h' \in Handler /\ h'.pc \in {next.pc, "returned"}
      BY <1>2, <1>r
    <2>2. TypeOK'
      BY <1>2, <2>1 DEF IInv, TypeOK
    <2>3. CallInv' /\ OutcomeInv'
      BY <2>1 DEF IInv, CallInv, OutcomeInv, Fitting, Early
    <2>4. ReplyInv'
      BY <1>2, <2>1 DEF IInv, ReplyInv, Fitting, Early
    <2>5. FramesInOrder' /\ RequestSentTruthful'
      BY <1>2, <2>1 DEF IInv, FramesInOrder, RequestSentTruthful
    <2> QED
      BY <2>2, <2>3, <2>4, <2>5 DEF IInv
  <1> QED
    BY <1>1, <1>2 DEF Send

\* The host moves: nothing is undone, and what it concludes is so.
LEMMA HostStep ==
  ASSUME IInv, host' \in Host, sent' \in Seq(Input),
         UNCHANGED <<calls, replies, h, up>>,
         host'.live => host.live,
         \/ host'.outcome = host.outcome
         \/ host'.outcome \in {"pending", "uncertain"}
         \/ host'.outcome = "limited" /\ h.pc = "returned"
         \/ host'.outcome = "answered" /\ h.pc = "returned" /\ calls = 1
         \/ host'.outcome = "refused" /\ h.pc = "returned" /\ calls = 0
  PROVE  IInv'
  <1>1. TypeOK' /\ CallInv' /\ ReplyInv'
    BY DEF IInv, TypeOK, CallInv, ReplyInv
  <1>2. OutcomeInv'
    BY DEF IInv, OutcomeInv
  <1>3. FramesInOrder' /\ RequestSentTruthful'
    BY DEF IInv, FramesInOrder, RequestSentTruthful
  <1> QED
    BY <1>1, <1>2, <1>3 DEF IInv

\* A request or an attempt begins.
LEMMA FreshStep ==
  ASSUME NewStream, host' \in Host, host'.outcome = "pending", calls' = 0
  PROVE  IInv'
  <1>1. TypeOK'
    BY StreamAssumption, FramesAssumption
    DEF NewStream, TypeOK, Fresh, NoCall, Handler, Upstream, NoStatus
  <1>2. CallInv' /\ ReplyInv' /\ OutcomeInv'
    BY DEF NewStream, CallInv, ReplyInv, OutcomeInv, Fresh, NoCall, Early
  <1>3. FramesInOrder' /\ RequestSentTruthful'
    BY DEF NewStream, FramesInOrder, RequestSentTruthful
  <1> QED
    BY <1>1, <1>2, <1>3 DEF IInv
----------------------------------------------------------------------------
(* The invariant.                                                          *)

LEMMA InitInv == Init => IInv
  <1> SUFFICES ASSUME Init PROVE IInv
    OBVIOUS
  <1>1. TypeOK
    BY StreamAssumption, FramesAssumption
    DEF Init, TypeOK, FirstAttempt, Host, Outcome, Fresh, NoCall, Handler, Upstream, NoStatus
  <1>2. CallInv /\ ReplyInv /\ OutcomeInv
    BY DEF Init, CallInv, ReplyInv, OutcomeInv, FirstAttempt, Fresh, NoCall, Early
  <1>3. FramesInOrder /\ RequestSentTruthful
    BY DEF Init, FramesInOrder, RequestSentTruthful
  <1> QED
    BY <1>1, <1>2, <1>3 DEF IInv

\* Receiving the request.
LEMMA RecvInv ==
  ASSUME IInv, NEW f \in Input,
         \/ RecvStart(f) \/ RejectStart(f) \/ RecvEnd(f) \/ RecvChunk(f) \/ RecvTooMuch(f)
  PROVE  IInv'
  <1>t. TypeOK /\ Took \in Handler /\ Took.pc = h.pc /\ Took.size = h.size /\ h \in Handler
    BY TookType DEF IInv, TypeOK
  <1>2. CASE RecvStart(f)
    BY <1>2, <1>t, SilentStep, MoveTo DEF RecvStart, Early
  <1>3. CASE RejectStart(f)
    <2> DEFINE next == [Took EXCEPT !.pc = "returned"]
    <2>1. next \in Handler /\ next.pc = "returned"
      BY <1>t, MoveTo
    <2>2. Fitting(ErrorFrame(FALSE), next)
      BY <1>3, <2>1 DEF RejectStart, Fitting, ErrorFrame, IInv, CallInv, ReplyInv, Early
    <2> QED
      BY <1>3, <2>1, <2>2, FrameTypes, SendStep DEF RejectStart
  <1>4. CASE RecvEnd(f)
    BY <1>4, <1>t, SilentStep, MoveTo DEF RecvEnd, Early
  <1>5. CASE RecvChunk(f)
    <2> DEFINE size == h.size + GetBodyChunk(f)
    <2>a. h' = [Took EXCEPT !.size = size] /\ Took.pc = "body"
      BY <1>5, <1>t DEF RecvChunk
    <2>b. size \in 0 .. BodyLimit
      BY <1>5, <1>t, ChunkIsNat, FramesAssumption DEF RecvChunk, Handler
    <2>1. h' \in Handler /\ h'.pc = "body"
      <3> HIDE DEF size
      <3> QED
        BY <2>a, <2>b, <1>t DEF Handler
    <2> QED
      BY <1>5, <2>1, SilentStep DEF RecvChunk, Early
  <1>6. CASE RecvTooMuch(f)
    <2> DEFINE next == [Took EXCEPT !.pc = "limited"]
    <2>1. next \in Handler /\ next.pc = "limited"
      BY <1>t, MoveTo
    <2>2. Fitting(StartFrame(413), next)
      BY <1>6, <2>1 DEF RecvTooMuch, Fitting, StartFrame, IInv, CallInv, ReplyInv, Early
    <2> QED
      BY <1>6, <2>1, <2>2, FrameTypes, FramesAssumption, SendStep DEF RecvTooMuch
  <1> QED
    BY <1>2, <1>3, <1>4, <1>5, <1>6

\* The checks, the slot and the back-off, and the preparation.
LEMMA CheckInv ==
  ASSUME IInv,
         \/ EndLimited \/ RejectRequest \/ AcceptRequest \/ AcquireBusiness \/ WaitCancelled
         \/ RefuseBackoff \/ PassGate \/ RejectPrepared \/ Prepared
  PROVE  IInv'
  <1>t. h \in Handler
    BY DEF IInv, TypeOK
  <1>r. Returned \in Handler /\ Returned.pc = "returned"
    BY <1>t, MoveTo DEF Returned
  <1>1. CASE EndLimited
    <2>1. Fitting(EndFrame(0), Returned)
      BY <1>1, <1>r DEF EndLimited, Fitting, EndFrame
    <2> QED
      BY <1>1, <2>1, <1>r, FrameTypes, SendStep DEF EndLimited
  <1>2. CASE RejectRequest \/ WaitCancelled \/ RejectPrepared
    <2>1. Fail(FALSE) /\ h.pc \in Early
      BY <1>2 DEF RejectRequest, WaitCancelled, RejectPrepared, Early
    <2>2. Fitting(ErrorFrame(FALSE), Returned)
      BY <2>1, <1>r DEF Fitting, ErrorFrame, IInv, CallInv, ReplyInv
    <2>3. h.pc # "returned"
      BY <2>1 DEF Early
    <2> QED
      BY <2>1, <2>2, <2>3, <1>r, FrameTypes, SendStep DEF Fail
  <1>3. CASE AcceptRequest \/ AcquireBusiness \/ PassGate \/ Prepared
    <2>1. /\ UNCHANGED <<calls, host, sent, replies, up>>
          /\ h.pc \in Early /\ \E pc \in Early : h' = [h EXCEPT !.pc = pc]
      BY <1>3 DEF AcceptRequest, AcquireBusiness, PassGate, Prepared, At, Early
    <2>2. h' \in Handler /\ h'.pc \in Early
      BY <2>1, <1>t, MoveTo DEF Early
    <2> QED
      BY <2>1, <2>2, SilentStep
  <1>4. CASE RefuseBackoff
    <2> DEFINE next == [h EXCEPT !.pc = "limited"]
    <2>1. next \in Handler /\ next.pc = "limited"
      BY <1>t, MoveTo
    <2>2. Fitting(StartFrame(429), next)
      BY <1>4, <2>1 DEF RefuseBackoff, Fitting, StartFrame, IInv, CallInv, ReplyInv, Early
    <2> QED
      BY <1>4, <2>1, <2>2, FrameTypes, FramesAssumption, SendStep DEF RefuseBackoff
  <1> QED
    BY <1>1, <1>2, <1>3, <1>4

\* The call itself.
LEMMA CallKeepsInv ==
  ASSUME IInv, Call
  PROVE  IInv'
  <1>1. h.pc = "do" /\ up.state = "none" /\ calls = 0 /\ replies = <<>>
    BY DEF Call, At, IInv, CallInv, ReplyInv, Early
  <1>2. h' \in Handler /\ h'.pc = "await"
    BY MoveTo DEF Call, At, IInv, TypeOK
  <1>3. up' \in Upstream /\ up'.state = "working"
    <2>1. up' = [state |-> "working", status |-> NoStatus, received |-> h.size, made |-> 0]
      BY DEF Call, NoCall
    <2> QED
      BY <2>1, StreamAssumption, FramesAssumption DEF Upstream, IInv, TypeOK, Handler
  <1>4. TypeOK'
    BY <1>2, <1>3 DEF Call, IInv, TypeOK
  <1>5. CallInv' /\ ReplyInv' /\ OutcomeInv'
    BY <1>1, <1>2, <1>3 DEF Call, IInv, CallInv, ReplyInv, OutcomeInv, Early
  <1>6. FramesInOrder' /\ RequestSentTruthful'
    BY <1>1 DEF Call, FramesInOrder, RequestSentTruthful
  <1> QED
    BY <1>4, <1>5, <1>6 DEF IInv

\* The answer, or its failure.
LEMMA RelayInv ==
  ASSUME IInv,
         \/ DoFails \/ RelayStart \/ RelayEnd \/ ReadFails
         \/ \E n \in 1 .. MaxBytes : RelayChunk(n)
  PROVE  IInv'
  <1>t. h \in Handler /\ up \in Upstream
    BY DEF IInv, TypeOK
  <1>r. Returned \in Handler /\ Returned.pc = "returned"
    BY <1>t, MoveTo DEF Returned
  <1>1. CASE DoFails \/ ReadFails
    <2>1. Fail(TRUE) /\ h.pc # "returned"
      BY <1>1 DEF DoFails, ReadFails
    <2>2. Fitting(ErrorFrame(TRUE), Returned)
      BY <1>r DEF Fitting, ErrorFrame
    <2> QED
      BY <2>1, <2>2, <1>r, FrameTypes, SendStep DEF Fail
  <1>2. CASE RelayStart
    <2> DEFINE next == [h EXCEPT !.pc = "relay"]
    <2>1. next \in Handler /\ next.pc = "relay"
      BY <1>t, MoveTo
    <2>2. Fitting(StartFrame(up.status), next)
      BY <1>2, <2>1 DEF RelayStart, Fitting, StartFrame, IInv, CallInv, ReplyInv
    <2>3. up.status \in Status
      BY <1>2, <1>t DEF RelayStart, Upstream
    <2> QED
      BY <1>2, <2>1, <2>2, <2>3, FrameTypes, SendStep DEF RelayStart
  <1>3. CASE RelayEnd
    <2>1. Fitting(EndFrame(h.nread), Returned) /\ h.nread \in Nat
      BY <1>3, <1>t, <1>r, StreamAssumption DEF RelayEnd, Fitting, EndFrame, Handler
    <2> QED
      BY <1>3, <2>1, <1>r, FrameTypes, SendStep DEF RelayEnd
  <1>4. ASSUME NEW n \in 1 .. MaxBytes, RelayChunk(n)
        PROVE  IInv'
    <2> DEFINE next == [h EXCEPT !.nread = @ + n]
    <2>1. next \in Handler /\ next.pc = "relay" /\ n \in Nat \ {0}
      BY <1>4, <1>t, StreamAssumption DEF RelayChunk, Handler, Upstream
    <2>2. Fitting(ChunkFrame(n), next)
      BY <1>4, <2>1 DEF RelayChunk, Fitting, ChunkFrame, IInv, CallInv
    <2> QED
      BY <1>4, <2>1, <2>2, FrameTypes, SendStep DEF RelayChunk
  <1> QED
    BY <1>1, <1>2, <1>3, <1>4

LEMMA UpstreamInv ==
  ASSUME IInv, UpstreamStep
  PROVE  IInv'
  <1>1. up' \in Upstream /\ up.state # "none" /\ up'.state # "none"
    <2>t. up \in Upstream
      BY DEF IInv, TypeOK
    <2>1. ASSUME NEW s \in Status, up.state = "working",
                 up' = [up EXCEPT !.state = "streaming", !.status = s]
          PROVE  up' \in Upstream /\ up'.state = "streaming"
      BY <2>1, <2>t DEF Upstream
    <2>2. ASSUME up.state = "streaming", up.made < MaxBytes, up' = [up EXCEPT !.made = @ + 1]
          PROVE  up' \in Upstream /\ up'.state = "streaming"
      <3>1. up.made + 1 \in 0 .. MaxBytes
        BY <2>2, <2>t, StreamAssumption DEF Upstream
      <3> QED
        BY <2>2, <3>1, <2>t DEF Upstream
    <2>3. ASSUME NEW state \in {"ended", "broken"}, up' = [up EXCEPT !.state = state]
          PROVE  up' \in Upstream /\ up'.state = state
      BY <2>3, <2>t DEF Upstream
    <2> QED
      BY <2>1, <2>2, <2>3 DEF UpstreamStep
  <1>2. TypeOK' /\ CallInv' /\ OutcomeInv'
    BY <1>1 DEF UpstreamStep, IInv, TypeOK, CallInv, OutcomeInv
  <1>3. ReplyInv' /\ FramesInOrder' /\ RequestSentTruthful'
    BY <1>1 DEF UpstreamStep, IInv, ReplyInv, FramesInOrder, RequestSentTruthful
  <1> QED
    BY <1>2, <1>3 DEF IInv

\* What the host reads at the end of an attempt: a complete answer comes from a
\* call, and after an error that calls the request unsent there was none.
LEMMA Verdicts ==
  ASSUME IInv
  PROVE  /\ Unread({"end"}) => h.pc = "returned"
         /\ Unread({"end"}) /\ replies[1].status_code \notin {413, 429} => calls = 1
         /\ UnsentReported => h.pc = "returned" /\ calls = 0
  <1>1. (Unread({"end"}) \/ UnsentReported) =>
          /\ DOMAIN replies = 1 .. Len(replies)
          /\ host.seen + 1 \in 1 .. Len(replies)
          /\ 1 \in DOMAIN replies
    BY DEF IInv, TypeOK, Host, Unread, UnsentReported
  <1> QED
    BY <1>1 DEF IInv, CallInv, ReplyInv, FramesInOrder, RequestSentTruthful, Unread, UnsentReported

LEMMA LaterAttempt ==
  ASSUME NEW n \in 1 .. MaxAttempts
  PROVE  /\ [FirstAttempt EXCEPT !.attempt = n] \in Host
         /\ [FirstAttempt EXCEPT !.attempt = n].outcome = "pending"
  BY DEF FirstAttempt, Host, Outcome

LEMMA HostInv ==
  ASSUME IInv, HostFinishesSending \/ HostListens \/ HostCancels \/ NewRequest
  PROVE  IInv'
  <1>t. host \in Host /\ sent \in Seq(Input) /\ FirstAttempt \in Host
          /\ FirstAttempt.outcome = "pending"
    BY StreamAssumption DEF IInv, TypeOK, FirstAttempt, Host, Outcome
  <1>1. ASSUME NEW f \in Input, HostSends(f)
        PROVE  IInv'
    <2>1. sent' \in Seq(Input)
      BY <1>1, <1>t, AppendProperties DEF HostSends
    <2> QED
      BY <1>1, <2>1, <1>t, HostStep DEF HostSends
  <1>2. CASE HostCloses \/ HostReads \/ HostCancels
    <2>1. /\ host' \in Host /\ sent' = sent /\ UNCHANGED <<calls, replies, h, up>>
          /\ host'.live => host.live
          /\ host'.outcome \in {host.outcome, "uncertain"}
      <3>1. CASE HostCloses
        BY <3>1, <1>t DEF HostCloses, Host
      <3>2. CASE HostReads
        BY <3>2, <1>t DEF HostReads, Host
      <3>3. CASE HostCancels
        <4>1. host' = [attempt |-> host.attempt, outcome |-> "uncertain", live |-> FALSE,
                       closed |-> host.closed, seen |-> host.seen]
          BY <3>3, <1>t DEF HostCancels, Host
        <4> QED
          BY <3>3, <4>1, <1>t DEF HostCancels, Host, Outcome
      <3> QED
        BY <1>2, <3>1, <3>2, <3>3
    <2> QED
      BY <2>1, <1>t, HostStep
  <1>3. ASSUME NEW o \in Outcome, Concludes(o),
               \/ o = "uncertain"
               \/ o = "limited" /\ h.pc = "returned"
               \/ o = "answered" /\ h.pc = "returned" /\ calls = 1
               \/ o = "refused" /\ h.pc = "returned" /\ calls = 0
        PROVE  IInv'
    <2>1. /\ host' \in Host /\ sent' = sent /\ UNCHANGED <<calls, replies, h, up>>
          /\ host'.live = host.live /\ host'.outcome = o
      BY <1>3, <1>t DEF Concludes, Host
    <2> QED
      BY <1>3, <2>1, <1>t, HostStep
  <1>4. CASE HostReadsEnd
    <2>1. CASE replies[1].status_code \in {413, 429}
      BY <1>4, <2>1, <1>3, Verdicts DEF HostReadsEnd, Outcome
    <2>2. CASE replies[1].status_code \notin {413, 429}
      BY <1>4, <2>2, <1>3, Verdicts DEF HostReadsEnd, Outcome
    <2> QED
      BY <2>1, <2>2
  <1>5. CASE HostGivesUp \/ HostFindsBroken
    BY <1>5, <1>3, Verdicts DEF HostGivesUp, HostFindsBroken, Outcome
  <1>6. CASE HostReplays
    <2> DEFINE again == [FirstAttempt EXCEPT !.attempt = host.attempt + 1]
    <2>1. again \in Host /\ again.outcome = "pending"
      <3>1. host.attempt + 1 \in 1 .. MaxAttempts
        BY <1>6, <1>t, StreamAssumption DEF HostReplays, Host
      <3> QED
        BY <3>1, LaterAttempt
    <2> QED
      BY <1>6, <2>1, Verdicts, FreshStep DEF HostReplays
  <1>7. CASE NewRequest
    BY <1>7, <1>t, FreshStep DEF NewRequest
  <1> QED
    BY <1>1, <1>2, <1>4, <1>5, <1>6, <1>7 DEF HostFinishesSending, HostListens

LEMMA NextInv == IInv /\ [Next]_vars => IInv'
  <1> SUFFICES ASSUME IInv, [Next]_vars PROVE IInv'
    OBVIOUS
  <1>1. CASE Forward
    <2>1. CASE \/ EndLimited \/ RejectRequest \/ AcceptRequest \/ AcquireBusiness
               \/ WaitCancelled \/ RefuseBackoff \/ PassGate \/ RejectPrepared \/ Prepared
      BY <2>1, CheckInv
    <2>2. CASE Call
      BY <2>2, CallKeepsInv
    <2>3. CASE \/ DoFails \/ RelayStart \/ RelayEnd \/ ReadFails
               \/ \E n \in 1 .. MaxBytes : RelayChunk(n)
      BY <2>3, RelayInv
    <2>4. CASE \E f \in Input : \/ RecvStart(f) \/ RejectStart(f) \/ RecvEnd(f)
                               \/ RecvChunk(f) \/ RecvTooMuch(f)
      BY <2>4, RecvInv
    <2>5. CASE RecvFails
      <3>1. Returned \in Handler /\ Returned.pc = "returned"
        BY MoveTo DEF IInv, TypeOK, Returned
      <3> QED
        BY <2>5, <3>1, SilentStep DEF RecvFails, Early
    <2> QED
      BY <1>1, <2>1, <2>2, <2>3, <2>4, <2>5 DEF Forward
  <1>2. CASE UpstreamStep
    BY <1>2, UpstreamInv
  <1>3. CASE HostFinishesSending \/ HostListens \/ HostCancels \/ NewRequest
    BY <1>3, HostInv
  <1>4. CASE UNCHANGED vars
    BY <1>4 DEF vars, IInv, TypeOK, CallInv, ReplyInv, OutcomeInv, FramesInOrder,
                RequestSentTruthful
  <1> QED
    BY <1>1, <1>2, <1>3, <1>4 DEF Next

LEMMA Invariance == Spec => []IInv
  BY InitInv, NextInv, PTL DEF Spec

----------------------------------------------------------------------------
(* The results.                                                            *)

\* Frames, counters and buffers keep their types through the whole stream, and
\* no more than BodyLimit bytes are ever buffered (Forward, main.go:498-516).
THEOREM TypesKept == Spec => []TypeOK
  <1>1. IInv => TypeOK
    BY DEF IInv
  <1> QED
    BY <1>1, Invariance, PTL

\* On every way through Forward the frames keep the documented order.
THEOREM OrderKept == Spec => []FramesInOrder
  <1>1. IInv => FramesInOrder
    BY DEF IInv
  <1> QED
    BY <1>1, Invariance, PTL

\* A request that is reported unsent was not sent, and never will be: the host
\* may send it again.
THEOREM UnsentIsUnsent == Spec => []RequestSentTruthful
  <1>1. IInv => RequestSentTruthful
    BY DEF IInv
  <1> QED
    BY <1>1, Invariance, PTL

\* The stream implements the exchange: however many attempts, at most one call.
THEOREM StreamImplementsExchange == Spec => ImplementsExchange
  <1>1. Init => OneExchange!Init
    BY DEF Init, FirstAttempt, OneExchange!Init
  <1>2. IInv /\ [Next]_vars => [OneExchange!Next]_<<calls, host.outcome>>
    <2> SUFFICES ASSUME IInv, [Next]_vars
                 PROVE  [OneExchange!Next]_<<calls, host.outcome>>
      OBVIOUS
    <2>t. host \in Host /\ host.outcome \in Outcome
      BY DEF IInv, TypeOK, Host
    <2>1. CASE Call
      BY <2>1, <2>t DEF Call, At, IInv, Outcome, CallInv, OutcomeInv, Early,
                        OneExchange!Next, OneExchange!Call
    <2>2. CASE (Forward /\ ~Call) \/ UpstreamStep \/ UNCHANGED vars
      <3>1. UNCHANGED <<calls, host>>
        BY <2>2 DEF Forward, UpstreamStep, vars, Fail, At, RecvFails, EndLimited, RejectRequest,
             AcceptRequest, AcquireBusiness, WaitCancelled, RefuseBackoff, PassGate, RejectPrepared,
             Prepared, DoFails, RelayStart, RelayEnd, ReadFails, RecvStart, RejectStart, RecvEnd,
             RecvChunk, RecvTooMuch, RelayChunk
      <3> QED
        BY <3>1
    <2>3. CASE HostFinishesSending \/ HostReads \/ HostReplays
      <3>1. UNCHANGED <<calls, host.outcome>>
        <4>1. CASE HostFinishesSending \/ HostReads
          BY <4>1, <2>t DEF HostFinishesSending, HostSends, HostCloses, HostReads, Host
        <4>2. CASE HostReplays
          BY <4>2 DEF HostReplays, UnsentReported, Unread, Pending, FirstAttempt
        <4> QED
          BY <2>3, <4>1, <4>2
      <3> QED
        BY <3>1
    <2>4. CASE HostReadsEnd \/ HostGivesUp \/ HostFindsBroken \/ HostCancels
      <3>1. host.outcome = "pending" /\ calls' = calls
        BY <2>4 DEF HostReadsEnd, HostGivesUp, HostFindsBroken, HostCancels, UnsentReported,
                    Unread, Pending, Concludes
      <3>2. host'.outcome \in {"answered", "limited", "refused", "uncertain"}
        <4>1. CASE HostReadsEnd
          <5>1. Concludes("limited") \/ Concludes("answered")
            BY <4>1 DEF HostReadsEnd
          <5> QED
            BY <5>1, <2>t DEF Concludes, Host
        <4>2. CASE HostGivesUp \/ HostFindsBroken \/ HostCancels
          BY <4>2, <2>t DEF HostGivesUp, HostFindsBroken, HostCancels, Concludes, Host
        <4> QED
          BY <2>4, <4>1, <4>2
      <3>3. IInv'
        BY NextInv
      <3> QED
        BY <3>1, <3>2, <3>3 DEF IInv, OutcomeInv, OneExchange!Next, OneExchange!Conclude
    <2>5. CASE NewRequest
      BY <2>5 DEF NewRequest, Pending, FirstAttempt, OneExchange!Next, OneExchange!Renew
    <2> QED
      BY <2>1, <2>2, <2>3, <2>4, <2>5 DEF Next, HostListens
  <1> QED
    BY <1>1, <1>2, Invariance, PTL DEF Spec, ImplementsExchange, OneExchange!Spec

----------------------------------------------------------------------------
(* Induction, as a fact about sets of numbers, and the sum of the chunks.  *)

LEMMA LeastNumber ==
  ASSUME NEW S, S \subseteq Nat, S # {}
  PROVE  \E n \in S : \A m \in S : n <= m
  <1> DEFINE less == OpToRel(<, Nat)
  <1>1. \A m, n \in Nat : m < n => <<m, n>> \in less
    BY DEF OpToRel
  <1>2. IsWellFoundedOn(less, Nat)
    BY NatLessThanWellFounded
  <1> HIDE DEF less
  <1>3. PICK n \in S : \A m \in S : <<m, n>> \notin less
    BY <1>2, WFMin
  <1>4. \A m \in S : ~(m < n) /\ m \in Nat /\ n \in Nat
    BY <1>1, <1>3
  <1> QED
    BY <1>4

LEMMA Induction ==
  ASSUME NEW S, 0 \in S, \A n \in Nat : n \in S => n + 1 \in S
  PROVE  \A n \in Nat : n \in S
  <1> DEFINE T == Nat \ S
  <1>1. ASSUME T # {} PROVE FALSE
    <2>1. PICK n \in T : \A m \in T : n <= m
      <3>1. T \subseteq Nat
        OBVIOUS
      <3> HIDE DEF T
      <3> QED
        BY <1>1, <3>1, LeastNumber
    <2>2. n \in Nat /\ n # 0
      OBVIOUS
    <2>3. n - 1 \in Nat /\ n - 1 \in S
      BY <2>1, <2>2
    <2> QED
      BY <2>3
  <1> QED
    BY <1>1

\* sum holds the chunks' bytes of the first n frames of s, for each n up to max.
Sums(s, max, sum) ==
  sum = [n \in 0 .. max |-> IF n = 0 THEN 0 ELSE sum[n - 1] + GetBodyChunk(s[n])]

LEMMA SumsExist ==
  ASSUME NEW s, NEW max \in Nat
  PROVE  \E sum : Sums(s, max, sum)
  <1> DEFINE S == {n \in Nat : \E sum : Sums(s, n, sum)}
  <1>1. 0 \in S
    <2>1. Sums(s, 0, [n \in 0 .. 0 |-> 0])
      BY DEF Sums
    <2> QED
      BY <2>1
  <1>2. ASSUME NEW n \in Nat, n \in S PROVE n + 1 \in S
    <2>1. PICK f : Sums(s, n, f)
      BY <1>2
    <2> DEFINE g == [i \in 0 .. n + 1 |->
                       IF i <= n THEN f[i] ELSE f[n] + GetBodyChunk(s[n + 1])]
    <2>2. ASSUME NEW i \in 0 .. n + 1
          PROVE  g[i] = IF i = 0 THEN 0 ELSE g[i - 1] + GetBodyChunk(s[i])
      <3>1. CASE i <= n
        <4>1. i \in 0 .. n /\ (i = 0 \/ i - 1 \in 0 .. n)
          BY <3>1
        <4>2. f[i] = IF i = 0 THEN 0 ELSE f[i - 1] + GetBodyChunk(s[i])
          BY <2>1, <4>1 DEF Sums
        <4> QED
          BY <3>1, <4>1, <4>2
      <3>2. CASE i = n + 1
        BY <3>2
      <3> QED
        BY <3>1, <3>2
    <2>3. g = [i \in 0 .. n + 1 |-> g[i]]
      OBVIOUS
    <2> HIDE DEF g
    <2>4. Sums(s, n + 1, g)
      BY <2>2, <2>3 DEF Sums
    <2> QED
      BY <2>4
  <1> HIDE DEF S
  <1>3. max \in S
    BY <1>1, <1>2, Induction
  <1> QED
    BY <1>3 DEF S

\* Longer sums begin with the shorter ones.
Begins(s, t, max) == \A n \in 1 .. max : t[n] = s[n]

LEMMA SumsAgree ==
  ASSUME NEW s, NEW t, NEW max \in Nat, NEW more \in Nat, max <= more,
         Begins(s, t, max),
         NEW f, Sums(s, max, f), NEW g, Sums(t, more, g)
  PROVE  f[max] = g[max]
  <1> DEFINE S == {n \in Nat : n <= max => f[n] = g[n]}
  <1>1. \A n \in 0 .. max :
          /\ f[n] = IF n = 0 THEN 0 ELSE f[n - 1] + GetBodyChunk(s[n])
          /\ g[n] = IF n = 0 THEN 0 ELSE g[n - 1] + GetBodyChunk(t[n])
    BY DEF Sums
  <1>2. 0 \in S
    BY <1>1
  <1>3. ASSUME NEW n \in Nat, n \in S PROVE n + 1 \in S
    BY <1>1, <1>3 DEF Begins
  <1> HIDE DEF S
  <1>4. max \in S
    BY <1>2, <1>3, Induction
  <1> QED
    BY <1>4 DEF S

LEMMA ChunkBytesSum ==
  ASSUME NEW s, Len(s) \in Nat
  PROVE  \E sum : Sums(s, Len(s), sum) /\ ChunkBytes(s) = sum[Len(s)]
  BY SumsExist DEF Sums, ChunkBytes

\* One more frame.
LEMMA ChunkBytesAppend ==
  ASSUME NEW S, NEW s \in Seq(S), NEW f \in S
  PROVE  ChunkBytes(Append(s, f)) = ChunkBytes(s) + GetBodyChunk(f)
  <1> DEFINE t == Append(s, f)
  <1>1. /\ Len(s) \in Nat /\ Len(t) = Len(s) + 1
        /\ t[Len(s) + 1] = f /\ \A n \in 1 .. Len(s) : t[n] = s[n]
    OBVIOUS
  <1> HIDE DEF t
  <1>2. PICK a : Sums(s, Len(s), a) /\ ChunkBytes(s) = a[Len(s)]
    BY <1>1, ChunkBytesSum
  <1>3. PICK b : Sums(t, Len(t), b) /\ ChunkBytes(t) = b[Len(t)]
    BY <1>1, ChunkBytesSum
  <1>4. a[Len(s)] = b[Len(s)]
    <2>1. Begins(s, t, Len(s)) /\ Len(s) <= Len(t) /\ Len(t) \in Nat
      BY <1>1 DEF Begins
    <2> QED
      BY <1>1, <1>2, <1>3, <2>1, SumsAgree
  <1>5. b[Len(t)] = b[Len(s)] + GetBodyChunk(f)
    BY <1>1, <1>3 DEF Sums
  <1> QED
    BY <1>2, <1>3, <1>4, <1>5 DEF t

LEMMA ChunkBytesNone == ChunkBytes(<<>>) = 0
  <1>1. PICK a : Sums(<<>>, Len(<<>>), a) /\ ChunkBytes(<<>>) = a[Len(<<>>)]
    BY ChunkBytesSum
  <1> QED
    BY <1>1 DEF Sums

\* The next of the frames that were sent.
LEMMA ChunkBytesNext ==
  ASSUME NEW S, NEW s \in Seq(S), NEW n \in Nat, n < Len(s)
  PROVE  ChunkBytes(SubSeq(s, 1, n + 1)) = ChunkBytes(SubSeq(s, 1, n)) + GetBodyChunk(s[n + 1])
  <1>1. /\ SubSeq(s, 1, n) \in Seq(S) /\ s[n + 1] \in S
        /\ SubSeq(s, 1, n + 1) = Append(SubSeq(s, 1, n), s[n + 1])
    OBVIOUS
  <1> QED
    BY <1>1, ChunkBytesAppend

----------------------------------------------------------------------------
(* The body.                                                               *)

Accepted == {"check", "slot", "gate", "prepare", "do"}
Over == {"limited", "returned"}

Taken == ChunkBytes(SubSeq(sent, 1, h.taken))

\* What is buffered is what was taken, and once the checks begin the last frame
\* taken is the host's body_end.
BodyInv ==
  /\ h.taken <= Len(sent)
  /\ h.pc \notin Over => h.size = Taken
  /\ h.pc \in Accepted \/ up.state # "none" => h.taken # 0 /\ GetBodyEnd(sent[h.taken])
  /\ up.state # "none" => up.received = Taken

LEMMA FramesTaken ==
  ASSUME IInv
  PROVE  /\ h \in Handler /\ h.taken \in Nat /\ h.size \in Nat /\ h.nread \in Nat
         /\ sent \in Seq(Input) /\ Len(sent) \in Nat /\ up \in Upstream /\ host \in Host
  BY StreamAssumption, FramesAssumption DEF IInv, TypeOK, Handler

\* The handler is past receiving, or ends.
LEMMA SameBody ==
  ASSUME IInv, BodyInv, UNCHANGED sent,
         h'.taken = h.taken, h'.size = h.size,
         h'.pc \in Accepted => h.pc \in Accepted,
         h'.pc \notin Over => h.pc \notin Over,
         up'.received = up.received, up'.state # "none" => up.state # "none"
  PROVE  BodyInv'
  BY DEF BodyInv, Taken

LEMMA PastReceiving ==
  ASSUME IInv, BodyInv, Forward, h.pc \notin {"start", "body"}, ~Call
  PROVE  BodyInv'
  <1>1. h \in Handler
    BY FramesTaken
  <1>2. Returned.taken = h.taken /\ Returned.size = h.size /\ Returned.pc = "returned"
    BY <1>1 DEF Returned, Handler
  <1>3. ASSUME NEW pc
        PROVE  LET x == [h EXCEPT !.pc = pc] IN
               x.taken = h.taken /\ x.size = h.size /\ x.pc = pc
    BY <1>1 DEF Handler
  <1>4. \A n : LET x == [h EXCEPT !.nread = n] IN
               x.taken = h.taken /\ x.size = h.size /\ x.pc = h.pc
    BY <1>1 DEF Handler
  <1>5. ASSUME NEW f, NEW next, Send(f, next), next.taken = h.taken, next.size = h.size,
               next.pc \notin Accepted, h.pc \notin Over \/ next.pc \in Over,
               UNCHANGED <<sent, up>>
        PROVE  BodyInv'
    <2>1. h'.taken = h.taken /\ h'.size = h.size /\ h'.pc \notin Accepted
          /\ (h'.pc \notin Over => h.pc \notin Over)
      BY <1>2, <1>5 DEF Send, Accepted, Over
    <2> QED
      BY <1>5, <2>1, SameBody
  <1>6. ASSUME NEW b, Fail(b) PROVE BodyInv'
    BY <1>2, <1>5, <1>6 DEF Fail, Accepted, Over
  <1>7. CASE AcceptRequest \/ AcquireBusiness \/ PassGate \/ Prepared
    <2>1. /\ \E p, q \in Accepted : h.pc = p /\ h' = [h EXCEPT !.pc = q]
          /\ UNCHANGED <<sent, up>>
      BY <1>7 DEF AcceptRequest, AcquireBusiness, PassGate, Prepared, At, Accepted
    <2>2. h'.taken = h.taken /\ h'.size = h.size /\ h'.pc \in Accepted /\ h.pc \in Accepted
      BY <1>3, <2>1
    <2> QED
      BY <2>1, <2>2, SameBody DEF Accepted, Over
  <1>8. CASE RejectRequest \/ WaitCancelled \/ RejectPrepared \/ DoFails \/ ReadFails
    BY <1>6, <1>8 DEF RejectRequest, WaitCancelled, RejectPrepared, DoFails, ReadFails
  <1>9. CASE EndLimited \/ RelayEnd
    BY <1>2, <1>5, <1>9 DEF EndLimited, RelayEnd, Accepted, Over
  <1>10. ASSUME NEW f, NEW pc \in {"relay", "limited"}, Send(f, [h EXCEPT !.pc = pc]),
                h.pc \notin Over, UNCHANGED <<sent, up>>
         PROVE  BodyInv'
    <2> DEFINE next == [h EXCEPT !.pc = pc]
    <2>1. /\ next.taken = h.taken /\ next.size = h.size /\ next.pc \notin Accepted
          /\ Send(f, next)
      BY <1>3, <1>10 DEF Accepted
    <2> HIDE DEF next
    <2> QED
      BY <1>5, <1>10, <2>1
  <1>12. CASE RefuseBackoff \/ RelayStart
    BY <1>10, <1>12 DEF RefuseBackoff, RelayStart, Over
  <1>11. ASSUME NEW n \in 1 .. MaxBytes, RelayChunk(n) PROVE BodyInv'
    BY <1>4, <1>5, <1>11 DEF RelayChunk, Accepted, Over
  <1> QED
    BY <1>7, <1>8, <1>9, <1>11, <1>12 DEF Forward, RecvFails, RecvStart, RejectStart, RecvEnd,
       RecvChunk, RecvTooMuch

LEMMA Receiving ==
  ASSUME IInv, BodyInv, Forward, h.pc \in {"start", "body"}
  PROVE  BodyInv'
  <1>1. /\ h \in Handler /\ h.taken \in Nat /\ sent \in Seq(Input) /\ h.size \in Nat
        /\ up.state = "none"
    BY FramesTaken DEF IInv, CallInv, Early
  <1>2. CASE RecvFails
    <2>1. h'.taken = h.taken /\ h'.size = h.size /\ h'.pc = "returned" /\ UNCHANGED <<sent, up>>
      BY <1>1, <1>2 DEF RecvFails, Returned, Handler
    <2> QED
      BY <2>1, SameBody DEF Accepted, Over
  <1>3. ASSUME NEW f \in Input, Recv(f), h'.taken = h.taken + 1, UNCHANGED <<sent, up>>,
               \/ h'.pc \in Over
               \/ h'.pc \notin Accepted /\ h'.size = h.size + GetBodyChunk(f)
               \/ h'.pc = "check" /\ h'.size = h.size + GetBodyChunk(f) /\ GetBodyEnd(f)
        PROVE  BodyInv'
    <2>1. h.taken < Len(sent) /\ f = sent[h.taken + 1] /\ h.size = Taken
      BY <1>1, <1>3 DEF Recv, BodyInv, Over
    <2>2. Taken' = Taken + GetBodyChunk(f)
      BY <1>1, <1>3, <2>1, ChunkBytesNext DEF Taken
    <2>3. h'.taken <= Len(sent') /\ h'.taken # 0 /\ sent'[h'.taken] = f
      BY <1>1, <1>3, <2>1
    <2>4. h'.pc \notin Over => h'.size = Taken'
      BY <1>3, <2>1, <2>2
    <2>5. h'.pc \in Accepted => GetBodyEnd(f)
      BY <1>3 DEF Accepted, Over
    <2> QED
      BY <1>1, <1>3, <2>3, <2>4, <2>5 DEF BodyInv
  <1>4. ASSUME NEW f \in Input, NEW pc
        PROVE  LET x == [Took EXCEPT !.pc = pc] IN
               x.taken = h.taken + 1 /\ x.size = h.size /\ x.pc = pc
    BY <1>1 DEF Took, Handler
  <1>5. ASSUME NEW f \in Input, RecvStart(f) PROVE BodyInv'
    <2>1. GetBodyChunk(f) = 0
      BY <1>5 DEF RecvStart, StartsRequest, HasStart, GetBodyChunk
    <2>2. h'.taken = h.taken + 1 /\ h'.size = h.size + GetBodyChunk(f) /\ h'.pc = "body"
      BY <1>1, <1>4, <1>5, <2>1 DEF RecvStart
    <2> QED
      BY <1>3, <1>5, <2>2 DEF RecvStart, Accepted
  <1>6. ASSUME NEW f \in Input, NEW g, NEW pc \in Over, Recv(f),
               Send(g, [Took EXCEPT !.pc = pc]), UNCHANGED <<sent, up>>
        PROVE  BodyInv'
    <2>1. \/ h'.taken = h.taken + 1 /\ h'.pc \in Over
          \/ h'.taken = h.taken /\ h'.size = h.size /\ h'.pc = "returned"
      BY <1>1, <1>4, <1>6 DEF Send, Returned, Handler, Over
    <2>2. CASE h'.taken = h.taken + 1 /\ h'.pc \in Over
      BY <1>3, <1>6, <2>2
    <2>3. CASE h'.taken = h.taken /\ h'.size = h.size /\ h'.pc = "returned"
      BY <1>6, <2>3, SameBody DEF Accepted, Over
    <2> QED
      BY <2>1, <2>2, <2>3
  <1>7. ASSUME NEW f \in Input, RejectStart(f) \/ RecvTooMuch(f) PROVE BodyInv'
    BY <1>6, <1>7 DEF RejectStart, RecvTooMuch, Over
  <1>8. ASSUME NEW f \in Input, RecvEnd(f) PROVE BodyInv'
    <2>1. GetBodyChunk(f) = 0
      BY <1>8 DEF RecvEnd, GetBodyEnd, GetBodyChunk
    <2>2. h'.taken = h.taken + 1 /\ h'.size = h.size + GetBodyChunk(f) /\ h'.pc = "check"
      BY <1>1, <1>4, <1>8, <2>1 DEF RecvEnd
    <2> QED
      BY <1>3, <1>8, <2>2 DEF RecvEnd
  <1>9. ASSUME NEW f \in Input, RecvChunk(f) PROVE BodyInv'
    <2>1. h'.taken = h.taken + 1 /\ h'.size = h.size + GetBodyChunk(f) /\ h'.pc = h.pc
      BY <1>1, <1>9 DEF RecvChunk, Took, Handler
    <2> QED
      BY <1>3, <1>9, <2>1 DEF RecvChunk, Accepted
  <1> QED
    BY <1>2, <1>5, <1>7, <1>8, <1>9 DEF Forward, EndLimited, RejectRequest, AcceptRequest,
       AcquireBusiness, WaitCancelled, RefuseBackoff, PassGate, RejectPrepared, Prepared, Call,
       DoFails, RelayStart, RelayEnd, ReadFails, RelayChunk, At

LEMMA CallBody ==
  ASSUME IInv, BodyInv, Call
  PROVE  BodyInv'
  <1>1. /\ h \in Handler /\ h.pc = "do" /\ UNCHANGED sent
        /\ h' = [h EXCEPT !.pc = "await"]
        /\ up' = [NoCall EXCEPT !.state = "working", !.received = h.size]
    BY FramesTaken DEF Call, At
  <1>2. h'.pc = "await" /\ h'.taken = h.taken /\ h'.size = h.size
    BY <1>1 DEF Handler
  <1>3. up'.received = h.size
    BY <1>1 DEF NoCall
  <1>4. h.size = Taken /\ Taken' = Taken
    BY <1>1, <1>2 DEF BodyInv, Taken, Over
  <1> QED
    BY <1>1, <1>2, <1>3, <1>4 DEF BodyInv, Accepted, Over

LEMMA UpstreamKeeps ==
  ASSUME IInv, UpstreamStep
  PROVE  /\ up.state \in {"working", "streaming"} /\ up'.received = up.received
         /\ up'.state # "none"
  BY FramesTaken DEF UpstreamStep, Upstream

LEMMA HostBody ==
  ASSUME IInv, BodyInv, HostFinishesSending \/ HostListens \/ HostCancels \/ NewRequest
  PROVE  BodyInv'
  <1>1. ASSUME NEW f \in Input, HostSends(f) PROVE BodyInv'
    <2>1. /\ sent \in Seq(Input) /\ h.taken \in Nat /\ h.taken <= Len(sent)
          /\ sent' = Append(sent, f) /\ UNCHANGED <<h, up>>
      BY <1>1, FramesTaken DEF HostSends, BodyInv
    <2>2. /\ SubSeq(sent', 1, h.taken) = SubSeq(sent, 1, h.taken) /\ h.taken <= Len(sent')
          /\ h.taken # 0 => sent'[h.taken] = sent[h.taken]
      BY <2>1
    <2> QED
      BY <2>1, <2>2 DEF BodyInv, Taken
  <1>2. CASE NewStream
    <2>1. /\ sent' = <<>> /\ h'.taken = 0 /\ h'.size = 0 /\ h'.pc = "start" /\ up'.state = "none"
      BY <1>2 DEF NewStream, Fresh, NoCall
    <2>2. SubSeq(<<>>, 1, 0) = <<>>
      OBVIOUS
    <2>3. Taken' = 0
      BY <2>1, <2>2, ChunkBytesNone DEF Taken
    <2> QED
      BY <2>1, <2>3 DEF BodyInv, Accepted, Over
  <1>3. CASE UNCHANGED <<sent, h, up>>
    BY <1>3, SameBody
  <1> QED
    BY <1>1, <1>2, <1>3 DEF HostFinishesSending, HostListens, HostCancels, NewRequest, HostCloses,
       HostReads, HostReadsEnd, HostGivesUp, HostFindsBroken, HostReplays, Concludes

LEMMA NextBody == IInv /\ BodyInv /\ [Next]_vars => BodyInv'
  <1> SUFFICES ASSUME IInv, BodyInv, [Next]_vars PROVE BodyInv'
    OBVIOUS
  <1>1. CASE Forward
    BY <1>1, PastReceiving, Receiving, CallBody
  <1>2. CASE UpstreamStep
    BY <1>2, UpstreamKeeps, SameBody DEF UpstreamStep
  <1>3. CASE HostFinishesSending \/ HostListens \/ HostCancels \/ NewRequest
    BY <1>3, HostBody
  <1>4. CASE UNCHANGED vars
    BY <1>4, SameBody DEF vars
  <1> QED
    BY <1>1, <1>2, <1>3, <1>4 DEF Next

LEMMA InitBody == Init => BodyInv
  <1>1. SubSeq(<<>>, 1, 0) = <<>>
    OBVIOUS
  <1>2. ASSUME Init PROVE BodyInv
    <2>1. h.taken = 0 /\ h.size = 0 /\ h.pc = "start" /\ up.state = "none" /\ sent = <<>>
      BY <1>2 DEF Init, Fresh, NoCall
    <2>2. Taken = 0
      BY <1>1, <2>1, ChunkBytesNone DEF Taken
    <2> QED
      BY <2>1, <2>2 DEF BodyInv, Accepted, Over
  <1> QED
    BY <1>2

\* Forward calls the upstream only after a body_end of the host's, and with all
\* that the host sent before it (main.go:498-516): a stream that breaks off, at
\* whatever frame, never becomes a shorter request.
THEOREM NeverTruncated == Spec => []NothingTruncated
  <1>1. BodyInv => NothingTruncated
    BY DEF BodyInv, NothingTruncated, Taken
  <1>2. Spec => []BodyInv
    BY InitBody, NextBody, Invariance, PTL DEF Spec
  <1> QED
    BY <1>1, <1>2, PTL

----------------------------------------------------------------------------
(* The answer.                                                             *)

\* To a host that is still there everything that was read has been sent.
AnswerInv ==
  /\ host.live /\ h.pc # "returned" => ChunkBytes(replies) = h.nread
  /\ EndMeansComplete

LEMMA EndedReplies ==
  ASSUME IInv, h.pc # "returned"
  PROVE  \A i \in DOMAIN replies : replies[i].frame # "end"
  BY DEF IInv, FramesInOrder

\* Nothing is sent, and nothing that was read is forgotten.
LEMMA SameAnswer ==
  ASSUME IInv, AnswerInv, UNCHANGED replies,
         host'.live => host.live,
         h'.pc # "returned" => h'.nread = h.nread /\ h.pc # "returned",
         UNCHANGED up \/ \A i \in DOMAIN replies : replies[i].frame # "end"
  PROVE  AnswerInv'
  BY DEF AnswerInv, EndMeansComplete

\* A frame is sent, or lost on a host that has gone.
LEMMA SentAnswer ==
  ASSUME IInv, AnswerInv, NEW f \in ForwardResponse, NEW next, Send(f, next),
         UNCHANGED <<host, up>>, h.pc # "returned",
         \/ next.pc = "returned"
         \/ next.nread = h.nread + GetBodyChunk(f),
         f.frame = "end" /\ up.state # "none" =>
           up.state = "ended" /\ f.bytes_received = up.made /\ h.nread = up.made
  PROVE  AnswerInv'
  <1>1. replies \in Seq(ForwardResponse) /\ \A i \in DOMAIN replies : replies[i].frame # "end"
    BY EndedReplies DEF IInv, TypeOK
  <1>2. CASE ~host.live
    <2>1. UNCHANGED replies
      BY <1>2 DEF Send
    <2> QED
      BY <1>1, <1>2, <2>1 DEF AnswerInv, EndMeansComplete
  <1>3. CASE host.live
    <2>1. replies' = Append(replies, f) /\ h' = next
      BY <1>3 DEF Send
    <2>2. ChunkBytes(replies') = h.nread + GetBodyChunk(f)
      BY <1>1, <1>3, <2>1, ChunkBytesAppend DEF AnswerInv
    <2>3. host'.live /\ h'.pc # "returned" => ChunkBytes(replies') = h'.nread
      BY <2>1, <2>2
    <2>4. \A i \in DOMAIN replies' : \/ i \in DOMAIN replies /\ replies'[i] = replies[i]
                                     \/ replies'[i] = f
      BY <1>1, <2>1
    <2>5. f.frame = "end" => ChunkBytes(replies') = h.nread
      <3>1. h.nread \in Nat
        BY FramesTaken
      <3> QED
        BY <2>2, <3>1 DEF GetBodyChunk
    <2>6. EndMeansComplete'
      BY <1>1, <2>4, <2>5 DEF EndMeansComplete
    <2> QED
      BY <2>3, <2>6 DEF AnswerInv
  <1> QED
    BY <1>2, <1>3

LEMMA ForwardAnswer ==
  ASSUME IInv, AnswerInv, Forward
  PROVE  AnswerInv'
  <1>1. h \in Handler /\ h.nread \in Nat /\ UNCHANGED host /\ h.pc # "returned"
    BY FramesTaken DEF Forward, Fail, At, RecvFails, EndLimited, RejectRequest, AcceptRequest,
       AcquireBusiness, WaitCancelled, RefuseBackoff, PassGate, RejectPrepared, Prepared, Call,
       DoFails, RelayStart, RelayEnd, ReadFails, RecvStart, RejectStart, RecvEnd, RecvChunk,
       RecvTooMuch, RelayChunk
  <1>2. \A i \in DOMAIN replies : replies[i].frame # "end"
    BY <1>1, EndedReplies
  <1>3. Returned.pc = "returned" /\ Returned.nread = h.nread
    BY <1>1 DEF Returned, Handler
  <1>4. ASSUME h'.nread = h.nread, UNCHANGED replies PROVE AnswerInv'
    BY <1>1, <1>2, <1>4, SameAnswer
  <1>5. ASSUME NEW b \in BOOLEAN, Fail(b) PROVE AnswerInv'
    <2>1. ErrorFrame(b) \in ForwardResponse /\ ErrorFrame(b).frame # "end"
      BY FrameTypes DEF ErrorFrame
    <2> QED
      BY <1>1, <1>3, <1>5, <2>1, SentAnswer DEF Fail
  <1>6. ASSUME NEW status \in Status, NEW x \in Handler, NEW pc,
               x.nread = h.nread, Send(StartFrame(status), [x EXCEPT !.pc = pc]), UNCHANGED up
        PROVE  AnswerInv'
    <2> DEFINE f == StartFrame(status)
               next == [x EXCEPT !.pc = pc]
    <2>1. f \in ForwardResponse /\ f.frame # "end" /\ GetBodyChunk(f) = 0
      BY FrameTypes DEF StartFrame, GetBodyChunk
    <2>2. next.nread = h.nread /\ Send(f, next)
      BY <1>6 DEF Handler
    <2> HIDE DEF f, next
    <2> QED
      BY <1>1, <1>6, <2>1, <2>2, SentAnswer
  <1>7. ASSUME NEW n \in Nat, Send(EndFrame(n), Returned), UNCHANGED up,
               up.state # "none" => up.state = "ended" /\ n = up.made /\ h.nread = up.made
        PROVE  AnswerInv'
    <2>1. EndFrame(n) \in ForwardResponse /\ EndFrame(n).bytes_received = n
      BY FrameTypes DEF EndFrame
    <2> QED
      BY <1>1, <1>3, <1>7, <2>1, SentAnswer
  <1>8. CASE RejectRequest \/ WaitCancelled \/ RejectPrepared \/ DoFails \/ ReadFails
    BY <1>5, <1>8 DEF RejectRequest, WaitCancelled, RejectPrepared, DoFails, ReadFails
  <1>9. CASE \/ RecvFails \/ AcceptRequest \/ AcquireBusiness \/ PassGate \/ Prepared \/ Call
             \/ \E f \in Input : RecvStart(f) \/ RecvEnd(f) \/ RecvChunk(f)
    <2>1. h'.nread = h.nread /\ UNCHANGED replies
      <3>1. CASE RecvFails \/ AcceptRequest \/ AcquireBusiness \/ PassGate \/ Prepared \/ Call
        BY <1>1, <1>3, <3>1 DEF RecvFails, AcceptRequest, AcquireBusiness, PassGate, Prepared,
           Call, At, Handler
      <3>2. CASE \E f \in Input : RecvStart(f) \/ RecvEnd(f) \/ RecvChunk(f)
        BY <1>1, <3>2 DEF RecvStart, RecvEnd, RecvChunk, Took, Handler
      <3> QED
        BY <1>9, <3>1, <3>2
    <2> QED
      BY <1>4, <2>1
  <1>10. CASE EndLimited
    <2>1. up.state = "none"
      BY <1>10 DEF EndLimited, IInv, CallInv
    <2> QED
      BY <1>7, <1>10, <2>1 DEF EndLimited
  <1>11. CASE RelayEnd
    BY <1>1, <1>7, <1>11 DEF RelayEnd
  <1>12. CASE RefuseBackoff \/ RelayStart
    <2>1. CASE RefuseBackoff
      BY <1>1, <1>6, <2>1, FramesAssumption DEF RefuseBackoff
    <2>2. CASE RelayStart
      <3>1. up.status \in Status
        BY <2>2, FramesTaken DEF RelayStart, Upstream
      <3> QED
        BY <1>1, <1>6, <2>2, <3>1 DEF RelayStart
    <2> QED
      BY <1>12, <2>1, <2>2
  <1>13. ASSUME NEW f \in Input, RejectStart(f) \/ RecvTooMuch(f) PROVE AnswerInv'
    <2>1. Took \in Handler /\ Took.nread = h.nread
      <3>1. Took \in Handler
        BY TookType DEF IInv
      <3> QED
        BY <1>1, <3>1 DEF Took, Handler
    <2>2. CASE RecvTooMuch(f)
      BY <1>6, <2>1, <2>2, FramesAssumption DEF RecvTooMuch
    <2>3. CASE RejectStart(f)
      <3> DEFINE next == [Took EXCEPT !.pc = "returned"]
      <3>1. next.pc = "returned"
        BY <2>1 DEF Handler
      <3>2. /\ ErrorFrame(FALSE) \in ForwardResponse /\ ErrorFrame(FALSE).frame # "end"
            /\ Send(ErrorFrame(FALSE), next) /\ UNCHANGED up
        BY <2>3, FrameTypes DEF ErrorFrame, RejectStart
      <3> HIDE DEF next
      <3> QED
        BY <1>1, <3>1, <3>2, SentAnswer
    <2> QED
      BY <1>13, <2>2, <2>3
  <1>14. ASSUME NEW n \in 1 .. MaxBytes, RelayChunk(n) PROVE AnswerInv'
    <2> DEFINE next == [h EXCEPT !.nread = @ + n]
    <2>1. /\ ChunkFrame(n) \in ForwardResponse /\ ChunkFrame(n).frame # "end"
          /\ GetBodyChunk(ChunkFrame(n)) = n
      BY FrameTypes DEF ChunkFrame, GetBodyChunk
    <2>2. next.nread = h.nread + n /\ Send(ChunkFrame(n), next) /\ UNCHANGED up
      BY <1>1, <1>14 DEF RelayChunk, Handler
    <2> HIDE DEF next
    <2> QED
      BY <1>1, <2>1, <2>2, SentAnswer
  <1> QED
    BY <1>8, <1>9, <1>10, <1>11, <1>12, <1>13, <1>14 DEF Forward

LEMMA UpstreamAnswer ==
  ASSUME IInv, AnswerInv, UpstreamStep
  PROVE  AnswerInv'
  <1>1. /\ up.state \in {"working", "streaming"} /\ UNCHANGED <<host, replies, h>>
    BY UpstreamKeeps DEF UpstreamStep
  <1>2. \A i \in DOMAIN replies : replies[i].frame # "end"
    BY <1>1 DEF AnswerInv, EndMeansComplete
  <1> QED
    BY <1>1, <1>2, SameAnswer

LEMMA HostAnswer ==
  ASSUME IInv, AnswerInv, HostFinishesSending \/ HostListens \/ HostCancels \/ NewRequest
  PROVE  AnswerInv'
  <1>1. CASE NewStream
    <2>1. replies' = <<>> /\ h'.nread = 0
      BY <1>1 DEF NewStream, Fresh
    <2> QED
      BY <2>1, ChunkBytesNone DEF AnswerInv, EndMeansComplete
  <1>2. CASE UNCHANGED <<replies, h, up>> /\ (host'.live => host.live)
    BY <1>2, SameAnswer
  <1>3. host \in Host
    BY FramesTaken
  <1>4. HostFinishesSending \/ HostCancels => UNCHANGED <<replies, h, up>> /\ (host'.live => host.live)
    BY <1>3 DEF HostFinishesSending, HostCancels, HostCloses, HostSends, Host
  <1>5. HostListens /\ ~HostReplays => UNCHANGED <<replies, h, up>> /\ (host'.live => host.live)
    BY <1>3 DEF HostListens, HostReads, HostReadsEnd, HostGivesUp, HostFindsBroken, Concludes, Host
  <1>6. HostReplays \/ NewRequest => NewStream
    BY DEF HostReplays, NewRequest
  <1> QED
    BY <1>1, <1>2, <1>4, <1>5, <1>6

LEMMA NextAnswer == IInv /\ AnswerInv /\ [Next]_vars => AnswerInv'
  <1> SUFFICES ASSUME IInv, AnswerInv, [Next]_vars PROVE AnswerInv'
    OBVIOUS
  <1>1. CASE UNCHANGED vars
    BY <1>1 DEF vars, AnswerInv, EndMeansComplete
  <1> QED
    BY <1>1, ForwardAnswer, UpstreamAnswer, HostAnswer DEF Next

LEMMA InitAnswer == Init => AnswerInv
  BY ChunkBytesNone DEF Init, Fresh, AnswerInv, EndMeansComplete

\* An end frame tells the host the truth about the answer: the upstream had
\* ended it, and all its bytes are in the chunks before, however the answer was
\* cut and whatever the host did meanwhile (Forward, main.go:653-669).
THEOREM EndIsComplete == Spec => []EndMeansComplete
  <1>1. AnswerInv => EndMeansComplete
    BY DEF AnswerInv
  <1>2. Spec => []AnswerInv
    BY InitAnswer, NextAnswer, Invariance, PTL DEF Spec
  <1> QED
    BY <1>1, <1>2, PTL
=============================================================================
