------------------------------ MODULE Exchange ------------------------------
(***************************************************************************)
(* What the host relies on when it hands a request to a plugin: whatever   *)
(* attempts, refusals and broken streams there are, the upstream is called *)
(* at most once for the request, an answer comes from that call, and after *)
(* a refusal there has been no call and none will come.                    *)
(***************************************************************************)
EXTENDS Integers

VARIABLES calls, outcome

\* "limited": a 413 or 429, which the plugin may also give by itself.
\* "uncertain": the stream broke, or the plugin says the request was sent.
Outcome == {"pending", "answered", "limited", "refused", "uncertain"}

Init == calls = 0 /\ outcome = "pending"

\* After a broken stream the plugin may still be on its way to the upstream.
Call ==
  /\ calls = 0
  /\ outcome \in {"pending", "uncertain"}
  /\ calls' = 1
  /\ outcome' = outcome

Conclude ==
  /\ outcome = "pending"
  /\ outcome' \in {"answered", "limited", "refused", "uncertain"}
  /\ outcome' = "answered" => calls = 1
  /\ outcome' = "refused" => calls = 0
  /\ calls' = calls

\* The host's next request.
Renew ==
  /\ outcome # "pending"
  /\ calls' = 0
  /\ outcome' = "pending"

Next == Call \/ Conclude \/ Renew

Spec == Init /\ [][Next]_<<calls, outcome>>
=============================================================================
