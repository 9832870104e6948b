--------------------------- MODULE MCForwardStream ---------------------------
(***************************************************************************)
(* Values for the constants of ForwardStream under TLC.  The body limit is *)
(* two bytes: two chunks of one or two bytes meet it or exceed it.         *)
(***************************************************************************)
EXTENDS ForwardStream

StartOf(a, method, url, proxy) ==
  [frame |-> "start",
   start |-> [method |-> method, url |-> url, account_id |-> a, proxy_url |-> proxy]]

\* A protected request, a plain one, and one for each check; every body frame.
HostFrames ==
  {StartOf(a, "POST", "responses", "none") : a \in Account}
  \cup {StartOf(a, "GET", "codex", "malformed") : a \in Scope}
  \cup {StartOf(a, "malformed", "foreign", "usable") : a \in Scope}
  \cup {[frame |-> "body_chunk", body_chunk |-> n] : n \in {1, 2}}
  \cup {[frame |-> "body_end", body_end |-> b] : b \in BOOLEAN}
=============================================================================
