------------------------------- MODULE Frames -------------------------------
(***************************************************************************)
(* The frames of the Forward stream, pluginapi/v1/plugin.pb.go.  A message *)
(* keeps the fields that decide something: a body chunk is its length, a   *)
(* status stands for the whole head of a response.                         *)
(***************************************************************************)
EXTENDS Integers, SequencesExt

CONSTANTS
  Account,
  Status,      \* the statuses an upstream may answer with
  BodyLimit    \* 256 MiB: the longest request body

ASSUME FramesAssumption ==
  /\ {413, 429} \subseteq Status
  /\ BodyLimit \in Nat

\* Left out: what the plugin never reads (request_id, platform, account_type,
\* account_concurrency, content_length, has_body, original body, metadata) and
\* the headers, which it copies.  A URL is the protected endpoint, another one
\* under /backend-api/codex/, or foreign.
ForwardRequestStart ==
  [method : {"POST", "GET", "malformed"},
   url : {"responses", "codex", "foreign"},
   account_id : Account,
   proxy_url : {"none", "usable", "malformed"}]

\* The oneof of a request frame; a frame may have been sent without one.
ForwardRequest ==
  [frame : {"start"}, start : ForwardRequestStart]
  \cup [frame : {"body_chunk"}, body_chunk : Nat]
  \cup [frame : {"body_end"}, body_end : BOOLEAN]
  \cup [frame : {"none"}]

\* The getters give the zero value for a frame of another kind.
HasStart(f)     == f.frame = "start"
GetBodyEnd(f)   == f.frame = "body_end" /\ f.body_end
GetBodyChunk(f) == IF f.frame = "body_chunk" THEN f.body_chunk ELSE 0

ForwardResponseStart == [frame : {"start"}, status_code : Status]
ForwardResponseChunk == [frame : {"body_chunk"}, body_chunk : Nat \ {0}]
ForwardResponseEnd   == [frame : {"end"}, bytes_received : Nat]
ForwardResponseError == [frame : {"error"}, request_sent : BOOLEAN]

ForwardResponse ==
  ForwardResponseStart \cup ForwardResponseChunk
    \cup ForwardResponseEnd \cup ForwardResponseError

StartFrame(s) == [frame |-> "start", status_code |-> s]
ChunkFrame(n) == [frame |-> "body_chunk", body_chunk |-> n]
EndFrame(n)   == [frame |-> "end", bytes_received |-> n]
ErrorFrame(s) == [frame |-> "error", request_sent |-> s]

\* The bytes of the chunks among the frames s, requests or responses.
ChunkBytes(s) ==
  LET sum[n \in 0 .. Len(s)] == IF n = 0 THEN 0 ELSE sum[n - 1] + GetBodyChunk(s[n])
  IN  sum[Len(s)]
=============================================================================
