------------------------------- MODULE Answers -------------------------------
(***************************************************************************)
(* What an upstream's answer to a harvest amounts to.  It is read twice in *)
(* this repository, in two languages: by the collector, request() of       *)
(* local_ip_harvest.py, and by the plugin, harvest() of main.go.           *)
(*                                                                         *)
(* An answer has a status, headers and either a JSON object or a stream of *)
(* events.  Times are waiting times in seconds, scaled.                    *)
(***************************************************************************)
EXTENDS Integers, SequencesExt

CONSTANTS
  MinWait,       \* 300 s: the shortest pause after a 429
  DefaultWait,   \* 3600 s: the pause when nothing better is known
  Waits          \* what an upstream may ask for, 0: nothing

ASSUME AnswersAssumption ==
  /\ {MinWait, DefaultWait} \subseteq Nat
  /\ MinWait <= DefaultWait
  /\ Waits \subseteq Nat /\ 0 \in Waits

Status == {200, 401, 429, 500}

\* The codes both readers know (usage_limit_reached, ...; token_expired, ...),
\* and codes that contain such a word without being one.
Code == {"limit", "limit_like", "auth", "auth_like", "other"}

\* `at` is where the code stands: in `error`, in `response.error` or beside the
\* type.  "odd": a JSON value that is no object, or an `error` that is a text.
\* Lines that are not JSON, and other types, are skipped by both readers.
Completed == [type : {"completed"}, model : BOOLEAN]
Failure   == [type : {"failure"}, code : Code, at : {"error", "top"}]
Odd       == [type : {"odd"}]
Event     == Completed \cup Failure \cup Odd

\* retry: Retry-After; resets: resets_in_seconds or resets_at of the object;
\* whole: the transport has delivered all of it; large: more than 1 MB;
\* ticket: the state header, "late" if it is older than 3000 s.
Answer ==
  [status : Status, retry : Waits, ticket : {"none", "fresh", "late"},
   body : {"object", "stream", "neither"}, resets : Waits,
   events : Seq(Event),
   whole : BOOLEAN, large : BOOLEAN]

----------------------------------------------------------------------------
(* The collector's reading.                                                *)

\* raised: an AttributeError; the answer then counts as none at all.
Reading ==
  [stop : BOOLEAN, auth : BOOLEAN, wait : Nat, complete : BOOLEAN, failed : BOOLEAN,
   model : BOOLEAN, raised : BOOLEAN]

Nothing ==
  [stop |-> FALSE, auth |-> FALSE, wait |-> 0, complete |-> FALSE, failed |-> FALSE,
   model |-> FALSE, raised |-> FALSE]

\* The pause of a 429 (or 401, 403): the longest time that is named, if the
\* body is a JSON object; the headers are not looked at otherwise.
PauseOf(answer) ==
  IF answer.body = "object" THEN Max({MinWait, answer.resets, answer.retry})
  ELSE DefaultWait

Headed(answer) ==
  IF answer.status \in {401, 429}
  THEN [Nothing EXCEPT !.stop = TRUE, !.auth = answer.status = 401, !.wait = PauseOf(answer)]
  ELSE Nothing

\* request() knows no code beside the type.
CodeSeen(e) == IF e.at = "top" THEN "other" ELSE e.code

\* Mutant: a completed answer clears a failure.
CollectorReadsLast(out, e) ==
  CASE out.raised -> out
    [] ~out.raised /\ e.type = "odd" -> [out EXCEPT !.raised = TRUE]
    [] ~out.raised /\ e.type = "completed" ->
         [out EXCEPT !.complete = TRUE, !.failed = FALSE, !.model = e.model]
    [] ~out.raised /\ e.type = "failure" ->
         IF CodeSeen(e) \in {"limit", "auth"}
         THEN [out EXCEPT !.failed = TRUE, !.stop = TRUE, !.auth = CodeSeen(e) = "auth",
                          !.wait = DefaultWait]
         ELSE [out EXCEPT !.failed = TRUE]

\* One event.  A known code stops the account, whatever was known before.
CollectorReads(out, e) ==
  CASE out.raised -> out
    [] ~out.raised /\ e.type = "odd" -> [out EXCEPT !.raised = TRUE]
    [] ~out.raised /\ e.type = "completed" ->
         [out EXCEPT !.complete = TRUE, !.model = e.model]
    [] ~out.raised /\ e.type = "failure" ->
         IF CodeSeen(e) \in {"limit", "auth"}
         THEN [out EXCEPT !.failed = TRUE, !.stop = TRUE, !.auth = CodeSeen(e) = "auth",
                          !.wait = DefaultWait]
         ELSE [out EXCEPT !.failed = TRUE]

\* request(), event after event.
Request(answer) ==
  LET after[n \in 0 .. Len(answer.events)] ==
        IF n = 0 THEN Headed(answer) ELSE CollectorReads(after[n - 1], answer.events[n])
      out == after[Len(answer.events)]
  IN  IF out.raised THEN [Nothing EXCEPT !.raised = TRUE]
      ELSE [out EXCEPT !.complete = @ /\ ~out.failed /\ answer.whole]

\* collect(): a complete answer of the model.
Usable(out) == out.complete /\ out.model

----------------------------------------------------------------------------
(* The plugin's reading.                                                   *)

Harvest == [ok : BOOLEAN, terminal : BOOLEAN, limited : BOOLEAN]

\* Mutant: the last failure decides.
PluginReadsLast(out, e) ==
  CASE e.type = "odd" -> out
    [] e.type = "completed" -> [out EXCEPT !.completed = TRUE, !.match = e.model]
    [] e.type = "failure" ->
         [out EXCEPT !.failed = TRUE,
            !.limited = e.code \in {"limit", "limit_like"},
            !.terminal = e.code \in {"auth", "auth_like"}]

\* One event; what does not decode is skipped, and nothing is taken back.
PluginReads(out, e) ==
  CASE e.type = "odd" -> out
    [] e.type = "completed" -> [out EXCEPT !.completed = TRUE, !.match = e.model]
    [] e.type = "failure" ->
         [out EXCEPT !.failed = TRUE,
            !.limited = @ \/ e.code \in {"limit", "limit_like"},
            !.terminal = @ \/ e.code \in {"auth", "auth_like"}]

Refusal(terminal, limited) == [ok |-> FALSE, terminal |-> terminal, limited |-> limited]

Unread ==
  [completed |-> FALSE, failed |-> FALSE, limited |-> FALSE, match |-> FALSE,
   terminal |-> FALSE]

\* harvest(): another status, a body that is too large, or the whole stream.
Harvested(answer) ==
  LET after[n \in 0 .. Len(answer.events)] ==
        IF n = 0 THEN Unread ELSE PluginReads(after[n - 1], answer.events[n])
      out == after[Len(answer.events)]
      fine == /\ answer.whole /\ out.completed /\ ~out.failed /\ out.match
              /\ answer.ticket # "none"
  IN  IF answer.status # 200 THEN Refusal(answer.status = 401, answer.status = 429)
      ELSE IF answer.large THEN Refusal(FALSE, FALSE)
      ELSE IF fine THEN [ok |-> TRUE, terminal |-> FALSE, limited |-> FALSE]
      ELSE Refusal(out.terminal, out.limited)

----------------------------------------------------------------------------
(* Which answers the two readings are compared on, for the properties.     *)

\* Events as the upstream documents them: objects, codes in their place, and
\* the codes themselves.
Regular(answer) ==
  \A i \in DOMAIN answer.events :
    LET e == answer.events[i] IN
    /\ e.type # "odd"
    /\ e.type = "failure" => e.at = "error" /\ e.code \in {"limit", "auth", "other"}
=============================================================================
