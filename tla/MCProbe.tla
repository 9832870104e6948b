------------------------------ MODULE MCProbe ------------------------------
(***************************************************************************)
(* Values for the constants of Probe under TLC.                            *)
(***************************************************************************)
EXTENDS Probe

TwoGens == <<"g1", "g2">>
Clash2 == <<"c1", "c2">>
IP1    == <<"i1">>

Fails(code, at) == [type |-> "failure", code |-> code, at |-> at]

Events ==
  Completed \cup Odd
    \cup {Fails(code, "error") : code \in Code} \cup {Fails("auth", "top")}

Streamed ==
  [status : {200}, retry : {0}, ticket : {"none", "fresh", "late"}, body : {"stream"},
   resets : {0}, events : UNION {[1 .. n -> Events] : n \in 0 .. 2},
   whole : BOOLEAN, large : BOOLEAN]

\* A ticket, a whole answer, and three events.
LongStreamed ==
  [status : {200}, retry : {0}, ticket : {"fresh"}, body : {"stream"}, resets : {0},
   events : [1 .. 3 -> Events \ Odd], whole : {TRUE}, large : {FALSE}]

\* Errors: a JSON object, something else, or events all the same.
Refused ==
  [status : Status \ {200}, retry : Waits, ticket : {"none"}, body : {"object", "neither"},
   resets : Waits, events : {<<>>}, whole : BOOLEAN, large : {FALSE}]

RefusedStreamed ==
  [status : Status \ {200}, retry : Waits, ticket : {"fresh"}, body : {"stream"},
   resets : {0}, events : UNION {[1 .. n -> Events] : n \in 0 .. 1},
   whole : {TRUE}, large : {FALSE}]

AllAnswers == Streamed \cup LongStreamed \cup Refused \cup RefusedStreamed
=============================================================================
