------------------------------ MODULE Tickets ------------------------------
(***************************************************************************)
(* STATE tickets as the plugin (plugin/main.go) and the collector          *)
(* (collector/ticket_store.py, collector/state-cron.py) see them.          *)
(*                                                                         *)
(* A key stands for the triple (account, model, credential hash) that      *)
(* main.go's key() builds; a rotated credential is another key of the same *)
(* account.  The ticket's text is abstracted to an identity `id`; two      *)
(* tickets issued in the same second are different tickets.                *)
(***************************************************************************)
EXTENDS Integers

CONSTANTS
  Key,        \* the (account, model, credential) triples in play
  NoKey,      \* the key of the empty ticket, Ticket{} in the Go code
  FreshAge,   \* 3000 s: from this age on a ticket is due for renewal
  LifeAge,    \* 3570 s: from this age on a ticket is expired
  Skew        \* 30 s: how far in the future an issue time may lie

ASSUME TicketsAssumption ==
  /\ NoKey \notin Key
  /\ FreshAge \in Nat \ {0}
  /\ LifeAge \in Nat
  /\ FreshAge <= LifeAge
  /\ Skew \in Nat

Ticket == [key : Key, issued : Nat \ {0}, id : Nat]

NoTicket == [key |-> NoKey, issued |-> 0, id |-> 0]

(***************************************************************************)
(* validTicket: a well-formed ticket, not from the future, not expired.    *)
(* parseState's length, alphabet and first byte are part of being a        *)
(* Ticket: a malformed value never becomes one.                            *)
(***************************************************************************)
ValidTicket(t, n) ==
  /\ t.key \in Key
  /\ t.issued <= n + Skew
  /\ n < t.issued + LifeAge

\* ticket(): the current ticket is returned as it is, without renewal.
FreshTicket(t, n) ==
  /\ ValidTicket(t, n)
  /\ n < t.issued + FreshAge

\* ticket_store.candidate: what the collector accepts as a candidate.
CandidateAge(i, n) ==
  /\ n < i + FreshAge
  /\ i <= n + Skew

\* (mutant) The empty ticket is written like any other.
PersistedEmpty(s, k, t, n) ==
  {old \in s : old.key # k /\ ValidTicket(old, n)} \cup {t}

\* (mutant) The key's old ticket stays in the file.
PersistedBeside(s, k, t, n) ==
  {old \in s : ValidTicket(old, n)} \cup (IF t = NoTicket THEN {} ELSE {t})

(***************************************************************************)
(* persist(k, t): the content of tickets.json afterwards.  Tickets of      *)
(* other keys stay as long as they are valid; the empty ticket deletes.    *)
(***************************************************************************)
Persisted(s, k, t, n) ==
  {old \in s : old.key # k /\ ValidTicket(old, n)}
    \cup (IF t = NoTicket THEN {} ELSE {t})
=============================================================================
