---------------------------- MODULE PluginProofs ----------------------------
(***************************************************************************)
(* Proofs about Plugin for every set of accounts, keys and requests, every *)
(* limit and every bound of the environment: types, the key of every       *)
(* ticket, the locks, and the account's gate.                              *)
(***************************************************************************)
EXTENDS Plugin, FiniteSetTheorems, TLAPS

\* The empty ticket is no ticket of any key.
LEMMA NoTicketKey ==
  /\ NoTicket \notin Ticket
  /\ \A t \in Optional : t \in Ticket <=> t.key \in Key
  /\ \A t \in Optional : t \notin Ticket <=> t = NoTicket
BY TicketsAssumption DEF Ticket, NoTicket, Optional

\* Optional tickets are records with a key and an issue time.
LEMMA OptionalFields ==
  \A t \in Optional : t.key \in Key \cup {NoKey} /\ t.issued \in Nat
BY DEF Ticket, NoTicket, Optional

\* The durations are natural numbers.
LEMMA Durations ==
  /\ CoolShort \in Nat /\ CoolLong \in Nat
  /\ BackoffMin \in Nat \ {0} /\ MaxWait \in Nat
BY PluginAssumption

\* persist() leaves a file of tickets.
LEMMA PersistedType ==
  ASSUME NEW s \in SUBSET Ticket, NEW k, NEW t \in Optional, NEW n
  PROVE  Persisted(s, k, t, n) \in SUBSET Ticket
BY NoTicketKey DEF Persisted

LEMMA IdleType == Idle \in Job /\ NoEntry \in Entry
BY TicketsAssumption, PluginAssumption
DEF Idle, Job, NoEntry, Entry, PC, Serving, Gated, Holding, Harvesting, Optional

\* What the helpers that write `req` leave is well typed.
LEMMA JobTypes ==
  ASSUME req \in [Request -> Job], NEW r \in Request
  PROVE  /\ \A p \in PC : Goto(r, p) => req' \in [Request -> Job]
         /\ \A t \in Optional : Inject(r, t) => req' \in [Request -> Job]
         /\ Unprotected(r) => req' \in [Request -> Job]
         /\ Stream(r) => req' \in [Request -> Job]
<1>1. "send" \in PC /\ "stream" \in PC /\ NoTicket \in Optional
  BY DEF PC, Serving, Gated, Optional
<1>2. ASSUME NEW p \in PC, Goto(r, p) PROVE req' \in [Request -> Job]
  BY <1>2 DEF Goto, Job
<1>3. ASSUME NEW t \in Optional, Inject(r, t) PROVE req' \in [Request -> Job]
  BY <1>1, <1>3 DEF Inject, Job
<1>4. ASSUME Unprotected(r) PROVE req' \in [Request -> Job]
  BY <1>1, <1>4 DEF Unprotected, Job
<1>5. ASSUME Stream(r) PROVE req' \in [Request -> Job]
  BY <1>1, <1>5, IdleType DEF Stream, Job, Idle
<1>6. QED
  BY <1>2, <1>3, <1>4, <1>5

LEMMA FinishTypes ==
  ASSUME req \in [Request -> Job], busy \in [Account -> SUBSET Request],
         NEW r \in Request, Finish(r)
  PROVE  req' \in [Request -> Job] /\ busy' \in [Account -> SUBSET Request]
BY IdleType DEF Finish

LEMMA ReleaseTypes ==
  ASSUME entries \in [Key -> Entry], NEW r \in Request,
         NEW e \in Entry, Release(r, e)
  PROVE  entries' \in [Key -> Entry]
BY DEF Release, Entry

-----------------------------------------------------------------------------
(***************************************************************************)
(* Types.  KeyInv is needed along with TypeOK: entries[req[r].key] is an   *)
(* entry only if the request has a key.                                    *)
(***************************************************************************)
LEMMA InitTypes == Init => TypeOK /\ KeyInv
<1>1. Init => TypeOK
  BY IdleType, PluginAssumption DEF Init, TypeOK, Optional, Ticket
<1>2. Init => KeyInv
  BY DEF Init, KeyInv, At, NoEntry, NoTicket, Idle
<1>3. QED
  BY <1>1, <1>2

\* An entry of a key, and the key of a request that is under way.
LEMMA RequestKey ==
  ASSUME TypeOK, KeyInv, NEW r \in Request, ~At(r, "idle")
  PROVE  /\ req[r] \in Job
         /\ req[r].key \in Key
         /\ entries[req[r].key] \in Entry
         /\ entries[req[r].key].ticket \in Optional
         /\ req[r].cand \in Optional
         /\ AccountOf(r) \in Account
BY PluginAssumption DEF TypeOK, KeyInv, Job, Entry, AccountOf

LEMMA EnterTypes ==
  ASSUME TypeOK, KeyInv, NEW r \in Request, Enter(r) \/ Leave(r)
  PROVE  TypeOK'
<1>1. {"gate", "send", "lookup", "cached"} \subseteq PC
  BY DEF PC, Serving, Gated
<1>2. CASE AcquireBusiness(r)
  BY <1>1, <1>2, JobTypes DEF AcquireBusiness, TypeOK, config, env, history
<1>3. CASE RefuseBackoff(r) \/ MissingModel(r) \/ AbortSend(r)
  BY <1>3, FinishTypes DEF RefuseBackoff, MissingModel, AbortSend, TypeOK, config, env, history
<1>4. CASE PassGate(r)
  BY <1>1, <1>4, JobTypes DEF PassGate, TypeOK, config, env, history, gate
<1>5. CASE CachedTicket(r)
  <2>1. ~At(r, "idle")
    BY <1>5 DEF CachedTicket, At
  <2>2. QED
    BY <1>5, <2>1, RequestKey, JobTypes DEF CachedTicket, TypeOK, config, env, history, gate
<1>6. CASE CancelWait(r)
  BY <1>6, IdleType DEF CancelWait, TypeOK, config, env, history, gate
<1>7. CASE CancelSlot(r)
  <2>1. ~At(r, "idle")
    BY <1>7 DEF CancelSlot, At
  <2>2. QED
    BY <1>7, <2>1, RequestKey, ReleaseTypes, FinishTypes
    DEF CancelSlot, TypeOK, config, env, history
<1>8. QED
  BY <1>2, <1>3, <1>4, <1>5, <1>6, <1>7 DEF Enter, Leave

LEMMA GetTicketTypes ==
  ASSUME TypeOK, KeyInv, NEW r \in Request, GetTicket(r)
  PROVE  TypeOK'
<1>1. {"lock", "adopt", "decide", "remove", "slot", "client", "harvest"} \subseteq PC
  BY DEF PC, Serving, Gated, Holding, Harvesting
<1>2. ~At(r, "idle")
  BY DEF GetTicket, Lookup, EnterTicket, AdoptImport, AdoptFails, RemoveCandidate, Decide,
         AcquireSlot, HarvestClient,
         HarvestOK, HarvestUnsaved, HarvestUnavailable, HarvestFail, At
<1>3. CASE Lookup(r)
  <2>1. entries' \in [Key -> Entry]
    BY <1>3 DEF Lookup, TypeOK, Entry
  <2>2. QED
    BY <1>1, <1>3, <2>1, JobTypes DEF Lookup, TypeOK, config, env, history, gate
<1>4. CASE EnterTicket(r)
  <2>1. entries' \in [Key -> Entry]
    BY <1>4 DEF EnterTicket, TypeOK, Entry
  <2>2. incoming[req[r].key] \in Optional
    BY <1>2, RequestKey DEF TypeOK
  <2>3. req' \in [Request -> Job]
    BY <1>1, <1>4, <2>2 DEF EnterTicket, TypeOK, Job
  <2>4. QED
    BY <1>4, <2>1, <2>3 DEF EnterTicket, TypeOK, config, env, history, gate
<1>5. CASE AdoptImport(r)
  <2>1. req[r].cand \in Optional
    BY <1>2, RequestKey
  <2>2. entries' \in [Key -> Entry]
    BY <1>5, <2>1 DEF AdoptImport, TypeOK, Entry
  <2>3. store' \subseteq Ticket
    BY <1>5, <2>1, PersistedType DEF AdoptImport, TypeOK
  <2>4. QED
    BY <1>1, <1>5, <2>2, <2>3, JobTypes DEF AdoptImport, TypeOK, config, env, history, gate
<1>6. CASE AdoptFails(r)
  BY <1>2, <1>6, RequestKey, ReleaseTypes, JobTypes
  DEF AdoptFails, TypeOK, config, history, gate
<1>7. CASE RemoveCandidate(r)
  <2>1. NoTicket \in Optional
    BY DEF Optional
  <2>2. QED
    BY <1>1, <1>7, <2>1, JobTypes DEF RemoveCandidate, TypeOK, config, env, history, gate
<1>8. CASE Decide(r)
  <2>1. entries' \in [Key -> Entry] /\ req' \in [Request -> Job]
    BY <1>1, <1>2, <1>8, RequestKey, ReleaseTypes, JobTypes DEF Decide, TypeOK
  <2>2. QED
    BY <1>8, <2>1 DEF Decide, TypeOK, config, env, history, gate
<1>9. CASE AcquireSlot(r) \/ HarvestClient(r)
  BY <1>1, <1>9, JobTypes DEF AcquireSlot, HarvestClient, TypeOK, config, env, history, gate
<1>10. CASE HarvestOK(r)
  <2>1. PICK i \in 1..(now + Skew) :
          LET t == [key |-> req[r].key, issued |-> i, id |-> minted + 1] IN
          /\ store' = Persisted(store, req[r].key, t, now)
          /\ Release(r, [entries[req[r].key] EXCEPT !.ticket = t, !.cooldown = 0])
          /\ Inject(r, t)
    BY <1>10 DEF HarvestOK
  <2> DEFINE t == [key |-> req[r].key, issued |-> i, id |-> minted + 1]
  <2>2. t \in Ticket /\ t \in Optional
    BY <1>2, RequestKey, TicketsAssumption DEF TypeOK, Ticket, Optional
  <2>3. [entries[req[r].key] EXCEPT !.ticket = t, !.cooldown = 0] \in Entry
    BY <1>2, <2>2, RequestKey DEF Entry
  <2>4. entries' \in [Key -> Entry] /\ req' \in [Request -> Job] /\ store' \subseteq Ticket
    BY <2>1, <2>2, <2>3, ReleaseTypes, JobTypes, PersistedType DEF TypeOK
  <2>5. QED
    BY <1>10, <2>4 DEF HarvestOK, ReleaseSlot, TypeOK, config, history, gate
<1>11. CASE HarvestUnsaved(r)
  BY <1>2, <1>11, RequestKey, ReleaseTypes, JobTypes
  DEF HarvestUnsaved, ReleaseSlot, TypeOK, config, history, gate
<1>12. CASE HarvestUnavailable(r)
  <2>1. now + CoolShort \in Nat
    BY Durations DEF TypeOK
  <2>2. [entries[req[r].key] EXCEPT !.cooldown = now + CoolShort] \in Entry
    BY <1>2, <2>1, RequestKey DEF Entry
  <2>3. QED
    BY <1>12, <2>2, ReleaseTypes, JobTypes
    DEF HarvestUnavailable, ReleaseSlot, TypeOK, config, env, history, gate
<1>13. ASSUME NEW terminal \in BOOLEAN, NEW limited \in BOOLEAN,
              HarvestFail(r, terminal, limited)
       PROVE  TypeOK'
  <2> DEFINE e == entries[req[r].key]
             c == now + (IF terminal \/ limited THEN CoolLong ELSE CoolShort)
  <2>0. c \in Nat
    BY Durations DEF TypeOK
  <2>1. [e EXCEPT !.cooldown = c, !.blocked = terminal] \in Entry
    BY <1>2, <2>0, RequestKey DEF Entry
  <2>2. entries' \in [Key -> Entry]
    BY <1>13, <2>1, ReleaseTypes DEF HarvestFail, TypeOK
  <2>3. req' \in [Request -> Job]
    BY <1>2, <1>13, RequestKey, JobTypes DEF HarvestFail, TypeOK
  <2>4. QED
    BY <1>13, <2>2, <2>3 DEF HarvestFail, ReleaseSlot, TypeOK, config, env, history, gate
<1>14. QED
  BY <1>3, <1>4, <1>5, <1>6, <1>7, <1>8, <1>9, <1>10, <1>11, <1>12, <1>13 DEF GetTicket

LEMMA RelayTypes ==
  ASSUME TypeOK, KeyInv, NEW r \in Request, Relay(r)
  PROVE  TypeOK'
<1>1. {"await", "revoke"} \subseteq PC
  BY DEF PC, Serving
<1>2. CASE SendUpstream(r)
  BY <1>1, <1>2, JobTypes DEF SendUpstream, TypeOK, config, env, gate
<1>3. CASE TransportError(r) \/ EndStream(r)
  BY <1>3, FinishTypes DEF TransportError, EndStream, TypeOK, config, env, history
<1>4. CASE RespondOK(r)
  BY <1>4, JobTypes DEF RespondOK, TypeOK, config, env, history, gate
<1>5. CASE RespondDenied(r)
  <2>1. req' \in [Request -> Job]
    <3>1. CASE req[r].protected
      <4>1. req' = [req EXCEPT ![r] = [@ EXCEPT !.pc = "revoke", !.denied = TRUE]]
        BY <1>5, <3>1 DEF RespondDenied
      <4>2. [req[r] EXCEPT !.pc = "revoke", !.denied = TRUE] \in Job
        BY <1>1 DEF TypeOK, Job
      <4>3. QED
        BY <4>1, <4>2 DEF TypeOK
    <3>2. CASE ~req[r].protected
      BY <1>5, <3>2, JobTypes DEF RespondDenied, TypeOK
    <3>3. QED
      BY <3>1, <3>2
  <2>2. QED
    BY <1>5, <2>1 DEF RespondDenied, TypeOK, config, env, history, gate
<1>6. ASSUME NEW w \in 0..MaxWait, RespondLimited(r, w)
      PROVE  TypeOK'
  <2>1. req' \in [Request -> Job]
    BY <1>1, <1>6, JobTypes DEF RespondLimited, TypeOK
  <2>2. backoff' \in [Account -> Nat]
    <3>1. now + (IF w > BackoffMin THEN w ELSE BackoffMin) \in Nat
      BY Durations DEF TypeOK
    <3>2. QED
      BY <1>6, <3>1 DEF RespondLimited, Extended, TypeOK
  <2>3. leaked' \in [Account -> SUBSET Request]
    BY <1>6 DEF RespondLimited, TypeOK
  <2>4. QED
    BY <1>6, <2>1, <2>2, <2>3 DEF RespondLimited, TypeOK, config, env
<1>7. CASE Revoke(r)
  <2> DEFINE k == req[r].ticket.key
  <2>1. k \in Key /\ req[r].ticket \in Ticket /\ entries[k] \in Entry
    BY <1>7, RequestKey, NoTicketKey DEF Revoke, At, KeyInv, TypeOK, Job
  <2>2. entries' \in [Key -> Entry]
    <3>1. NoTicket \in Optional /\ now + CoolLong \in Nat
      BY Durations DEF Optional, TypeOK
    <3>2. CASE ~StillCurrent(r)
      BY <1>7, <3>2 DEF Revoke, TypeOK
    <3>3. CASE StillCurrent(r) /\ ~req[r].denied
      <4>1. entries' = [entries EXCEPT ![k].cooldown = now + CoolLong]
        BY <1>7, <3>3 DEF Revoke
      <4>2. QED
        BY <2>1, <3>1, <4>1 DEF TypeOK, Entry
    <3>4. CASE StillCurrent(r) /\ req[r].denied
      <4>1. [entries[k] EXCEPT !.ticket = NoTicket, !.cooldown = now + CoolLong,
                               !.blocked = TRUE] \in Entry
        BY <2>1, <3>1 DEF Entry
      <4>2. QED
        BY <1>7, <3>4, <4>1 DEF Revoke, TypeOK
    <3>5. QED
      BY <3>2, <3>3, <3>4
  <2>3. store' \subseteq Ticket
    BY <1>7, PersistedType DEF Revoke, TypeOK, Optional
  <2>4. revoked' \subseteq Ticket
    BY <1>7, <2>1 DEF Revoke, StillCurrent, TypeOK
  <2>5. req' \in [Request -> Job] /\ faults' \in Nat
    BY <1>7, JobTypes DEF Revoke, TypeOK
  <2>6. QED
    BY <1>7, <2>2, <2>3, <2>4, <2>5 DEF Revoke, TypeOK, config, gate
<1>8. QED
  BY <1>2, <1>3, <1>4, <1>5, <1>6, <1>7 DEF Relay

LEMMA StartTypes ==
  ASSUME TypeOK, NEW r \in Request, NEW k \in Key, NEW p \in BOOLEAN, Start(r, k, p)
  PROVE  TypeOK'
<1>1. "waiting" \in PC
  BY DEF PC
<1>2. [Idle EXCEPT !.pc = "waiting", !.key = k, !.protected = p] \in Job
  BY <1>1, IdleType DEF Job, Idle
<1>3. QED
  BY <1>2 DEF Start, TypeOK, config, env, history, gate

LEMMA ApplyConfigTypes ==
  ASSUME TypeOK, NEW c \in Configs, ApplyConfig(c[1], c[2])
  PROVE  TypeOK'
<1>1. c[1] \subseteq Account /\ c[2] \subseteq Account
  BY PluginAssumption
<1>2. ASSUME NEW k \in Key PROVE Loaded(k) \in Entry
  <2> DEFINE found == {t \in store : t.key = k /\ ValidTicket(t, now)}
  <2>1. CASE entries[k].known \/ found = {}
    BY <2>1 DEF Loaded, TypeOK
  <2>2. CASE ~entries[k].known /\ found # {}
    <3>1. (CHOOSE t \in found : TRUE) \in Optional
      BY <2>2 DEF TypeOK, Optional
    <3>2. Loaded(k) = [entries[k] EXCEPT !.known = TRUE, !.ticket = CHOOSE t \in found : TRUE]
      BY <2>2 DEF Loaded
    <3>3. PICK x \in Optional : Loaded(k) = [entries[k] EXCEPT !.known = TRUE, !.ticket = x]
      BY <3>1, <3>2
    <3>4. entries[k] \in Entry
      BY DEF TypeOK
    <3>5. QED
      BY <3>3, <3>4 DEF Entry
  <2>3. QED
    BY <2>1, <2>2
<1>3. QED
  BY <1>1, <1>2 DEF ApplyConfig, TypeOK, env, history, gate

LEMMA EnvironmentTypes ==
  ASSUME TypeOK
  PROVE  /\ \A k \in Key, i \in 1..(now + Skew) : QueueCandidate(k, i) => TypeOK'
         /\ Crash => TypeOK'
         /\ Tick => TypeOK'
<1>1. ASSUME NEW k \in Key, NEW i \in 1..(now + Skew), QueueCandidate(k, i)
      PROVE  TypeOK'
  <2>1. [key |-> k, issued |-> i, id |-> minted + 1] \in Optional
    BY TicketsAssumption DEF TypeOK, Optional, Ticket
  <2>2. QED
    BY <1>1, <2>1 DEF QueueCandidate, TypeOK, config, history, gate
<1>2. CASE Crash
  BY <1>2, IdleType DEF Crash, TypeOK
<1>3. CASE Tick
  BY <1>3 DEF Tick, TypeOK, config, env, history, gate
<1>4. QED
  BY <1>1, <1>2, <1>3

LEMMA TypeStep == TypeOK /\ KeyInv /\ [Next]_vars => TypeOK'
<1>1. CASE UNCHANGED vars
  BY <1>1 DEF vars, config, env, history, gate, TypeOK
<1>2. QED
  BY <1>1, EnterTypes, GetTicketTypes, RelayTypes, StartTypes, ApplyConfigTypes,
     EnvironmentTypes DEF Next

-----------------------------------------------------------------------------
(***************************************************************************)
(* Tickets stay with their key.                                            *)
(***************************************************************************)
\* What KeyInv says of one request.
JobKeyed(j) ==
  /\ j.pc # "idle" => j.key \in Key
  /\ j.pc = "adopt" => j.cand.key = j.key
  /\ j.pc \in {"send", "await", "revoke"} /\ j.protected => j.ticket.key = j.key
  /\ j.pc = "revoke" => j.protected

LEMMA KeyInvForm ==
  KeyInv <=> /\ \A k \in Key : entries[k].ticket.key \in {k, NoKey}
             /\ \A r \in Request : JobKeyed(req[r])
BY DEF KeyInv, JobKeyed, At

LEMMA KeyInvForm2 ==
  KeyInv' <=> /\ \A k \in Key : entries'[k].ticket.key \in {k, NoKey}
              /\ \A r \in Request : JobKeyed(req'[r])
BY DEF KeyInv, JobKeyed, At

\* A step of one request that leaves it keyed, and the entries' tickets alone.
LEMMA KeyedFrame ==
  ASSUME TypeOK, KeyInv, NEW r \in Request, JobKeyed(req'[r]),
         \A s \in Request \ {r} : req'[s] = req[s],
         \A k \in Key : entries'[k].ticket.key \in {k, NoKey}
  PROVE  KeyInv'
BY KeyInvForm, KeyInvForm2

\* Inject and Unprotected leave their request keyed.
LEMMA DecidedKeyed ==
  ASSUME TypeOK, NEW r \in Request, req[r].key \in Key
  PROVE  /\ \A t \in Optional :
              Inject(r, t) /\ t.key = req[r].key => JobKeyed(req'[r])
         /\ Unprotected(r) => JobKeyed(req'[r])
<1>1. ASSUME NEW t \in Optional, Inject(r, t), t.key = req[r].key
      PROVE  JobKeyed(req'[r])
  <2>1. /\ req'[r].pc = "send" /\ req'[r].ticket = t
        /\ req'[r].key = req[r].key
    BY <1>1 DEF Inject, TypeOK, Job
  <2>2. QED
    BY <1>1, <2>1 DEF JobKeyed
<1>2. ASSUME Unprotected(r) PROVE JobKeyed(req'[r])
  <2>1. /\ req'[r].pc = "send" /\ req'[r].protected = FALSE
        /\ req'[r].key = req[r].key
    BY <1>2 DEF Unprotected, TypeOK, Job
  <2>2. QED
    BY <2>1 DEF JobKeyed
<1>3. QED
  BY <1>1, <1>2

\* A valid ticket of an entry has the key of the entry.
LEMMA ValidEntry ==
  ASSUME TypeOK, KeyInv, NEW k \in Key, NEW n, ValidTicket(entries[k].ticket, n)
  PROVE  entries[k].ticket.key = k
BY TicketsAssumption DEF KeyInv, ValidTicket

LEMMA EnterKeyed ==
  ASSUME TypeOK, KeyInv, NEW r \in Request, Enter(r) \/ Leave(r)
  PROVE  KeyInv'
<1>1. req[r] \in Job /\ JobKeyed(req[r])
  BY KeyInvForm DEF TypeOK
<1>2. CASE AcquireBusiness(r)
  BY <1>1, <1>2, KeyedFrame, KeyInvForm DEF AcquireBusiness, Goto, At, JobKeyed, TypeOK, Job
<1>3. CASE RefuseBackoff(r) \/ MissingModel(r) \/ AbortSend(r) \/ CancelWait(r)
  BY <1>1, <1>3, KeyedFrame, KeyInvForm
  DEF RefuseBackoff, MissingModel, AbortSend, CancelWait, Finish, Idle, JobKeyed, TypeOK
<1>4. CASE PassGate(r)
  BY <1>1, <1>4, KeyedFrame, KeyInvForm DEF PassGate, Goto, At, JobKeyed, TypeOK, Job
<1>5. CASE CachedTicket(r)
  <2>1. ~At(r, "idle")
    BY <1>5 DEF CachedTicket, At
  <2>2. JobKeyed(req'[r])
    BY <1>5, <2>1, RequestKey, ValidEntry, DecidedKeyed DEF CachedTicket
  <2>3. QED
    BY <1>5, <2>2, KeyedFrame, KeyInvForm DEF CachedTicket, Inject, Unprotected, TypeOK
<1>6. CASE CancelSlot(r)
  <2>1. JobKeyed(req'[r]) /\ \A s \in Request \ {r} : req'[s] = req[s]
    BY <1>6 DEF CancelSlot, Finish, Idle, JobKeyed, TypeOK
  <2>2. \A k \in Key : entries'[k].ticket = entries[k].ticket
    BY <1>6 DEF CancelSlot, Release, TypeOK, Entry
  <2>3. QED
    BY <2>1, <2>2, KeyedFrame, KeyInvForm
<1>7. QED
  BY <1>2, <1>3, <1>4, <1>5, <1>6 DEF Enter, Leave

\* The helpers change one request.
LEMMA OthersSame ==
  ASSUME TypeOK, NEW r \in Request,
         \/ \E p : Goto(r, p)
         \/ \E t : Inject(r, t)
         \/ Unprotected(r) \/ Stream(r) \/ Finish(r)
  PROVE  \A s \in Request \ {r} : req'[s] = req[s]
BY DEF TypeOK, Goto, Inject, Unprotected, Stream, Finish

\* What Release leaves in the entries.
LEMMA ReleaseEntries ==
  ASSUME TypeOK, NEW r \in Request, NEW e \in Entry, Release(r, e), req[r].key \in Key
  PROVE  /\ entries'[req[r].key] = [e EXCEPT !.holder = NoRequest]
         /\ entries'[req[r].key].ticket = e.ticket
         /\ entries'[req[r].key].holder = NoRequest
         /\ \A k \in Key \ {req[r].key} : entries'[k] = entries[k]
BY DEF Release, TypeOK, Entry

\* ticket() returns: the entry e is left behind, the request decided.
LEMMA ReturnKeyed ==
  ASSUME TypeOK, KeyInv, NEW r \in Request, req[r].key \in Key,
         NEW e \in Entry, Release(r, e), e.ticket.key \in {req[r].key, NoKey},
         Unprotected(r) \/ \E t \in Optional : Inject(r, t) /\ t.key = req[r].key
  PROVE  KeyInv'
<1>1. JobKeyed(req'[r])
  BY DecidedKeyed
<1>2. \A s \in Request \ {r} : req'[s] = req[s]
  BY OthersSame
<1>3. ASSUME NEW j \in Key PROVE entries'[j].ticket.key \in {j, NoKey}
  <2>1. CASE j = req[r].key
    <3>1. entries'[j].ticket = e.ticket
      BY <2>1, ReleaseEntries
    <3>2. QED
      BY <2>1, <3>1
  <2>2. CASE j # req[r].key
    <3>1. entries'[j] = entries[j]
      BY <2>2, ReleaseEntries
    <3>2. QED
      BY <3>1, KeyInvForm
  <2>3. QED
    BY <2>1, <2>2
<1>4. QED
  BY <1>1, <1>2, <1>3, KeyedFrame

LEMMA GetTicketKeyed ==
  ASSUME TypeOK, KeyInv, NEW r \in Request, GetTicket(r)
  PROVE  KeyInv'
<1>1. ~At(r, "idle")
  BY DEF GetTicket, Lookup, EnterTicket, AdoptImport, AdoptFails, RemoveCandidate, Decide,
         AcquireSlot, HarvestClient,
         HarvestOK, HarvestUnsaved, HarvestUnavailable, HarvestFail, At
<1> DEFINE k == req[r].key
           e == entries[k]
<1>2. k \in Key /\ e \in Entry /\ req[r] \in Job /\ e.ticket \in Optional /\ JobKeyed(req[r])
  BY <1>1, RequestKey, KeyInvForm
<1>3. \A j \in Key : entries[j].ticket.key \in {j, NoKey}
  BY KeyInvForm
<1>4. \A p \in {"lock", "remove", "decide", "slot", "client", "harvest"} :
        Goto(r, p) => JobKeyed(req'[r])
  BY <1>2 DEF Goto, TypeOK, Job, JobKeyed
<1>5. CASE Lookup(r)
  <2>1. \A j \in Key : entries'[j].ticket = entries[j].ticket
    BY <1>5 DEF Lookup, TypeOK, Entry
  <2>2. QED
    BY <1>2, <1>3, <1>4, <1>5, <2>1, DecidedKeyed, OthersSame, KeyedFrame DEF Lookup
<1>6. CASE EnterTicket(r)
  <2>1. \A j \in Key : entries'[j].ticket = entries[j].ticket
    BY <1>6 DEF EnterTicket, TypeOK, Entry
  <2>2. /\ req'[r].pc \in {"adopt", "decide"} /\ req'[r].key = k /\ req'[r].cand = incoming[k]
        /\ req'[r].pc = "adopt" => incoming[k].key = k
    BY <1>2, <1>6 DEF EnterTicket, Importable, TypeOK, Job
  <2>3. JobKeyed(req'[r])
    BY <1>2, <2>2 DEF JobKeyed
  <2>4. \A s \in Request \ {r} : req'[s] = req[s]
    BY <1>6 DEF EnterTicket, TypeOK
  <2>5. QED
    BY <1>3, <2>1, <2>3, <2>4, KeyedFrame
<1>7. CASE AdoptImport(r)
  <2>1. req[r].cand.key = k
    BY <1>2, <1>7 DEF AdoptImport, At, JobKeyed
  <2>2. \A j \in Key : entries'[j].ticket.key \in {j, NoKey}
    BY <1>2, <1>3, <1>7, <2>1 DEF AdoptImport, TypeOK, Entry
  <2>3. QED
    BY <1>4, <1>7, <2>2, OthersSame, KeyedFrame DEF AdoptImport
<1>8. CASE AdoptFails(r) \/ HarvestUnsaved(r)
  BY <1>2, <1>3, <1>8, ReturnKeyed
  DEF AdoptFails, HarvestUnsaved
<1>9. CASE RemoveCandidate(r) \/ AcquireSlot(r) \/ HarvestClient(r)
  BY <1>3, <1>4, <1>9, OthersSame, KeyedFrame DEF RemoveCandidate, AcquireSlot, HarvestClient
<1>10. CASE Decide(r)
  <2>1. CASE Release(r, e) /\ Unprotected(r)
    BY <1>2, <1>3, <2>1, ReturnKeyed
  <2>2. CASE Release(r, e) /\ Inject(r, e.ticket) /\ ValidTicket(e.ticket, req[r].at)
    BY <1>2, <1>3, <2>2, ValidEntry, ReturnKeyed
  <2>3. CASE entries' = entries /\ Goto(r, "slot")
    BY <1>3, <1>4, <2>3, OthersSame, KeyedFrame
  <2>4. QED
    BY <1>10, <2>1, <2>2, <2>3 DEF Decide, FreshTicket
<1>11. CASE HarvestOK(r)
  <2>1. PICK i \in 1..(now + Skew) :
          LET t == [key |-> k, issued |-> i, id |-> minted + 1] IN
          /\ Release(r, [e EXCEPT !.ticket = t, !.cooldown = 0])
          /\ Inject(r, t)
    BY <1>11 DEF HarvestOK
  <2> DEFINE t == [key |-> k, issued |-> i, id |-> minted + 1]
  <2>2. t \in Optional /\ t.key = k
    BY <1>2, TicketsAssumption DEF TypeOK, Ticket, Optional
  <2>3. /\ [e EXCEPT !.ticket = t, !.cooldown = 0] \in Entry
        /\ [e EXCEPT !.ticket = t, !.cooldown = 0].ticket = t
    BY <1>2, <2>2 DEF Entry
  <2> DEFINE f == [e EXCEPT !.ticket = t, !.cooldown = 0]
  <2>4. f \in Entry /\ f.ticket.key = k /\ Release(r, f) /\ Inject(r, t)
    BY <2>1, <2>2, <2>3
  <2> HIDE DEF t, f
  <2>5. QED
    BY <1>2, <2>2, <2>4, ReturnKeyed
<1>12. CASE HarvestUnavailable(r)
  <2> DEFINE f == [e EXCEPT !.cooldown = now + CoolShort]
  <2>1. f \in Entry /\ f.ticket = e.ticket
    BY <1>2, Durations DEF TypeOK, Entry
  <2>2. Release(r, f) /\ Unprotected(r)
    BY <1>12 DEF HarvestUnavailable
  <2> HIDE DEF f
  <2>3. QED
    BY <1>2, <1>3, <2>1, <2>2, ReturnKeyed
<1>13. ASSUME NEW terminal \in BOOLEAN, NEW limited \in BOOLEAN,
              HarvestFail(r, terminal, limited)
       PROVE  KeyInv'
  <2> DEFINE c == now + (IF terminal \/ limited THEN CoolLong ELSE CoolShort)
             f == [e EXCEPT !.cooldown = c, !.blocked = terminal]
  <2>1. c \in Nat
    BY Durations DEF TypeOK
  <2>2. f \in Entry /\ f.ticket = e.ticket
    BY <1>2, <2>1 DEF Entry
  <2>3. Release(r, f)
    BY <1>13 DEF HarvestFail
  <2>4. Unprotected(r) \/ (Inject(r, e.ticket) /\ ValidTicket(e.ticket, now))
    BY <1>13 DEF HarvestFail
  <2> HIDE DEF f
  <2>5. QED
    BY <1>2, <1>3, <2>2, <2>3, <2>4, ValidEntry, ReturnKeyed
<1>14. QED
  BY <1>5, <1>6, <1>7, <1>8, <1>9, <1>10, <1>11, <1>12, <1>13 DEF GetTicket

LEMMA RelayKeyed ==
  ASSUME TypeOK, KeyInv, NEW r \in Request, Relay(r)
  PROVE  KeyInv'
<1>1. req[r] \in Job /\ JobKeyed(req[r])
  BY KeyInvForm DEF TypeOK
<1>2. \A k \in Key : entries[k].ticket.key \in {k, NoKey}
  BY KeyInvForm
<1>3. Stream(r) /\ req[r].key \in Key => JobKeyed(req'[r])
  BY DEF Stream, Idle, TypeOK, JobKeyed
<1>4. ~At(r, "idle") /\ req[r].key \in Key
  BY <1>1 DEF Relay, SendUpstream, TransportError, RespondOK, RespondDenied, RespondLimited,
              Revoke, EndStream, At, JobKeyed
<1>5. CASE SendUpstream(r)
  BY <1>1, <1>2, <1>5, OthersSame, KeyedFrame
  DEF SendUpstream, Goto, At, JobKeyed, TypeOK, Job
<1>6. CASE TransportError(r) \/ EndStream(r)
  BY <1>2, <1>6, KeyedFrame DEF TransportError, EndStream, Finish, Idle, JobKeyed, TypeOK
<1>7. CASE RespondOK(r)
  BY <1>2, <1>3, <1>4, <1>7, OthersSame, KeyedFrame DEF RespondOK
<1>8. CASE RespondDenied(r) /\ req[r].protected
  <2>1. /\ req'[r].pc = "revoke" /\ req'[r].protected /\ req'[r].key = req[r].key
        /\ req'[r].ticket = req[r].ticket
    <3>1. req' = [req EXCEPT ![r] = [@ EXCEPT !.pc = "revoke", !.denied = TRUE]]
      BY <1>8 DEF RespondDenied
    <3>2. QED
      BY <1>1, <1>8, <3>1 DEF TypeOK, Job
  <2>2. JobKeyed(req'[r])
    BY <1>1, <1>4, <1>8, <2>1 DEF JobKeyed, RespondDenied, At
  <2>3. QED
    BY <1>2, <1>8, <2>2, KeyedFrame DEF RespondDenied, TypeOK
<1>9. ASSUME NEW w \in 0..MaxWait, RespondLimited(r, w), req[r].protected
      PROVE  KeyInv'
  <2>1. Goto(r, "revoke")
    BY <1>9 DEF RespondLimited
  <2>2. /\ req'[r].pc = "revoke" /\ req'[r].protected /\ req'[r].key = req[r].key
        /\ req'[r].ticket = req[r].ticket
    BY <1>1, <1>9, <2>1 DEF Goto, TypeOK, Job
  <2>3. JobKeyed(req'[r])
    BY <1>1, <1>4, <1>9, <2>2 DEF JobKeyed, RespondLimited, At
  <2>4. QED
    BY <1>2, <1>9, <2>1, <2>3, OthersSame, KeyedFrame DEF RespondLimited
<1>10. CASE RespondDenied(r) /\ ~req[r].protected
  BY <1>2, <1>3, <1>4, <1>10, OthersSame, KeyedFrame DEF RespondDenied
<1>11. ASSUME NEW w \in 0..MaxWait, RespondLimited(r, w), ~req[r].protected
       PROVE  KeyInv'
  BY <1>2, <1>3, <1>4, <1>11, OthersSame, KeyedFrame DEF RespondLimited
<1>12. CASE Revoke(r)
  <2> DEFINE k == req[r].ticket.key
  <2>1. \A j \in Key : entries'[j].ticket \in {entries[j].ticket, NoTicket}
    <3>1. CASE ~StillCurrent(r)
      BY <1>12, <3>1 DEF Revoke
    <3>2. CASE StillCurrent(r) /\ ~req[r].denied
      <4>1. entries' = [entries EXCEPT ![k].cooldown = now + CoolLong]
        BY <1>12, <3>2 DEF Revoke
      <4>2. QED
        BY <4>1 DEF TypeOK, Entry
    <3>3. CASE StillCurrent(r) /\ req[r].denied
      <4>1. entries' = [entries EXCEPT ![k] = [entries[k] EXCEPT
               !.ticket = NoTicket, !.cooldown = now + CoolLong, !.blocked = TRUE]]
        BY <1>12, <3>3 DEF Revoke
      <4>2. QED
        BY <4>1 DEF TypeOK, Entry
    <3>4. QED
      BY <3>1, <3>2, <3>3
  <2>2. \A j \in Key : entries'[j].ticket.key \in {j, NoKey}
    BY <1>2, <2>1 DEF NoTicket
  <2>3. QED
    BY <1>3, <1>4, <1>12, <2>2, OthersSame, KeyedFrame DEF Revoke
<1>13. QED
  BY <1>5, <1>6, <1>7, <1>8, <1>9, <1>10, <1>11, <1>12 DEF Relay

LEMMA KeyStep == TypeOK /\ KeyInv /\ [Next]_vars => KeyInv'
<1> SUFFICES ASSUME TypeOK, KeyInv, [Next]_vars PROVE KeyInv'
  OBVIOUS
<1>1. CASE UNCHANGED vars
  BY <1>1 DEF vars, KeyInv, At
<1>2. ASSUME NEW r \in Request, NEW k \in Key, NEW p \in BOOLEAN, Start(r, k, p)
      PROVE  KeyInv'
  BY <1>2, KeyedFrame, KeyInvForm DEF Start, Idle, JobKeyed, TypeOK
<1>3. ASSUME NEW c \in Configs, ApplyConfig(c[1], c[2])
      PROVE  KeyInv'
  <2>1. ASSUME NEW k \in Key PROVE Loaded(k).ticket.key \in {k, NoKey}
    <3> DEFINE found == {t \in store : t.key = k /\ ValidTicket(t, now)}
    <3>1. CASE entries[k].known \/ found = {}
      BY <3>1 DEF Loaded, KeyInv
    <3>2. CASE ~entries[k].known /\ found # {}
      <4>1. (CHOOSE t \in found : TRUE) \in found
        BY <3>2
      <4>2. Loaded(k) = [entries[k] EXCEPT !.known = TRUE, !.ticket = CHOOSE t \in found : TRUE]
        BY <3>2 DEF Loaded
      <4>3. PICK x : x.key = k
                     /\ Loaded(k) = [entries[k] EXCEPT !.known = TRUE, !.ticket = x]
        BY <4>1, <4>2
      <4>4. entries[k] \in Entry
        BY DEF TypeOK
      <4>5. QED
        BY <4>3, <4>4 DEF Entry
    <3>3. QED
      BY <3>1, <3>2
  <2>2. QED
    BY <1>3, <2>1, KeyInvForm, KeyInvForm2 DEF ApplyConfig
<1>4. ASSUME NEW k \in Key, NEW i \in 1..(now + Skew), QueueCandidate(k, i)
      PROVE  KeyInv'
  BY <1>4 DEF QueueCandidate, KeyInv, At
<1>5. CASE Crash
  BY <1>5 DEF Crash, KeyInv, At, NoEntry, NoTicket, Idle
<1>6. CASE Tick
  BY <1>6 DEF Tick, KeyInv, At
<1>7. QED
  BY <1>1, <1>2, <1>3, <1>4, <1>5, <1>6, EnterKeyed, GetTicketKeyed, RelayKeyed DEF Next

\* TypeOK holds in every behaviour of the plugin, for every set of accounts,
\* keys and handlers and every bound.
THEOREM TypeCorrect == Spec => []TypeOK
<1>1. Init => TypeOK /\ KeyInv
  BY InitTypes
<1>2. TypeOK /\ KeyInv /\ [Next]_vars => (TypeOK /\ KeyInv)'
  BY TypeStep, KeyStep
<1>3. QED
  BY <1>1, <1>2, PTL DEF Spec

\* The same for the keys of tickets: main.go never moves a ticket from one
\* account, model and credential to another.
THEOREM TicketsKeepTheirKey == Spec => []InjectedTicketFits
<1>1. Init => TypeOK /\ KeyInv
  BY InitTypes
<1>2. TypeOK /\ KeyInv /\ [Next]_vars => (TypeOK /\ KeyInv)'
  BY TypeStep, KeyStep
<1>3. KeyInv => InjectedTicketFits
  BY DEF KeyInv, InjectedTicketFits
<1>4. QED
  BY <1>1, <1>2, <1>3, PTL DEF Spec

(***************************************************************************)
(* Locks.  The lock of each entry and the tokens of the harvest semaphore  *)
(* belong to the requests at the places where ticket() holds them, and to  *)
(* no other.                                                               *)
(***************************************************************************)

\* An entry is locked by r exactly while r is inside ticket() with its key.
Locked ==
  \A r \in Request, k \in Key :
    entries[k].holder = r <=> req[r].pc \in Holding /\ req[r].key = k

Tokens ==
  /\ slots = {r \in Request : req[r].pc \in Harvesting}
  /\ Cardinality(slots) <= HarvestSlots

\* What a step of r may do to the locks ...
LocksSame == \A k \in Key : entries'[k].holder = entries[k].holder

LockedBy(r, q) ==
  /\ entries'[req[r].key].holder = q
  /\ \A k \in Key \ {req[r].key} : entries'[k].holder = entries[k].holder

Passes(r) == req[r].pc \notin Holding /\ req'[r].pc \notin Holding /\ LocksSame

Locks(r) ==
  /\ req[r].pc \notin Holding /\ req'[r].pc \in Holding /\ req'[r].key = req[r].key
  /\ LockFree(req[r].key) /\ LockedBy(r, r)

Keeps(r) ==
  /\ req[r].pc \in Holding /\ req'[r].pc \in Holding /\ req'[r].key = req[r].key
  /\ LocksSame

Unlocks(r) ==
  req[r].pc \in Holding /\ req'[r].pc \notin Holding /\ LockedBy(r, NoRequest)

Moves(r) == Passes(r) \/ Locks(r) \/ Keeps(r) \/ Unlocks(r)

\* ... and to the tokens.
TokensSame(r) ==
  slots' = slots /\ (req[r].pc \in Harvesting <=> req'[r].pc \in Harvesting)

TakesToken(r) ==
  /\ Cardinality(slots) < HarvestSlots
  /\ slots' = slots \cup {r} /\ req'[r].pc \in Harvesting

GivesToken(r) == slots' = slots \ {r} /\ req'[r].pc \notin Harvesting

Counts(r) == TokensSame(r) \/ TakesToken(r) \/ GivesToken(r)

\* The helpers that write `req`: where the request is afterwards.
LEMMA WhereTo ==
  ASSUME TypeOK, NEW r \in Request
  PROVE  /\ \A p : Goto(r, p) => req'[r].pc = p /\ req'[r].key = req[r].key
         /\ \A t : Inject(r, t) => req'[r].pc = "send"
         /\ Unprotected(r) => req'[r].pc = "send"
         /\ Stream(r) => req'[r].pc = "stream"
         /\ Finish(r) => req'[r].pc = "idle"
<1>1. ASSUME NEW p, Goto(r, p) PROVE req'[r].pc = p /\ req'[r].key = req[r].key
  BY <1>1 DEF Goto, TypeOK, Job
<1>2. ASSUME NEW t, Inject(r, t) PROVE req'[r].pc = "send"
  BY <1>2 DEF Inject, TypeOK, Job
<1>3. ASSUME Unprotected(r) PROVE req'[r].pc = "send"
  BY <1>3 DEF Unprotected, TypeOK, Job
<1>4. ASSUME Stream(r) PROVE req'[r].pc = "stream"
  BY <1>4 DEF Stream, Idle, TypeOK
<1>5. ASSUME Finish(r) PROVE req'[r].pc = "idle"
  BY <1>5 DEF Finish, Idle, TypeOK
<1>6. QED
  BY <1>1, <1>2, <1>3, <1>4, <1>5

\* The deferred unlock of ticket().
LEMMA ReleaseUnlocks ==
  ASSUME TypeOK, KeyInv, NEW r \in Request, ~At(r, "idle"), NEW e, Release(r, e),
         e \in Entry
  PROVE  LockedBy(r, NoRequest)
BY RequestKey, ReleaseEntries DEF LockedBy

\* The named places and the parts of the handler they belong to.
LEMMA Parts ==
  /\ {"adopt", "remove", "decide", "slot", "client", "harvest"} = Holding
  /\ {"client", "harvest"} = Harvesting
BY DEF Holding, Harvesting

LEMMA EnterLocks ==
  ASSUME TypeOK, KeyInv, NEW r \in Request,
         Enter(r) \/ Leave(r) \/ \E k \in Key, p \in BOOLEAN : Start(r, k, p)
  PROVE  /\ \A s \in Request \ {r} : req'[s] = req[s]
         /\ Moves(r) /\ Counts(r)
<1> USE DEF Moves, Counts, TokensSame, Passes, LocksSame, At
<1>1. CASE \E k \in Key, p \in BOOLEAN : Start(r, k, p)
  <2>1. PICK k \in Key, p \in BOOLEAN : Start(r, k, p)
    BY <1>1
  <2>2. /\ req[r].pc = "idle" /\ req'[r].pc = "waiting"
        /\ entries' = entries /\ slots' = slots
        /\ \A s \in Request \ {r} : req'[s] = req[s]
    BY <2>1 DEF Start, Idle, TypeOK
  <2>3. QED
    BY <2>2, Parts
<1>2. CASE CancelWait(r)
  <2>1. req[r].pc = "waiting" /\ req'[r].pc = "idle"
    BY <1>2 DEF CancelWait, Idle, TypeOK
  <2>2. QED
    BY <1>2, <2>1, Parts DEF CancelWait, TypeOK
<1>3. CASE AcquireBusiness(r) \/ RefuseBackoff(r) \/ MissingModel(r) \/ AbortSend(r)
  BY <1>3, WhereTo, OthersSame, Parts DEF AcquireBusiness, RefuseBackoff, MissingModel, AbortSend
<1>4. CASE PassGate(r)
  BY <1>4, WhereTo, OthersSame, Parts DEF PassGate
<1>5. CASE CachedTicket(r)
  BY <1>5, WhereTo, OthersSame, Parts DEF CachedTicket
<1>6. CASE CancelSlot(r)
  <2>1. ~At(r, "idle") /\ req[r].pc = "slot"
    BY <1>6 DEF CancelSlot
  <2>2. LockedBy(r, NoRequest)
    BY <1>6, <2>1, RequestKey, ReleaseUnlocks DEF CancelSlot
  <2>3. QED
    BY <1>6, <2>1, <2>2, WhereTo, OthersSame, Parts DEF CancelSlot, Unlocks
<1>7. QED
  BY <1>1, <1>2, <1>3, <1>4, <1>5, <1>6 DEF Enter, Leave

LEMMA TicketLocks ==
  ASSUME TypeOK, KeyInv, NEW r \in Request, GetTicket(r)
  PROVE  /\ \A s \in Request \ {r} : req'[s] = req[s]
         /\ Moves(r) /\ Counts(r)
<1> USE DEF Moves, Counts, TokensSame, At
<1>1. ~At(r, "idle")
  BY DEF GetTicket, Lookup, EnterTicket, AdoptImport, AdoptFails, RemoveCandidate, Decide,
         AcquireSlot, HarvestClient,
         HarvestOK, HarvestUnsaved, HarvestUnavailable, HarvestFail
<1> DEFINE k == req[r].key
           e == entries[k]
<1>2. k \in Key /\ e \in Entry
  BY <1>1, RequestKey
<1>3. CASE Lookup(r)
  <2>1. LocksSame
    BY <1>3 DEF Lookup, LocksSame, TypeOK, Entry
  <2>2. QED
    BY <1>3, <2>1, WhereTo, OthersSame, Parts DEF Lookup, Passes
<1>4. CASE EnterTicket(r)
  <2>1. /\ req'[r].pc \in {"adopt", "decide"} /\ req'[r].key = k
        /\ \A s \in Request \ {r} : req'[s] = req[s]
    BY <1>4 DEF EnterTicket, TypeOK, Job
  <2>2. LockedBy(r, r)
    BY <1>2, <1>4 DEF EnterTicket, LockedBy, TypeOK, Entry
  <2>3. QED
    BY <1>4, <2>1, <2>2, Parts DEF EnterTicket, Locks
<1>5. CASE AdoptImport(r)
  <2>1. LocksSame
    BY <1>2, <1>5 DEF AdoptImport, LocksSame, TypeOK, Entry
  <2>2. QED
    BY <1>5, <2>1, WhereTo, OthersSame, Parts DEF AdoptImport, Keeps
<1>6. CASE RemoveCandidate(r)
  BY <1>6, WhereTo, OthersSame, Parts DEF RemoveCandidate, Keeps, LocksSame
<1>7. CASE AdoptFails(r)
  <2>1. LockedBy(r, NoRequest)
    BY <1>1, <1>2, <1>7, ReleaseUnlocks DEF AdoptFails
  <2>2. QED
    BY <1>7, <2>1, WhereTo, OthersSame, Parts DEF AdoptFails, Unlocks
<1>8. CASE Decide(r)
  <2>1. CASE Release(r, e) /\ (Unprotected(r) \/ Inject(r, e.ticket))
    <3>1. LockedBy(r, NoRequest)
      BY <1>1, <1>2, <2>1, ReleaseUnlocks
    <3>2. QED
      BY <1>8, <2>1, <3>1, WhereTo, OthersSame, Parts DEF Decide, Unlocks
  <2>2. CASE entries' = entries /\ Goto(r, "slot")
    BY <1>8, <2>2, WhereTo, OthersSame, Parts DEF Decide, Keeps, LocksSame
  <2>3. QED
    BY <1>8, <2>1, <2>2 DEF Decide
<1>9. CASE AcquireSlot(r)
  BY <1>9, WhereTo, OthersSame, Parts DEF AcquireSlot, Keeps, LocksSame, TakesToken
<1>10. CASE HarvestClient(r)
  BY <1>10, WhereTo, OthersSame, Parts DEF HarvestClient, Keeps, LocksSame
\* What is left returns from ticket() with the token.
<1>11. ASSUME req[r].pc \in {"client", "harvest"},
              \E f \in Entry : Release(r, f),
              Unprotected(r) \/ \E t : Inject(r, t),
              ReleaseSlot(r)
       PROVE  /\ \A s \in Request \ {r} : req'[s] = req[s]
              /\ Moves(r) /\ Counts(r)
  <2>1. LockedBy(r, NoRequest)
    BY <1>1, <1>11, ReleaseUnlocks
  <2>2. QED
    BY <1>11, <2>1, WhereTo, OthersSame, Parts DEF Unlocks, ReleaseSlot, GivesToken
<1>12. CASE HarvestUnsaved(r)
  BY <1>2, <1>11, <1>12 DEF HarvestUnsaved
<1>13. CASE HarvestUnavailable(r)
  <2>1. [e EXCEPT !.cooldown = now + CoolShort] \in Entry
    BY <1>2, Durations DEF TypeOK, Entry
  <2>2. QED
    BY <1>11, <1>13, <2>1 DEF HarvestUnavailable
<1>14. CASE HarvestOK(r)
  <2>1. PICK i \in 1..(now + Skew) :
          LET t == [key |-> k, issued |-> i, id |-> minted + 1] IN
          /\ Release(r, [e EXCEPT !.ticket = t, !.cooldown = 0])
          /\ Inject(r, t)
    BY <1>14 DEF HarvestOK
  <2> DEFINE t == [key |-> k, issued |-> i, id |-> minted + 1]
  <2>2. t \in Optional
    BY <1>2, TicketsAssumption DEF TypeOK, Ticket, Optional
  <2>3. [e EXCEPT !.ticket = t, !.cooldown = 0] \in Entry
    BY <1>2, <2>2 DEF Entry
  <2>4. (\E f \in Entry : Release(r, f)) /\ \E x : Inject(r, x)
    BY <2>1, <2>3
  <2>5. QED
    BY <1>11, <1>14, <2>4 DEF HarvestOK
<1>15. ASSUME NEW terminal \in BOOLEAN, NEW limited \in BOOLEAN,
              HarvestFail(r, terminal, limited)
       PROVE  /\ \A s \in Request \ {r} : req'[s] = req[s]
              /\ Moves(r) /\ Counts(r)
  <2> DEFINE c == now + (IF terminal \/ limited THEN CoolLong ELSE CoolShort)
  <2>1. c \in Nat
    BY Durations DEF TypeOK
  <2>2. [e EXCEPT !.cooldown = c, !.blocked = terminal] \in Entry
    BY <1>2, <2>1 DEF Entry
  <2>3. \E f \in Entry : Release(r, f)
    BY <1>15, <2>2 DEF HarvestFail
  <2>4. Unprotected(r) \/ \E t : Inject(r, t)
    BY <1>15 DEF HarvestFail
  <2>5. QED
    BY <1>11, <1>15, <2>3, <2>4 DEF HarvestFail
<1>16. QED
  BY <1>3, <1>4, <1>5, <1>6, <1>7, <1>8, <1>9, <1>10, <1>12, <1>13, <1>14, <1>15 DEF GetTicket

LEMMA RelayLocks ==
  ASSUME TypeOK, KeyInv, NEW r \in Request, Relay(r)
  PROVE  /\ \A s \in Request \ {r} : req'[s] = req[s]
         /\ Moves(r) /\ Counts(r)
<1> USE DEF Moves, Counts, TokensSame, Passes, LocksSame, At
<1>1. CASE SendUpstream(r) \/ TransportError(r) \/ RespondOK(r) \/ EndStream(r)
  BY <1>1, WhereTo, OthersSame, Parts DEF SendUpstream, TransportError, RespondOK, EndStream
<1>2. CASE RespondDenied(r)
  <2>1. CASE req[r].protected
    <3>1. req' = [req EXCEPT ![r] = [@ EXCEPT !.pc = "revoke", !.denied = TRUE]]
      BY <1>2, <2>1 DEF RespondDenied
    <3>2. req'[r].pc = "revoke" /\ \A s \in Request \ {r} : req'[s] = req[s]
      BY <3>1 DEF TypeOK, Job
    <3>3. QED
      BY <1>2, <3>2, Parts DEF RespondDenied
  <2>2. CASE ~req[r].protected
    BY <1>2, <2>2, WhereTo, OthersSame, Parts DEF RespondDenied
  <2>3. QED
    BY <2>1, <2>2
<1>3. CASE \E w \in 0..MaxWait : RespondLimited(r, w)
  BY <1>3, WhereTo, OthersSame, Parts DEF RespondLimited
<1>4. CASE Revoke(r)
  <2> DEFINE k == req[r].ticket.key
  <2>1. LocksSame
    <3>1. CASE ~StillCurrent(r)
      BY <1>4, <3>1 DEF Revoke
    <3>2. CASE StillCurrent(r) /\ ~req[r].denied
      <4>1. entries' = [entries EXCEPT ![k].cooldown = now + CoolLong]
        BY <1>4, <3>2 DEF Revoke
      <4>2. QED
        BY <4>1 DEF TypeOK, Entry
    <3>3. CASE StillCurrent(r) /\ req[r].denied
      <4>1. entries' = [entries EXCEPT ![k] = [entries[k] EXCEPT
               !.ticket = NoTicket, !.cooldown = now + CoolLong, !.blocked = TRUE]]
        BY <1>4, <3>3 DEF Revoke
      <4>2. QED
        BY <4>1 DEF TypeOK, Entry
    <3>4. QED
      BY <3>1, <3>2, <3>3
  <2>2. QED
    BY <1>4, <2>1, WhereTo, OthersSame, Parts DEF Revoke
<1>5. QED
  BY <1>1, <1>2, <1>3, <1>4 DEF Relay

\* A step of one request keeps locks and tokens with their owners.
LEMMA LockStepOne ==
  ASSUME TypeOK, KeyInv, Locked, Tokens, NEW r \in Request,
         \A s \in Request \ {r} : req'[s] = req[s],
         Moves(r), Counts(r)
  PROVE  Locked' /\ Tokens'
<1>1. Locked'
  <2> SUFFICES ASSUME NEW s \in Request, NEW k \in Key
               PROVE  entries'[k].holder = s <=> req'[s].pc \in Holding /\ req'[s].key = k
    BY DEF Locked
  <2>1. /\ \A q \in Request : entries[k].holder = q
                              <=> req[q].pc \in Holding /\ req[q].key = k
        /\ NoRequest \notin Request
    BY PluginAssumption DEF Locked
  <2>2. s # r => req'[s] = req[s]
    OBVIOUS
  <2>3. CASE Passes(r)
    BY <2>1, <2>2, <2>3 DEF Passes, LocksSame
  <2>4. CASE Keeps(r)
    BY <2>1, <2>2, <2>4 DEF Keeps, LocksSame
  <2>5. CASE Locks(r)
    BY <2>1, <2>2, <2>5 DEF Locks, LockedBy, LockFree
  <2>6. CASE Unlocks(r)
    BY <2>1, <2>2, <2>6 DEF Unlocks, LockedBy
  <2>7. QED
    BY <2>3, <2>4, <2>5, <2>6 DEF Moves
<1>2. slots' = {s \in Request : req'[s].pc \in Harvesting}
  BY DEF Tokens, Counts, TokensSame, TakesToken, GivesToken
<1>3. Cardinality(slots') <= HarvestSlots
  <2>1. /\ IsFiniteSet(slots) /\ Cardinality(slots) \in Nat
        /\ Cardinality(slots) <= HarvestSlots /\ HarvestSlots \in Nat
    BY PluginAssumption, FS_Subset, FS_CardinalityType DEF Tokens
  <2>2. CASE TokensSame(r)
    BY <2>1, <2>2 DEF TokensSame
  <2>3. CASE TakesToken(r)
    <3>1. Cardinality(slots \cup {r}) <= Cardinality(slots) + 1
      <4>1. Cardinality(slots \cup {r}) = IF r \in slots THEN Cardinality(slots)
                                          ELSE Cardinality(slots) + 1
        BY <2>1, FS_AddElement
      <4>2. QED
        BY <2>1, <4>1
    <3>2. Cardinality(slots \cup {r}) \in Nat
      BY <2>1, FS_AddElement, FS_CardinalityType
    <3>3. QED
      BY <2>1, <2>3, <3>1, <3>2 DEF TakesToken
  <2>4. CASE GivesToken(r)
    <3>1. slots \ {r} \subseteq slots
      OBVIOUS
    <3>2. Cardinality(slots \ {r}) <= Cardinality(slots) /\ Cardinality(slots \ {r}) \in Nat
      BY <2>1, <3>1, FS_Subset, FS_CardinalityType
    <3>3. QED
      BY <2>1, <2>4, <3>2 DEF GivesToken
  <2>5. QED
    BY <2>2, <2>3, <2>4 DEF Counts
<1>4. QED
  BY <1>1, <1>2, <1>3 DEF Tokens

\* A step that leaves every handler, every lock and every token alone.
LEMMA LockFrame ==
  ASSUME Locked, Tokens, req' = req, slots' = slots, LocksSame
  PROVE  Locked' /\ Tokens'
BY DEF Locked, Tokens, LocksSame

\* The state in which nobody holds anything.
LEMMA LocksEmpty ==
  ASSUME entries = [k \in Key |-> NoEntry], slots = {}, req = [r \in Request |-> Idle]
  PROVE  Locked /\ Tokens
<1>1. NoRequest \notin Request /\ HarvestSlots \in Nat /\ Cardinality({}) = 0
  BY PluginAssumption, FS_EmptySet
<1>2. Locked
  BY <1>1, Parts DEF Locked, NoEntry, Idle
<1>3. QED
  BY <1>1, <1>2, Parts DEF Tokens, Idle

\* The same after a restart.
LEMMA LocksEmptied ==
  ASSUME entries' = [k \in Key |-> NoEntry], slots' = {}, req' = [r \in Request |-> Idle]
  PROVE  Locked' /\ Tokens'
<1>1. NoRequest \notin Request /\ HarvestSlots \in Nat /\ Cardinality({}) = 0
  BY PluginAssumption, FS_EmptySet
<1>2. Locked'
  BY <1>1, Parts DEF Locked, NoEntry, Idle
<1>3. QED
  BY <1>1, <1>2, Parts DEF Tokens, Idle

LEMMA LockStep == TypeOK /\ KeyInv /\ Locked /\ Tokens /\ [Next]_vars => (Locked /\ Tokens)'
<1> SUFFICES ASSUME TypeOK, KeyInv, Locked, Tokens, [Next]_vars
             PROVE  (Locked /\ Tokens)'
  OBVIOUS
<1>1. ASSUME NEW r \in Request,
             \/ \E k \in Key, p \in BOOLEAN : Start(r, k, p)
             \/ Enter(r) \/ GetTicket(r) \/ Relay(r) \/ Leave(r)
      PROVE  (Locked /\ Tokens)'
  BY <1>1, EnterLocks, TicketLocks, RelayLocks, LockStepOne
<1>2. ASSUME NEW c \in Configs, ApplyConfig(c[1], c[2])
      PROVE  (Locked /\ Tokens)'
  <2>1. ASSUME NEW k \in Key PROVE Loaded(k).holder = entries[k].holder
    <3> DEFINE found == {t \in store : t.key = k /\ ValidTicket(t, now)}
    <3>1. PICK x : \/ Loaded(k) = entries[k]
                   \/ Loaded(k) = [entries[k] EXCEPT !.known = TRUE, !.ticket = x]
      BY DEF Loaded
    <3>2. entries[k] \in Entry
      BY DEF TypeOK
    <3>3. QED
      BY <3>1, <3>2 DEF Entry
  <2>2. QED
    BY <1>2, <2>1, LockFrame DEF ApplyConfig, LocksSame
<1>3. CASE Crash
  BY <1>3, LocksEmptied DEF Crash
<1>4. CASE req' = req /\ slots' = slots /\ entries' = entries
  BY <1>4, LockFrame DEF LocksSame
<1>5. QED
  BY <1>1, <1>2, <1>3, <1>4 DEF Next, QueueCandidate, Tick, vars

\* ticket(): for every number of handlers, keys and harvest slots, one request
\* at a time is inside the critical section of a key, and the semaphore counts
\* exactly the requests that harvest: every return path, also the failing ones
\* and the cancelled one, unlocks the entry and gives the token back.
THEOREM OneHarvestPerKey == Spec => []SingleFlight
<1>1. Init => TypeOK /\ KeyInv /\ Locked /\ Tokens
  BY InitTypes, LocksEmpty DEF Init
<1>2. TypeOK /\ KeyInv /\ Locked /\ Tokens /\ [Next]_vars
        => (TypeOK /\ KeyInv /\ Locked /\ Tokens)'
  BY TypeStep, KeyStep, LockStep
<1>3. TypeOK /\ KeyInv /\ Locked /\ Tokens => SingleFlight
  <2> SUFFICES ASSUME TypeOK, KeyInv, Locked, NEW r \in Request, NEW s \in Request,
                      req[r].pc \in Holding, req[s].pc \in Holding, req[r].key = req[s].key
               PROVE  r = s
    BY DEF SingleFlight, Tokens
  <2>1. req[r].key \in Key
    BY RequestKey DEF At, Holding, Harvesting
  <2>2. QED
    BY <2>1 DEF Locked
<1>4. QED
  BY <1>1, <1>2, <1>3, PTL DEF Spec

(***************************************************************************)
(* The account's gate: the slots of acquireBusiness and the back-off after *)
(* a 429.  What a handler's step does to the gate is one of four things;   *)
(* the theorems follow from those.                                         *)
(***************************************************************************)

\* A step of r that neither starts nor ends the service of a request.
Outside(r) ==
  /\ req[r].pc \notin Serving /\ req'[r].pc \notin Serving
  /\ busy' = busy

Admitted(r) ==
  /\ req[r].pc = "waiting" /\ req'[r].pc = "gate" /\ req'[r].key = req[r].key
  /\ Cardinality(busy[AccountOf(r)]) < Limit
  /\ busy' = [busy EXCEPT ![AccountOf(r)] = @ \cup {r}]

Stays(r) ==
  /\ req[r].pc \in Serving /\ req'[r].pc \in Serving /\ req'[r].key = req[r].key
  /\ busy' = busy

Leaves(r) ==
  /\ req[r].pc \in Serving /\ req'[r].pc = "idle"
  /\ busy' = [busy EXCEPT ![AccountOf(r)] = @ \ {r}]

\* The helpers that write `req`: where the request is afterwards.
LEMMA Places ==
  ASSUME TypeOK, NEW r \in Request
  PROVE  /\ \A p : Goto(r, p) => req'[r].pc = p /\ req'[r].key = req[r].key
         /\ \A t : Inject(r, t) => req'[r].pc = "send" /\ req'[r].key = req[r].key
         /\ Unprotected(r) => req'[r].pc = "send" /\ req'[r].key = req[r].key
         /\ Stream(r) => req'[r].pc = "stream" /\ req'[r].key = req[r].key
         /\ Finish(r) => /\ req'[r].pc = "idle"
                         /\ busy' = [busy EXCEPT ![AccountOf(r)] = @ \ {r}]
<1>1. ASSUME NEW p, Goto(r, p) PROVE req'[r].pc = p /\ req'[r].key = req[r].key
  BY <1>1 DEF Goto, TypeOK, Job
<1>2. ASSUME NEW t, Inject(r, t) PROVE req'[r].pc = "send" /\ req'[r].key = req[r].key
  BY <1>2 DEF Inject, TypeOK, Job
<1>3. ASSUME Unprotected(r) PROVE req'[r].pc = "send" /\ req'[r].key = req[r].key
  BY <1>3 DEF Unprotected, TypeOK, Job
<1>4. ASSUME Stream(r) PROVE req'[r].pc = "stream" /\ req'[r].key = req[r].key
  BY <1>4 DEF Stream, Idle, TypeOK
<1>5. ASSUME Finish(r)
      PROVE  /\ req'[r].pc = "idle"
             /\ busy' = [busy EXCEPT ![AccountOf(r)] = @ \ {r}]
  BY <1>5 DEF Finish, Idle, TypeOK
<1>6. QED
  BY <1>1, <1>2, <1>3, <1>4, <1>5

\* Start, Enter and Leave: a request is admitted, refused, or goes on.
LEMMA EnterMoves ==
  ASSUME TypeOK, NEW r \in Request,
         Enter(r) \/ Leave(r) \/ \E k \in Key, p \in BOOLEAN : Start(r, k, p)
  PROVE  /\ \A s \in Request \ {r} : req'[s] = req[s]
         /\ Outside(r) \/ Admitted(r) \/ Stays(r) \/ Leaves(r)
<1>1. CASE \E k \in Key, p \in BOOLEAN : Start(r, k, p)
  <2>1. PICK k \in Key, p \in BOOLEAN : Start(r, k, p)
    BY <1>1
  <2>2. /\ req[r].pc = "idle" /\ req'[r].pc = "waiting" /\ busy' = busy
        /\ \A s \in Request \ {r} : req'[s] = req[s]
    BY <2>1 DEF Start, At, Idle, TypeOK, gate
  <2>3. QED
    BY <2>2 DEF Outside, Serving, Gated, Holding, Harvesting
<1>2. CASE CancelWait(r)
  BY <1>2 DEF CancelWait, At, Idle, Outside, Serving, Gated, Holding, Harvesting, TypeOK, gate
<1>3. CASE AcquireBusiness(r)
  BY <1>3, Places, OthersSame DEF AcquireBusiness, At, Admitted
<1>4. CASE RefuseBackoff(r) \/ MissingModel(r) \/ AbortSend(r) \/ CancelSlot(r)
  BY <1>4, Places, OthersSame
  DEF RefuseBackoff, MissingModel, AbortSend, CancelSlot, At, Leaves, Serving, Gated,
      Holding, Harvesting
<1>5. CASE PassGate(r)
  BY <1>5, Places, OthersSame DEF PassGate, At, Stays, Serving, Gated, Holding, gate
<1>6. CASE CachedTicket(r)
  BY <1>6, Places, OthersSame DEF CachedTicket, At, Stays, Serving, Gated, gate
<1>7. QED
  BY <1>1, <1>2, <1>3, <1>4, <1>5, <1>6 DEF Enter, Leave

\* ticket() never gives up the slot.
LEMMA GetTicketMoves ==
  ASSUME TypeOK, NEW r \in Request, GetTicket(r)
  PROVE  /\ \A s \in Request \ {r} : req'[s] = req[s]
         /\ Stays(r) /\ req[r].pc \in Gated /\ req'[r].pc \in Gated
<1> USE DEF Serving, Gated, Holding, Harvesting, At, gate
<1>1. CASE Lookup(r) \/ AdoptImport(r) \/ AdoptFails(r) \/ RemoveCandidate(r)
  BY <1>1, Places, OthersSame DEF Lookup, AdoptImport, AdoptFails, RemoveCandidate, Stays
<1>2. CASE EnterTicket(r)
  <2>1. /\ req'[r].pc \in {"adopt", "decide"} /\ req'[r].key = req[r].key
        /\ \A s \in Request \ {r} : req'[s] = req[s]
    BY <1>2 DEF EnterTicket, TypeOK, Job
  <2>2. QED
    BY <1>2, <2>1 DEF EnterTicket, Stays
<1>3. CASE Decide(r)
  <2>1. Unprotected(r) \/ (\E t : Inject(r, t)) \/ Goto(r, "slot")
    BY <1>3 DEF Decide
  <2>2. QED
    BY <1>3, <2>1, Places, OthersSame DEF Decide, Stays
<1>4. CASE AcquireSlot(r) \/ HarvestClient(r) \/ HarvestUnsaved(r) \/ HarvestUnavailable(r)
  BY <1>4, Places, OthersSame
  DEF AcquireSlot, HarvestClient, HarvestUnsaved, HarvestUnavailable, Stays
<1>5. CASE HarvestOK(r)
  <2>1. \E t : Inject(r, t)
    BY <1>5 DEF HarvestOK
  <2>2. QED
    BY <1>5, <2>1, Places, OthersSame DEF HarvestOK, Stays
<1>6. CASE \E terminal, limited \in BOOLEAN : HarvestFail(r, terminal, limited)
  <2>1. Unprotected(r) \/ \E t : Inject(r, t)
    BY <1>6 DEF HarvestFail
  <2>2. QED
    BY <1>6, <2>1, Places, OthersSame DEF HarvestFail, Stays
<1>7. QED
  BY <1>1, <1>2, <1>3, <1>4, <1>5, <1>6 DEF GetTicket

\* The upstream call and what follows it.
LEMMA RelayMoves ==
  ASSUME TypeOK, NEW r \in Request, Relay(r)
  PROVE  /\ \A s \in Request \ {r} : req'[s] = req[s]
         /\ Stays(r) \/ Leaves(r)
         /\ req'[r].pc \notin Gated
<1> USE DEF Serving, Gated, Holding, Harvesting, At, gate
<1>1. CASE SendUpstream(r) \/ RespondOK(r)
  BY <1>1, Places, OthersSame DEF SendUpstream, RespondOK, Stays
<1>2. CASE TransportError(r) \/ EndStream(r)
  BY <1>2, Places, OthersSame DEF TransportError, EndStream, Leaves
<1>3. CASE RespondDenied(r)
  <2>1. CASE req[r].protected
    <3>1. req' = [req EXCEPT ![r] = [@ EXCEPT !.pc = "revoke", !.denied = TRUE]]
      BY <1>3, <2>1 DEF RespondDenied
    <3>2. /\ req'[r].pc = "revoke" /\ req'[r].key = req[r].key
          /\ \A s \in Request \ {r} : req'[s] = req[s]
      BY <3>1 DEF TypeOK, Job
    <3>3. QED
      BY <1>3, <3>2 DEF RespondDenied, Stays
  <2>2. CASE ~req[r].protected
    BY <1>3, <2>2, Places, OthersSame DEF RespondDenied, Stays
  <2>3. QED
    BY <2>1, <2>2
<1>4. CASE \E w \in 0..MaxWait : RespondLimited(r, w)
  <2>1. Goto(r, "revoke") \/ Stream(r)
    BY <1>4 DEF RespondLimited
  <2>2. QED
    BY <1>4, <2>1, Places, OthersSame DEF RespondLimited, Stays
<1>5. CASE Revoke(r)
  BY <1>5, Places, OthersSame DEF Revoke, Stays
<1>6. QED
  BY <1>1, <1>2, <1>3, <1>4, <1>5 DEF Relay

LEMMA GateMoves ==
  ASSUME TypeOK, NEW r \in Request,
         \/ \E k \in Key, p \in BOOLEAN : Start(r, k, p)
         \/ Enter(r) \/ GetTicket(r) \/ Relay(r) \/ Leave(r)
  PROVE  /\ \A s \in Request \ {r} : req'[s] = req[s]
         /\ Outside(r) \/ Admitted(r) \/ Stays(r) \/ Leaves(r)
BY EnterMoves, GetTicketMoves, RelayMoves

-----------------------------------------------------------------------------
(***************************************************************************)
(* The slots of the accounts.                                              *)
(***************************************************************************)
\* The requests in service after a step of r.
LEMMA ServiceAfter ==
  ASSUME TypeOK, KeyInv, NEW r \in Request, NEW a \in Account,
         \A s \in Request \ {r} : req'[s] = req[s]
  PROVE  /\ Outside(r) => InService(a)' = InService(a)
         /\ Stays(r) => InService(a)' = InService(a)
         /\ Admitted(r) => InService(a)' =
              IF a = AccountOf(r) THEN InService(a) \cup {r} ELSE InService(a)
         /\ Leaves(r) => InService(a)' =
              IF a = AccountOf(r) THEN InService(a) \ {r} ELSE InService(a)
<1>1. \A s \in Request \ {r} : s \in InService(a)' <=> s \in InService(a)
  BY DEF InService, AccountOf
<1>2. "waiting" \notin Serving /\ "idle" \notin Serving /\ "gate" \in Serving
  BY DEF Serving, Gated, Holding, Harvesting
<1>3. ASSUME Outside(r) PROVE InService(a)' = InService(a)
  BY <1>1, <1>3 DEF Outside, InService
<1>4. ASSUME Stays(r) PROVE InService(a)' = InService(a)
  BY <1>1, <1>4 DEF Stays, InService, AccountOf
<1>5. ASSUME Admitted(r)
      PROVE  InService(a)' = IF a = AccountOf(r) THEN InService(a) \cup {r} ELSE InService(a)
  <2>1. /\ r \notin InService(a)
        /\ r \in InService(a)' <=> a = AccountOf(r)
    BY <1>2, <1>5 DEF Admitted, InService, AccountOf
  <2>2. QED
    BY <1>1, <2>1 DEF InService
<1>6. ASSUME Leaves(r)
      PROVE  InService(a)' = IF a = AccountOf(r) THEN InService(a) \ {r} ELSE InService(a)
  <2>1. /\ r \notin InService(a)'
        /\ r \in InService(a) <=> a = AccountOf(r)
    BY <1>2, <1>6 DEF Leaves, InService
  <2>2. QED
    BY <1>1, <2>1 DEF InService
<1>7. QED
  BY <1>3, <1>4, <1>5, <1>6

\* Sets of requests are finite: adding one, dropping one, taking a part.
LEMMA RequestSets ==
  ASSUME NEW S \in SUBSET Request
  PROVE  /\ IsFiniteSet(S) /\ Cardinality(S) \in Nat
         /\ \A r \in Request : Cardinality(S \cup {r}) <= Cardinality(S) + 1
         /\ \A r \in S : Cardinality(S \ {r}) = Cardinality(S) - 1
         /\ \A T \in SUBSET S : Cardinality(T) <= Cardinality(S)
<1>1. IsFiniteSet(S) /\ Cardinality(S) \in Nat
  BY PluginAssumption, FS_Subset, FS_CardinalityType
<1>2. QED
  BY <1>1, FS_AddElement, FS_RemoveElement, FS_Subset

\* A step of one request keeps the account of the slots.
LEMMA SlotStepOne ==
  ASSUME TypeOK, KeyInv, SlotAccounting, NEW r \in Request,
         \A s \in Request \ {r} : req'[s] = req[s],
         Outside(r) \/ Admitted(r) \/ Stays(r) \/ Leaves(r)
  PROVE  SlotAccounting'
<1> SUFFICES ASSUME NEW a \in Account
             PROVE  busy'[a] = InService(a)' /\ Cardinality(busy'[a]) <= Limit
  BY DEF SlotAccounting
<1>1. /\ busy[a] = InService(a) /\ Cardinality(busy[a]) <= Limit
      /\ busy \in [Account -> SUBSET Request]
      /\ Limit \in Nat
  BY PluginAssumption DEF SlotAccounting, TypeOK
<1>2. CASE Outside(r) \/ Stays(r)
  BY <1>1, <1>2, ServiceAfter DEF Outside, Stays
<1>3. CASE Admitted(r)
  <2>1. busy'[a] = IF a = AccountOf(r) THEN busy[a] \cup {r} ELSE busy[a]
    BY <1>1, <1>3 DEF Admitted
  <2>2. InService(a)' = IF a = AccountOf(r) THEN InService(a) \cup {r} ELSE InService(a)
    BY <1>3, ServiceAfter
  <2>3. CASE a = AccountOf(r)
    <3>1. Cardinality(busy[a]) < Limit
      BY <1>3, <2>3 DEF Admitted
    <3>2. Cardinality(busy[a] \cup {r}) <= Limit
      BY <1>1, <3>1, RequestSets
    <3>3. QED
      BY <1>1, <2>1, <2>2, <2>3, <3>2
  <2>4. CASE a # AccountOf(r)
    BY <1>1, <2>1, <2>2, <2>4
  <2>5. QED
    BY <2>3, <2>4
<1>4. CASE Leaves(r)
  <2>1. busy'[a] = IF a = AccountOf(r) THEN busy[a] \ {r} ELSE busy[a]
    BY <1>1, <1>4 DEF Leaves
  <2>2. InService(a)' = IF a = AccountOf(r) THEN InService(a) \ {r} ELSE InService(a)
    BY <1>4, ServiceAfter
  <2>3. Cardinality(busy'[a]) <= Cardinality(busy[a])
    BY <1>1, <2>1, RequestSets
  <2>4. Cardinality(busy[a]) \in Nat /\ Cardinality(busy'[a]) \in Nat
    BY <1>1, <2>1, RequestSets
  <2>5. QED
    BY <1>1, <2>1, <2>2, <2>3, <2>4
<1>5. QED
  BY <1>2, <1>3, <1>4

LEMMA SlotInit == Init => SlotAccounting
<1> SUFFICES ASSUME Init, NEW a \in Account
             PROVE  busy[a] = InService(a) /\ Cardinality(busy[a]) <= Limit
  BY DEF SlotAccounting
<1>1. busy[a] = {} /\ InService(a) = {}
  BY DEF Init, InService, Idle, Serving, Gated, Holding, Harvesting
<1>2. QED
  BY <1>1, FS_EmptySet, PluginAssumption

LEMMA SlotStep == TypeOK /\ KeyInv /\ SlotAccounting /\ [Next]_vars => SlotAccounting'
<1> SUFFICES ASSUME TypeOK, KeyInv, SlotAccounting, [Next]_vars
             PROVE  SlotAccounting'
  OBVIOUS
<1>1. ASSUME NEW r \in Request,
             \/ \E k \in Key, p \in BOOLEAN : Start(r, k, p)
             \/ Enter(r) \/ GetTicket(r) \/ Relay(r) \/ Leave(r)
      PROVE  SlotAccounting'
  BY <1>1, GateMoves, SlotStepOne
<1>2. CASE Crash
  <2> SUFFICES ASSUME NEW a \in Account
               PROVE  busy'[a] = InService(a)' /\ Cardinality(busy'[a]) <= Limit
    BY DEF SlotAccounting
  <2>1. busy'[a] = {} /\ InService(a)' = {}
    BY <1>2 DEF Crash, InService, Idle, Serving, Gated, Holding, Harvesting
  <2>2. QED
    BY <2>1, FS_EmptySet, PluginAssumption
<1>3. CASE busy' = busy /\ req' = req
  BY <1>3 DEF SlotAccounting, InService, AccountOf
<1>4. QED
  BY <1>1, <1>2, <1>3
  DEF Next, ApplyConfig, QueueCandidate, Tick, vars, gate

\* acquireBusiness and the deferred releaseBusiness: whatever way a request
\* takes through Forward, its account has as many tokens out as requests in
\* service, and never more than businessConcurrencyPerAccount.
THEOREM SlotsAccounted == Spec => []SlotAccounting
<1>1. Init => TypeOK /\ KeyInv /\ SlotAccounting
  BY InitTypes, SlotInit
<1>2. TypeOK /\ KeyInv /\ SlotAccounting /\ [Next]_vars
        => (TypeOK /\ KeyInv /\ SlotAccounting)'
  BY TypeStep, KeyStep, SlotStep
<1>3. QED
  BY <1>1, <1>2, PTL DEF Spec

-----------------------------------------------------------------------------
(***************************************************************************)
(* The back-off of the accounts.  Whoever is past the check counts as if   *)
(* it were on its way already: that is BackoffLeakStrong.                  *)
(***************************************************************************)
\* The requests an account still lets out during its back-off, or let out.
Loose(a) == leaked[a] \cup PastGate(a)

\* A step that adds nothing to them keeps their bound.
LEMMA LooseShrinks ==
  ASSUME TypeOK, BackoffLeakStrong, NEW a \in Account,
         BackingOff(a), Loose(a)' \subseteq Loose(a)
  PROVE  Cardinality(Loose(a)') <= Limit - 1
<1>1. Loose(a) \in SUBSET Request
  BY DEF Loose, PastGate, TypeOK
<1>2. Cardinality(Loose(a)) <= Limit - 1 /\ Limit \in Nat
  BY PluginAssumption DEF BackoffLeakStrong, Loose
<1>3. /\ Cardinality(Loose(a)') <= Cardinality(Loose(a))
      /\ Cardinality(Loose(a)') \in Nat /\ Cardinality(Loose(a)) \in Nat
  BY <1>1, RequestSets
<1>4. QED
  BY <1>2, <1>3

\* The requests past the check after a step of r.
LEMMA PastGateAfter ==
  ASSUME TypeOK, NEW r \in Request, NEW a \in Account,
         \A s \in Request \ {r} : req'[s] = req[s]
  PROVE  /\ \A s \in Request \ {r} : s \in PastGate(a)' <=> s \in PastGate(a)
         /\ req'[r].pc \notin Gated => PastGate(a)' \subseteq PastGate(a) \ {r}
         /\ req[r].pc \in Gated /\ req'[r].key = req[r].key
              => PastGate(a)' \subseteq PastGate(a)
BY DEF PastGate, AccountOf

\* A step that touches neither the clock nor the back-offs nor the count.
LEMMA LeakFrame ==
  ASSUME TypeOK, BackoffLeakStrong, NEW a \in Account, BackingOff(a)',
         now' = now, backoff' = backoff, leaked' = leaked,
         PastGate(a)' \subseteq PastGate(a)
  PROVE  Cardinality(Loose(a)') <= Limit - 1
BY LooseShrinks DEF BackingOff, Loose

LEMMA LeakEnter ==
  ASSUME TypeOK, BackoffLeakStrong, NEW r \in Request, NEW a \in Account, BackingOff(a)',
         Enter(r) \/ Leave(r) \/ \E k \in Key, p \in BOOLEAN : Start(r, k, p)
  PROVE  Cardinality(Loose(a)') <= Limit - 1
<1>1. \A s \in Request \ {r} : req'[s] = req[s]
  BY EnterMoves
<1>2. now' = now /\ backoff' = backoff /\ leaked' = leaked
  BY DEF Enter, Leave, Start, AcquireBusiness, RefuseBackoff, MissingModel, PassGate,
         CachedTicket, CancelWait, CancelSlot, AbortSend, gate, history
<1>3. CASE PassGate(r)
  <2>1. ~BackingOff(AccountOf(r)) /\ req'[r].key = req[r].key
    BY <1>3, Places DEF PassGate, MayPass
  <2>2. a # AccountOf(r)
    BY <1>2, <2>1 DEF BackingOff
  <2>3. PastGate(a)' \subseteq PastGate(a)
    BY <1>1, <2>1, <2>2 DEF PastGate, AccountOf
  <2>4. QED
    BY <1>2, <2>3, LeakFrame
<1>4. CASE CachedTicket(r)
  <2>1. req[r].pc \in Gated /\ req'[r].key = req[r].key
    BY <1>4, Places DEF CachedTicket, At, Gated
  <2>2. QED
    BY <1>1, <1>2, <2>1, PastGateAfter, LeakFrame
<1>5. CASE ~PassGate(r) /\ ~CachedTicket(r)
  <2>1. req'[r].pc \in {"idle", "waiting", "gate"}
    <3>1. CASE \E k \in Key, p \in BOOLEAN : Start(r, k, p)
      BY <3>1 DEF Start, Idle, TypeOK
    <3>2. CASE CancelWait(r)
      BY <3>2 DEF CancelWait, Idle, TypeOK
    <3>3. CASE AcquireBusiness(r)
      BY <3>3, Places DEF AcquireBusiness
    <3>4. CASE RefuseBackoff(r) \/ MissingModel(r) \/ AbortSend(r) \/ CancelSlot(r)
      BY <3>4, Places DEF RefuseBackoff, MissingModel, AbortSend, CancelSlot
    <3>5. QED
      BY <1>5, <3>1, <3>2, <3>3, <3>4 DEF Enter, Leave
  <2>2. req'[r].pc \notin Gated
    BY <2>1 DEF Gated, Holding, Harvesting
  <2>3. QED
    BY <1>1, <1>2, <2>2, PastGateAfter, LeakFrame
<1>6. QED
  BY <1>3, <1>4, <1>5

LEMMA LeakTicket ==
  ASSUME TypeOK, BackoffLeakStrong, NEW r \in Request, NEW a \in Account, BackingOff(a)',
         GetTicket(r)
  PROVE  Cardinality(Loose(a)') <= Limit - 1
<1>1. now' = now /\ backoff' = backoff /\ leaked' = leaked
  BY DEF GetTicket, Lookup, EnterTicket, AdoptImport, AdoptFails, RemoveCandidate, Decide,
         AcquireSlot, HarvestClient, HarvestUnavailable, HarvestOK, HarvestUnsaved,
         HarvestFail, gate, history
<1>2. PastGate(a)' \subseteq PastGate(a)
  BY GetTicketMoves, PastGateAfter DEF Stays
<1>3. QED
  BY <1>1, <1>2, LeakFrame

LEMMA LeakRelay ==
  ASSUME TypeOK, KeyInv, BackoffLeakStrong, SlotAccounting,
         NEW r \in Request, NEW a \in Account, BackingOff(a)', Relay(r)
  PROVE  Cardinality(Loose(a)') <= Limit - 1
<1>1. PastGate(a)' \subseteq PastGate(a) \ {r}
  BY RelayMoves, PastGateAfter
<1>2. CASE SendUpstream(r)
  <2>1. /\ now' = now /\ backoff' = backoff
        /\ leaked' = [leaked EXCEPT ![AccountOf(r)] =
                        IF BackingOff(AccountOf(r)) THEN @ \cup {r} ELSE @]
        /\ req[r].pc \in Gated
    BY <1>2 DEF SendUpstream, At, Gated, gate
  <2>2. leaked'[a] \subseteq leaked[a] \cup PastGate(a)
    BY <2>1 DEF PastGate, TypeOK
  <2>3. Loose(a)' \subseteq Loose(a)
    BY <1>1, <2>2 DEF Loose
  <2>4. QED
    BY <2>1, <2>3, LooseShrinks DEF BackingOff
<1>3. ASSUME NEW w \in 0..MaxWait, RespondLimited(r, w)
      PROVE  Cardinality(Loose(a)') <= Limit - 1
  <2>1. /\ now' = now
        /\ a # AccountOf(r) => backoff'[a] = backoff[a]
        /\ leaked' = [leaked EXCEPT ![AccountOf(r)] =
                        IF BackingOff(AccountOf(r)) THEN @ ELSE {}]
    BY <1>3 DEF RespondLimited, TypeOK
  <2>2. CASE BackingOff(a)
    <3>1. leaked'[a] \subseteq leaked[a]
      BY <2>1, <2>2 DEF TypeOK
    <3>2. QED
      BY <1>1, <2>2, <3>1, LooseShrinks DEF Loose
  <2>3. CASE ~BackingOff(a)
    <3>1. a = AccountOf(r)
      BY <2>1, <2>3 DEF BackingOff
    <3>2. leaked'[a] = {}
      BY <2>1, <2>3, <3>1 DEF TypeOK
    <3>3. Loose(a)' \subseteq InService(a) \ {r}
      BY <1>1, <3>2 DEF Loose, PastGate, InService, Serving
    <3>4. r \in InService(a)
      BY <1>3, <3>1 DEF RespondLimited, At, InService, Serving
    <3>5. InService(a) \in SUBSET Request /\ Cardinality(InService(a)) <= Limit
      BY DEF SlotAccounting, InService
    <3>6. Cardinality(InService(a) \ {r}) = Cardinality(InService(a)) - 1
      BY <3>4, <3>5, RequestSets
    <3>7. /\ Cardinality(Loose(a)') <= Cardinality(InService(a) \ {r})
          /\ Cardinality(Loose(a)') \in Nat
      <4>1. InService(a) \ {r} \in SUBSET Request
        BY <3>5
      <4>2. QED
        BY <3>3, <4>1, RequestSets
    <3>8. Cardinality(InService(a)) \in Nat /\ Limit \in Nat
      BY <3>5, RequestSets, PluginAssumption
    <3>9. QED
      BY <3>5, <3>6, <3>7, <3>8
  <2>4. QED
    BY <2>2, <2>3
<1>4. CASE \/ TransportError(r) \/ RespondOK(r) \/ RespondDenied(r)
           \/ Revoke(r) \/ EndStream(r)
  <2>1. now' = now /\ backoff' = backoff /\ leaked' = leaked
    BY <1>4 DEF TransportError, RespondOK, RespondDenied, Revoke, EndStream, gate, history
  <2>2. QED
    BY <1>1, <2>1, LeakFrame
<1>5. QED
  BY <1>2, <1>3, <1>4 DEF Relay

LEMMA LeakInit == Init => BackoffLeakStrong
BY DEF Init, BackoffLeakStrong, BackingOff

LEMMA LeakStep ==
  TypeOK /\ KeyInv /\ SlotAccounting /\ BackoffLeakStrong /\ [Next]_vars => BackoffLeakStrong'
<1> SUFFICES ASSUME TypeOK, KeyInv, SlotAccounting, BackoffLeakStrong, [Next]_vars,
                    NEW a \in Account, BackingOff(a)'
             PROVE  Cardinality(Loose(a)') <= Limit - 1
  BY DEF BackoffLeakStrong, Loose
<1>1. ASSUME NEW r \in Request,
             \/ \E k \in Key, p \in BOOLEAN : Start(r, k, p)
             \/ Enter(r) \/ GetTicket(r) \/ Relay(r) \/ Leave(r)
      PROVE  Cardinality(Loose(a)') <= Limit - 1
  BY <1>1, LeakEnter, LeakTicket, LeakRelay
<1>2. CASE Crash
  <2>1. backoff'[a] = 0 /\ now' = now /\ now \in Nat
    BY <1>2 DEF Crash, TypeOK
  <2>2. QED
    BY <2>1 DEF BackingOff
<1>3. CASE Tick
  <2>1. /\ now' = now + 1 /\ now \in Nat /\ backoff' = backoff /\ backoff[a] \in Nat
        /\ leaked' = leaked /\ req' = req
    BY <1>3 DEF Tick, TypeOK, gate, history
  <2>2. BackingOff(a) /\ Loose(a)' = Loose(a)
    BY <2>1 DEF BackingOff, Loose, PastGate, AccountOf
  <2>3. QED
    BY <2>2, LooseShrinks
<1>4. CASE now' = now /\ backoff' = backoff /\ leaked' = leaked /\ req' = req
  BY <1>4, LeakFrame DEF PastGate, AccountOf
<1>5. QED
  BY <1>1, <1>2, <1>3, <1>4
  DEF Next, ApplyConfig, QueueCandidate, vars, gate, history

\* A 429 of the upstream stops the account: of the requests that main.go had
\* let past the back-off check before the answer came, at most Limit - 1 still
\* go out while the back-off lasts, however long they wait in ticket() first.
THEOREM BackoffHolds == Spec => []BackoffLeakBounded
<1> DEFINE Inv == TypeOK /\ KeyInv /\ SlotAccounting /\ BackoffLeakStrong
<1>1. Init => Inv
  BY InitTypes, SlotInit, LeakInit
<1>2. Inv /\ [Next]_vars => Inv'
  BY TypeStep, KeyStep, SlotStep, LeakStep
<1>3. Inv => BackoffLeakBounded
  <2> SUFFICES ASSUME Inv, NEW a \in Account, BackingOff(a)
               PROVE  Cardinality(leaked[a]) <= Limit - 1
    BY DEF BackoffLeakBounded
  <2>1. /\ Loose(a) \in SUBSET Request /\ leaked[a] \in SUBSET Loose(a)
        /\ Cardinality(Loose(a)) <= Limit - 1
    BY DEF Loose, PastGate, TypeOK, BackoffLeakStrong
  <2>2. /\ Cardinality(leaked[a]) <= Cardinality(Loose(a))
        /\ Cardinality(leaked[a]) \in Nat /\ Cardinality(Loose(a)) \in Nat
    BY <2>1, RequestSets
  <2>3. QED
    BY <2>1, <2>2, PluginAssumption
<1>4. QED
  BY <1>1, <1>2, <1>3, PTL DEF Spec

LEMMA BackoffStep ==
  TypeOK /\ [Next]_vars => \A a \in Account : backoff'[a] >= backoff[a] \/ crashes' > crashes
<1> SUFFICES ASSUME TypeOK, [Next]_vars, NEW a \in Account
             PROVE  backoff'[a] >= backoff[a] \/ crashes' > crashes
  OBVIOUS
<1>1. backoff[a] \in Nat /\ now \in Nat /\ crashes \in Nat
  BY DEF TypeOK
<1>2. CASE backoff' = backoff
  BY <1>1, <1>2
<1>3. CASE Crash
  BY <1>1, <1>3 DEF Crash
<1>4. ASSUME NEW r \in Request, NEW w \in 0..MaxWait, RespondLimited(r, w)
      PROVE  backoff'[a] >= backoff[a]
  <2> DEFINE until == now + (IF w > BackoffMin THEN w ELSE BackoffMin)
  <2>1. until \in Nat
    BY <1>1, Durations
  <2>2. backoff' = [backoff EXCEPT ![AccountOf(r)] = Extended(@, until)]
    BY <1>4 DEF RespondLimited
  <2> HIDE DEF until
  <2>3. backoff'[a] \in {backoff[a], Extended(backoff[a], until)}
    BY <2>2 DEF TypeOK
  <2>4. QED
    BY <1>1, <2>1, <2>3 DEF Extended
<1>5. ASSUME NEW r \in Request,
             \/ \E k \in Key, p \in BOOLEAN : Start(r, k, p)
             \/ Enter(r) \/ GetTicket(r) \/ Leave(r)
      PROVE  backoff' = backoff
  BY <1>5 DEF Enter, Leave, Start, AcquireBusiness, RefuseBackoff, MissingModel, PassGate,
     CachedTicket, CancelWait, CancelSlot, AbortSend, GetTicket, Lookup, EnterTicket,
     AdoptImport, AdoptFails, RemoveCandidate, Decide, AcquireSlot, HarvestClient,
     HarvestUnavailable, HarvestOK, HarvestUnsaved, HarvestFail, gate
<1>6. ASSUME NEW r \in Request, Relay(r)
      PROVE  backoff'[a] >= backoff[a]
  <2>1. CASE \E w \in 0..MaxWait : RespondLimited(r, w)
    BY <1>4, <2>1
  <2>2. CASE ~\E w \in 0..MaxWait : RespondLimited(r, w)
    BY <1>1, <1>6, <2>2 DEF Relay, SendUpstream, TransportError, RespondOK, RespondDenied,
       Revoke, EndStream, gate
  <2>3. QED
    BY <2>1, <2>2
<1>7. CASE \/ \E c \in Configs : ApplyConfig(c[1], c[2])
           \/ \E k \in Key, i \in 1..(now + Skew) : QueueCandidate(k, i)
           \/ Tick \/ UNCHANGED vars
  BY <1>2, <1>7 DEF ApplyConfig, QueueCandidate, Tick, vars, gate
<1>8. QED
  BY <1>2, <1>3, <1>5, <1>6, <1>7 DEF Next

\* The later answer of two, with the shorter Retry-After, does not end the
\* account's back-off early: Forward only ever moves its end forward.
THEOREM BackoffOnlyGrows == Spec => BackoffNeverShrinks
<1>1. Init => TypeOK /\ KeyInv
  BY InitTypes
<1>2. TypeOK /\ KeyInv /\ [Next]_vars => (TypeOK /\ KeyInv)'
  BY TypeStep, KeyStep
<1>3. TypeOK /\ [Next]_vars
        => [\A a \in Account : backoff'[a] >= backoff[a] \/ crashes' > crashes]_vars
  BY BackoffStep
<1>4. QED
  BY <1>1, <1>2, <1>3, PTL DEF Spec, BackoffNeverShrinks
=============================================================================
