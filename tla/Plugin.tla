------------------------------- MODULE Plugin -------------------------------
(***************************************************************************)
(* The STATE reuse plugin, plugin/main.go: Forward with its per-account    *)
(* concurrency slots and back-off, ticket() with its per-key entry lock,   *)
(* the harvest semaphore and the shared ticket file, and ApplyConfig.      *)
(*                                                                         *)
(* A member of Request is a handler goroutine of the gRPC server; when it  *)
(* has returned it may serve another request.  One action is one piece of  *)
(* the handler between two points where another goroutine, the collector   *)
(* or a restart can step in: a lock, a channel, a file or a network call.  *)
(***************************************************************************)
EXTENDS Tickets, FiniteSets

CONSTANTS
  Account, Request, NoRequest,
  KeyAccount,     \* the account of each key
  AstraKey,       \* keys of the model that harvests, gpt-6-astra
  Limit,          \* businessConcurrencyPerAccount
  HarvestSlots,   \* the capacity of Plugin.slots
  CoolShort,      \* one minute, after a failed harvest
  CoolLong,       \* five minutes, after a denial or a rate limit
  BackoffMin,     \* five minutes, the least back-off after a 429
  MaxWait,        \* bound: longest Retry-After an upstream answers
  Configs,        \* bound: the <<accounts, suspended>> an operator applies
  MaxTime, MaxMint, MaxCrash, MaxFault  \* bounds of the environment

ASSUME PluginAssumption ==
  /\ IsFiniteSet(Request)
  /\ NoRequest \notin Request
  /\ KeyAccount \in [Key -> Account]
  /\ AstraKey \subseteq Key
  /\ Limit \in Nat \ {0}
  /\ HarvestSlots \in Nat \ {0}
  /\ {CoolShort, CoolLong, BackoffMin} \subseteq Nat \ {0}
  /\ Configs \subseteq (SUBSET Account) \X (SUBSET Account)
  /\ {MaxWait, MaxTime, MaxMint, MaxCrash, MaxFault} \subseteq Nat

VARIABLES
  now,        \* time.Now()
  enabled,    \* Config.Accounts
  suspended,  \* Config.Suspended
  entries,    \* Plugin.entries, one record for each key
  store,      \* the content of tickets.json
  incoming,   \* incoming/<key>.json: the candidate waiting for each key
  busy,       \* Plugin.businessSlots: the requests that hold a token
  backoff,    \* Plugin.businessBackoff
  slots,      \* Plugin.slots: the requests that hold a harvest token
  req,        \* the local state of each handler
  minted, crashes, faults,  \* what the environment has done so far
  revoked,    \* history: tickets an upstream denial has withdrawn
  leaked      \* history: requests sent during the account's back-off

config  == <<enabled, suspended>>
gate    == <<busy, backoff>>
env     == <<minted, crashes, faults>>
history == <<revoked, leaked>>
vars    == <<now, config, entries, store, incoming, gate, slots, req, env, history>>

-----------------------------------------------------------------------------
(***************************************************************************)
(* The handler's places.  "waiting" is the wait for a concurrency slot;    *)
(* "lookup" to "harvest" is ticket(); "revoke" is the wait for the entry   *)
(* lock after a denial; "stream" copies the body back.                     *)
(***************************************************************************)
Harvesting == {"client", "harvest"}
Holding == {"adopt", "remove", "decide", "slot"} \cup Harvesting
Gated   == {"lookup", "lock", "cached", "send"} \cup Holding
Serving == {"gate", "await", "revoke", "stream"} \cup Gated
PC      == {"idle", "waiting"} \cup Serving

Optional == Ticket \cup {NoTicket}

Entry == [known : BOOLEAN, ticket : Optional, cooldown : Nat,
          blocked : BOOLEAN, holder : Request \cup {NoRequest}]

NoEntry == [known |-> FALSE, ticket |-> NoTicket, cooldown |-> 0,
            blocked |-> FALSE, holder |-> NoRequest]

Job == [pc : PC, key : Key \cup {NoKey}, protected : BOOLEAN,
        ticket : Optional, cand : Optional, at : Nat, denied : BOOLEAN]

Idle == [pc |-> "idle", key |-> NoKey, protected |-> FALSE,
         ticket |-> NoTicket, cand |-> NoTicket, at |-> 0, denied |-> FALSE]

Init ==
  /\ now = 1
  /\ enabled = {} /\ suspended = {}
  /\ entries = [k \in Key |-> NoEntry]
  /\ store \in {{}, {[key |-> k, issued |-> 1, id |-> 0] : k \in Key}}
  /\ incoming = [k \in Key |-> NoTicket]
  /\ busy = [a \in Account |-> {}]
  /\ backoff = [a \in Account |-> 0]
  /\ slots = {}
  /\ req = [r \in Request |-> Idle]
  /\ minted = 0 /\ crashes = 0 /\ faults = 0
  /\ revoked = {}
  /\ leaked = [a \in Account |-> {}]

At(r, p)       == req[r].pc = p
AccountOf(r)   == KeyAccount[req[r].key]
BackingOff(a)  == now < backoff[a]
PastGate(a)    == {r \in Request : req[r].pc \in Gated /\ AccountOf(r) = a}
InService(a)   == {r \in Request : req[r].pc \in Serving /\ AccountOf(r) = a}

Goto(r, p) == req' = [req EXCEPT ![r].pc = p]

\* ticket() or the cache gave t: the state header is replaced by it.
Inject(r, t) ==
  req' = [req EXCEPT ![r] = [@ EXCEPT !.pc = "send", !.ticket = t,
                                      !.cand = NoTicket, !.at = 0]]

\* (mutant) The request stays marked as protected.
UnprotectedStillMarked(r) ==
  req' = [req EXCEPT ![r] = [@ EXCEPT !.pc = "send", !.cand = NoTicket, !.at = 0]]

\* ticket() failed: the header is deleted and the request goes out plain.
Unprotected(r) ==
  req' = [req EXCEPT ![r] = [@ EXCEPT !.pc = "send", !.protected = FALSE,
                                      !.cand = NoTicket, !.at = 0]]

\* The answer is relayed: the ticket has no more part in it.
Stream(r) ==
  req' = [req EXCEPT ![r] = [Idle EXCEPT !.pc = "stream", !.key = req[r].key]]

\* (mutant) A return that forgets the slot.
FinishKeepingSlot(r) ==
  /\ req' = [req EXCEPT ![r] = Idle]
  /\ busy' = busy

\* Forward returns; the deferred releaseBusiness frees the slot.
Finish(r) ==
  /\ req' = [req EXCEPT ![r] = Idle]
  /\ busy' = [busy EXCEPT ![AccountOf(r)] = @ \ {r}]

\* entry.mu can be taken.
NoLock(k) == TRUE  \* (mutant)
LockFree(k) == entries[k].holder = NoRequest

\* (mutant) An early return that does not unlock.
ReleaseNothing(r, e) ==
  entries' = [entries EXCEPT ![req[r].key] = e]

\* The entry of r's key as ticket() leaves it when it returns, unlocked.
Release(r, e) ==
  entries' = [entries EXCEPT ![req[r].key] = [e EXCEPT !.holder = NoRequest]]

\* The deferred release of the harvest token.
KeepSlot(r) == slots' = slots  \* (mutant)
ReleaseSlot(r) == slots' = slots \ {r}

-----------------------------------------------------------------------------
(***************************************************************************)
(* Forward up to the decision how to forward.                              *)
(***************************************************************************)
\* A request of an account outside the configured scope fails at once and
\* changes nothing.  `protected` is false for paths that carry no state.
Start(r, k, protected) ==
  /\ At(r, "idle")
  /\ KeyAccount[k] \in enabled
  /\ req' = [req EXCEPT ![r] = [Idle EXCEPT !.pc = "waiting", !.key = k,
                                            !.protected = protected]]
  /\ UNCHANGED <<now, config, entries, store, incoming, gate, slots, env, history>>

AcquireBusiness(r) ==
  /\ At(r, "waiting")
  /\ Cardinality(busy[AccountOf(r)]) < Limit
  /\ busy' = [busy EXCEPT ![AccountOf(r)] = @ \cup {r}]
  /\ Goto(r, "gate")
  /\ UNCHANGED <<now, config, entries, store, incoming, backoff, slots, env, history>>

CancelWait(r) ==
  /\ At(r, "waiting")
  /\ req' = [req EXCEPT ![r] = Idle]
  /\ UNCHANGED <<now, config, entries, store, incoming, gate, slots, env, history>>

\* The back-off check, after the slot has been obtained.
MayPassAnyway(r) == TRUE  \* (mutant)
MayPass(r) == ~BackingOff(AccountOf(r))

\* The plugin answers 429 itself while the account backs off.
RefuseBackoff(r) ==
  /\ At(r, "gate")
  /\ BackingOff(AccountOf(r))
  /\ Finish(r)
  /\ UNCHANGED <<now, config, entries, store, incoming, backoff, slots, env, history>>

MissingModel(r) ==
  /\ At(r, "gate")
  /\ MayPass(r)
  /\ req[r].protected
  /\ Finish(r)
  /\ UNCHANGED <<now, config, entries, store, incoming, backoff, slots, env, history>>

PassGate(r) ==
  /\ At(r, "gate")
  /\ MayPass(r)
  /\ Goto(r, IF ~req[r].protected THEN "send"
             ELSE IF req[r].key \in AstraKey THEN "lookup" ELSE "cached")
  /\ UNCHANGED <<now, config, entries, store, incoming, gate, slots, env, history>>

\* Models that do not harvest take the entry's ticket as it is.
CachedTicket(r) ==
  LET e == entries[req[r].key] IN
  /\ At(r, "cached")
  /\ LockFree(req[r].key)
  /\ IF ValidTicket(e.ticket, now) THEN Inject(r, e.ticket) ELSE Unprotected(r)
  /\ UNCHANGED <<now, config, entries, store, incoming, gate, slots, env, history>>

-----------------------------------------------------------------------------
(***************************************************************************)
(* ticket().                                                               *)
(***************************************************************************)
\* The entry is created on first use; a suspended account gets no ticket.
Lookup(r) ==
  /\ At(r, "lookup")
  /\ entries' = [entries EXCEPT ![req[r].key].known = TRUE]
  /\ IF AccountOf(r) \in suspended THEN Unprotected(r) ELSE Goto(r, "lock")
  /\ UNCHANGED <<now, config, store, incoming, gate, slots, env, history>>

\* (mutant) Any valid candidate of the key.
ImportableAnyAge(k, t, n) ==
  /\ t.key = k
  /\ ValidTicket(t, n)

\* Does the candidate t, read at time n, replace the entry's ticket?
Importable(k, t, n) ==
  /\ t.key = k
  /\ ValidTicket(t, n)
  /\ t.issued > entries[k].ticket.issued

\* Take the entry lock, note the time, read the candidate file.
EnterTicket(r) ==
  LET k == req[r].key IN
  /\ At(r, "lock")
  /\ LockFree(k)
  /\ entries' = [entries EXCEPT ![k].holder = r]
  /\ req' = [req EXCEPT ![r] = [@ EXCEPT
       !.pc = IF Importable(k, incoming[k], now) THEN "adopt" ELSE "decide",
       !.cand = incoming[k],
       !.at = now]]
  /\ UNCHANGED <<now, config, store, incoming, gate, slots, env, history>>

\* Persist the candidate, then publish it in the entry.
AdoptImport(r) ==
  LET k == req[r].key
      t == req[r].cand IN
  /\ At(r, "adopt")
  /\ store' = Persisted(store, k, t, now)
  /\ entries' = [entries EXCEPT ![k] = [@ EXCEPT
       !.ticket = t, !.cooldown = 0, !.blocked = FALSE]]
  /\ Goto(r, "remove")
  /\ UNCHANGED <<now, config, incoming, gate, slots, env, history>>

\* (mutant) The candidate is used although it was not saved.
AdoptFailsPublished(r) ==
  LET k == req[r].key IN
  /\ At(r, "adopt")
  /\ faults < MaxFault
  /\ faults' = faults + 1
  /\ Release(r, [entries[k] EXCEPT !.ticket = req[r].cand])
  /\ Inject(r, req[r].cand)
  /\ UNCHANGED <<now, config, store, incoming, gate, slots, minted, crashes, history>>

\* The disk is full or read-only: ticket() fails with the entry as it was.
AdoptFails(r) ==
  /\ At(r, "adopt")
  /\ faults < MaxFault
  /\ faults' = faults + 1
  /\ Release(r, entries[req[r].key])
  /\ Unprotected(r)
  /\ UNCHANGED <<now, config, store, incoming, gate, slots, minted, crashes, history>>

\* (mutant) The candidate file stays where it is.
KeepCandidate(r) ==
  /\ At(r, "remove")
  /\ Goto(r, "decide")
  /\ UNCHANGED <<now, config, entries, store, incoming, gate, slots, env, history>>

\* os.Remove: whatever the candidate file is by now.
RemoveCandidate(r) ==
  /\ At(r, "remove")
  /\ incoming' = [incoming EXCEPT ![req[r].key] = NoTicket]
  /\ Goto(r, "decide")
  /\ UNCHANGED <<now, config, entries, store, gate, slots, env, history>>

\* A blocked credential gets nothing; a fresh ticket is used at once; during
\* the cool-down an ageing ticket is still used; otherwise it is time to harvest.
Decide(r) ==
  LET e == entries[req[r].key]
      n == req[r].at IN
  /\ At(r, "decide")
  /\ \/ /\ e.blocked
        /\ Release(r, e) /\ Unprotected(r)
     \/ /\ ~e.blocked
        /\ \/ FreshTicket(e.ticket, n)
           \/ n < e.cooldown /\ ValidTicket(e.ticket, n)
        /\ Release(r, e) /\ Inject(r, e.ticket)
     \/ /\ ~e.blocked
        /\ n < e.cooldown
        /\ ~ValidTicket(e.ticket, n)
        /\ Release(r, e) /\ Unprotected(r)
     \/ /\ ~e.blocked
        /\ n >= e.cooldown
        /\ ~FreshTicket(e.ticket, n)
        /\ entries' = entries /\ Goto(r, "slot")
  /\ UNCHANGED <<now, config, store, incoming, gate, slots, env, history>>

AcquireSlot(r) ==
  /\ At(r, "slot")
  /\ Cardinality(slots) < HarvestSlots
  /\ slots' = slots \cup {r}
  /\ Goto(r, "client")
  /\ UNCHANGED <<now, config, entries, store, incoming, gate, env, history>>

\* The client went away while the request waited for a harvest slot.  Forward
\* goes on without a ticket, and its upstream call fails at once: the context
\* of that call is done as well.
CancelSlot(r) ==
  /\ At(r, "slot")
  /\ Release(r, entries[req[r].key])
  /\ Finish(r)
  /\ UNCHANGED <<now, config, store, incoming, backoff, slots, env, history>>

\* The client for the harvest: through an endpoint that the proxy generator is
\* asked for, or the configured one.
HarvestClient(r) ==
  /\ At(r, "client")
  /\ Goto(r, "harvest")
  /\ UNCHANGED <<now, config, entries, store, incoming, gate, slots, env, history>>

\* The proxy generator does not answer in time or gives no endpoint, or there
\* is no client at all.
HarvestUnavailable(r) ==
  LET e == entries[req[r].key] IN
  /\ At(r, "client")
  /\ Release(r, [e EXCEPT !.cooldown = now + CoolShort])
  /\ Unprotected(r)
  /\ ReleaseSlot(r)
  /\ UNCHANGED <<now, config, store, incoming, gate, env, history>>

\* The harvest answered with a complete ticket of this key.
HarvestOK(r) ==
  LET k == req[r].key
      e == entries[k] IN
  /\ At(r, "harvest")
  /\ minted < MaxMint
  /\ minted' = minted + 1
  /\ \E i \in 1..(now + Skew) :
       LET t == [key |-> k, issued |-> i, id |-> minted + 1] IN
       /\ ValidTicket(t, now)
       /\ store' = Persisted(store, k, t, now)
       /\ Release(r, [e EXCEPT !.ticket = t, !.cooldown = 0])
       /\ Inject(r, t)
  /\ ReleaseSlot(r)
  /\ UNCHANGED <<now, config, incoming, gate, crashes, faults, history>>

\* The ticket arrived and could not be persisted: an error, and no cool-down.
HarvestUnsaved(r) ==
  /\ At(r, "harvest")
  /\ minted < MaxMint /\ faults < MaxFault
  /\ minted' = minted + 1 /\ faults' = faults + 1
  /\ Release(r, entries[req[r].key])
  /\ Unprotected(r)
  /\ ReleaseSlot(r)
  /\ UNCHANGED <<now, config, store, incoming, gate, crashes, history>>

\* The harvest failed: `terminal` when the credential was denied, `limited`
\* when the upstream rate-limited it.  A ticket that is still valid serves on.
HarvestFail(r, terminal, limited) ==
  LET e == entries[req[r].key] IN
  /\ At(r, "harvest")
  /\ Release(r, [e EXCEPT
       !.cooldown = now + (IF terminal \/ limited THEN CoolLong ELSE CoolShort),
       !.blocked = terminal])
  /\ IF ~terminal /\ ValidTicket(e.ticket, now) THEN Inject(r, e.ticket) ELSE Unprotected(r)
  /\ ReleaseSlot(r)
  /\ UNCHANGED <<now, config, store, incoming, gate, env, history>>

-----------------------------------------------------------------------------
(***************************************************************************)
(* Forward from the upstream call to the end of the stream.                *)
(***************************************************************************)
SendUpstream(r) ==
  LET a == AccountOf(r) IN
  /\ At(r, "send")
  /\ Goto(r, "await")
  /\ leaked' = [leaked EXCEPT ![a] = IF BackingOff(a) THEN @ \cup {r} ELSE @]
  /\ UNCHANGED <<now, config, entries, store, incoming, gate, slots, env, revoked>>

\* The account's proxy URL is invalid, or the client is gone already.
AbortSend(r) ==
  /\ At(r, "send")
  /\ Finish(r)
  /\ UNCHANGED <<now, config, entries, store, incoming, backoff, slots, env, history>>

\* No answer: the connection failed, the client left, or 90 s went by.
TransportError(r) ==
  /\ At(r, "await")
  /\ Finish(r)
  /\ UNCHANGED <<now, config, entries, store, incoming, backoff, slots, env, history>>

\* The status line and headers are here.  401 and 403 deny the credential.
RespondOK(r) ==
  /\ At(r, "await")
  /\ Stream(r)
  /\ UNCHANGED <<now, config, entries, store, incoming, gate, slots, env, history>>

RespondDenied(r) ==
  /\ At(r, "await")
  /\ IF req[r].protected
     THEN req' = [req EXCEPT ![r] = [@ EXCEPT !.pc = "revoke", !.denied = TRUE]]
     ELSE Stream(r)
  /\ UNCHANGED <<now, config, entries, store, incoming, gate, slots, env, history>>

\* The later of the two ends.
LastAnswerWins(old, until) == until  \* (mutant)
Extended(old, until) == IF until > old THEN until ELSE old

\* 429 with a Retry-After of w: the back-off is extended, never shortened.
RespondLimited(r, w) ==
  LET a     == AccountOf(r)
      until == now + (IF w > BackoffMin THEN w ELSE BackoffMin) IN
  /\ At(r, "await")
  /\ backoff' = [backoff EXCEPT ![a] = Extended(@, until)]
  /\ leaked' = [leaked EXCEPT ![a] = IF BackingOff(a) THEN @ ELSE {}]
  /\ IF req[r].protected THEN Goto(r, "revoke") ELSE Stream(r)
  /\ UNCHANGED <<now, config, entries, store, incoming, busy, slots, env, revoked>>

\* The entry still holds the ticket that this request carried.
AnyTicket(r) == TRUE  \* (mutant)
StillCurrent(r) == entries[req[r].ticket.key].ticket = req[r].ticket

\* Under the entry lock: only if the entry still holds the ticket this request
\* carried, cool down; a denial also deletes the ticket and blocks the key.
Revoke(r) ==
  LET k == req[r].ticket.key
      e == entries[k] IN
  /\ At(r, "revoke")
  /\ LockFree(k)
  /\ Stream(r)
  /\ IF ~StillCurrent(r)
     THEN UNCHANGED <<entries, store, revoked, faults>>
     ELSE IF ~req[r].denied
     THEN /\ entries' = [entries EXCEPT ![k].cooldown = now + CoolLong]
          /\ UNCHANGED <<store, revoked, faults>>
     ELSE /\ entries' = [entries EXCEPT ![k] = [e EXCEPT
                !.ticket = NoTicket, !.cooldown = now + CoolLong, !.blocked = TRUE]]
          /\ revoked' = revoked \cup {e.ticket}
          /\ \/ store' = Persisted(store, k, NoTicket, now) /\ faults' = faults
             \/ faults < MaxFault /\ faults' = faults + 1 /\ store' = store
  /\ UNCHANGED <<now, config, incoming, gate, slots, minted, crashes, leaked>>

\* The body ends, breaks off, or the client stops reading.
EndStream(r) ==
  /\ At(r, "stream")
  /\ Finish(r)
  /\ UNCHANGED <<now, config, entries, store, incoming, backoff, slots, env, history>>

-----------------------------------------------------------------------------
(***************************************************************************)
(* What happens around the handlers.                                       *)
(***************************************************************************)
\* Valid tickets of the file enter the map for keys it does not hold yet.
Loaded(k) ==
  LET found == {t \in store : t.key = k /\ ValidTicket(t, now)} IN
  IF entries[k].known \/ found = {} THEN entries[k]
  ELSE [entries[k] EXCEPT !.known = TRUE, !.ticket = CHOOSE t \in found : TRUE]

ApplyConfig(accounts, off) ==
  /\ enabled' = accounts
  /\ suspended' = off
  /\ entries' = [k \in Key |-> Loaded(k)]
  /\ UNCHANGED <<now, store, incoming, gate, slots, req, env, history>>

\* The collector's atomic rename onto incoming/<key>.json.
QueueCandidate(k, i) ==
  /\ minted < MaxMint
  /\ CandidateAge(i, now)
  /\ minted' = minted + 1
  /\ incoming' = [incoming EXCEPT ![k] = [key |-> k, issued |-> i, id |-> minted + 1]]
  /\ UNCHANGED <<now, config, entries, store, gate, slots, req, crashes, faults, history>>

\* The plugin process dies and comes back without configuration; only the
\* files survive.
Crash ==
  /\ crashes < MaxCrash
  /\ crashes' = crashes + 1
  /\ enabled' = {} /\ suspended' = {}
  /\ entries' = [k \in Key |-> NoEntry]
  /\ busy' = [a \in Account |-> {}]
  /\ backoff' = [a \in Account |-> 0]
  /\ slots' = {}
  /\ req' = [r \in Request |-> Idle]
  /\ leaked' = [a \in Account |-> {}]
  /\ UNCHANGED <<now, store, incoming, minted, faults, revoked>>

Tick ==
  /\ now < MaxTime
  /\ now' = now + 1
  /\ UNCHANGED <<config, entries, store, incoming, gate, slots, req, env, history>>

Enter(r) ==
  \/ AcquireBusiness(r) \/ RefuseBackoff(r) \/ MissingModel(r)
  \/ PassGate(r) \/ CachedTicket(r)

GetTicket(r) ==
  \/ Lookup(r) \/ EnterTicket(r) \/ AdoptImport(r) \/ AdoptFails(r) \/ RemoveCandidate(r)
  \/ Decide(r) \/ AcquireSlot(r)
  \/ HarvestClient(r) \/ HarvestUnavailable(r) \/ HarvestOK(r) \/ HarvestUnsaved(r)
  \/ \E terminal, limited \in BOOLEAN : HarvestFail(r, terminal, limited)

Relay(r) ==
  \/ SendUpstream(r) \/ TransportError(r)
  \/ RespondOK(r) \/ RespondDenied(r) \/ (\E w \in 0..MaxWait : RespondLimited(r, w))
  \/ Revoke(r) \/ EndStream(r)

Leave(r) == CancelWait(r) \/ CancelSlot(r) \/ AbortSend(r)

Next ==
  \/ \E r \in Request :
       \/ \E k \in Key, p \in BOOLEAN : Start(r, k, p)
       \/ Enter(r) \/ GetTicket(r) \/ Relay(r) \/ Leave(r)
  \/ \E c \in Configs : ApplyConfig(c[1], c[2])
  \/ \E k \in Key, i \in 1..(now + Skew) : QueueCandidate(k, i)
  \/ Crash \/ Tick

Spec == Init /\ [][Next]_vars

(***************************************************************************)
(* A waiting goroutine is served in the end: sync.Mutex hands the lock to  *)
(* a starving waiter and a channel serves its senders in order, hence      *)
(* strong fairness.  A harvest ends by its 25 s deadline, the wait for the *)
(* upstream's headers by ResponseHeaderTimeout; that a body ends is the    *)
(* upstream's part.  No client need ever cancel: Leave has no fairness.    *)
(***************************************************************************)
Fairness ==
  \A r \in Request : SF_vars(Enter(r) \/ GetTicket(r) \/ Relay(r))

LiveSpec == Spec /\ Fairness

-----------------------------------------------------------------------------
(***************************************************************************)
(* Properties.                                                             *)
(***************************************************************************)
\* Every variable has its type.
TypeOK ==
  /\ now \in Nat
  /\ enabled \subseteq Account /\ suspended \subseteq Account
  /\ entries \in [Key -> Entry]
  /\ store \subseteq Ticket
  /\ incoming \in [Key -> Optional]
  /\ busy \in [Account -> SUBSET Request]
  /\ backoff \in [Account -> Nat]
  /\ slots \subseteq Request
  /\ req \in [Request -> Job]
  /\ minted \in Nat /\ crashes \in Nat /\ faults \in Nat
  /\ revoked \subseteq Ticket
  /\ leaked \in [Account -> SUBSET Request]

\* Tickets stay with their key: in the entry, as the candidate about to be
\* adopted, and on the request (the inductive part of InjectedTicketFits).
KeyInv ==
  /\ \A k \in Key : entries[k].ticket.key \in {k, NoKey}
  /\ \A r \in Request :
       /\ ~At(r, "idle") => req[r].key \in Key
       /\ At(r, "adopt") => req[r].cand.key = req[r].key
       /\ req[r].pc \in {"send", "await", "revoke"} /\ req[r].protected
            => req[r].ticket.key = req[r].key
       /\ At(r, "revoke") => req[r].protected

\* One request at a time imports, decides or harvests for a key (the entry
\* lock of ticket()), and the harvest semaphore holds exactly the requests
\* that harvest, on every way out of ticket(), never more than its capacity.
SingleFlight ==
  /\ \A r, s \in Request :
       req[r].pc \in Holding /\ req[s].pc \in Holding /\ req[r].key = req[s].key => r = s
  /\ slots = {r \in Request : req[r].pc \in Harvesting}
  /\ Cardinality(slots) <= HarvestSlots

\* Every way out of Forward gives back the account's slot, none twice: the
\* tokens are those of the requests in service, at most Limit of them.
SlotAccounting ==
  \A a \in Account : busy[a] = InService(a) /\ Cardinality(busy[a]) <= Limit

\* persist(): "Persist before publishing the new entry value".  A restart
\* finds in tickets.json every usable ticket that a request could have got
\* from memory, whatever writes, deletions and expiries came between.
StoreBacksEntries ==
  \A k \in Key : ValidTicket(entries[k].ticket, now) => entries[k].ticket \in store

\* persist() rewrites the whole file for one key: it neither keeps the old
\* ticket of that key beside the new one, nor ever two of another key, so
\* ApplyConfig's "first one wins" always loads the current one.
OneTicketPerKey ==
  \A s, t \in store : s.key = t.key => s = t

\* The ticket a request carries upstream belongs to its account, model and
\* credential; a request that got none is not marked as protected, and a 401
\* can only ever revoke a ticket of the key that was denied.
InjectedTicketFits ==
  \A r \in Request :
    req[r].protected /\ req[r].pc \in {"send", "await", "revoke"}
      => req[r].ticket.key = req[r].key

\* The check and the adoption of a candidate lie in one critical section: an
\* adopted candidate is newer than the ticket it takes the place of.
AdoptNewer ==
  [][\A r \in Request : LET k == req[r].key IN
       At(r, "adopt") /\ req'[r].pc = "remove"
         => entries'[k].ticket.issued > entries[k].ticket.issued]_vars

\* A denied credential stays blocked until a verified candidate is adopted for
\* it: a harvest or a response under way when the denial arrives cannot undo it.
DeniedUntilImport ==
  [][\A k \in Key :
       entries[k].blocked /\ ~entries'[k].blocked
         => \/ crashes' > crashes
            \/ \E r \in Request : At(r, "adopt") /\ req[r].key = k /\ req'[r].pc = "remove"]_vars

\* README: a denial revokes only the ticket the request carried, an old answer
\* cannot delete a new ticket, and a 429 keeps it.  In memory and in the file,
\* a usable ticket goes only when another one takes its place, or when the
\* answer to a request that carried it was a denial.
OldAnswersSpareNew ==
  [][\A k \in Key :
       LET denied == {req[r].ticket : r \in {r \in Request : At(r, "revoke") /\ req[r].denied}}
           kept   == {t \in store : t.key = k /\ ValidTicket(t, now)} IN
       /\ entries'[k].ticket = NoTicket /\ crashes' = crashes
            => entries[k].ticket \in denied \cup {NoTicket}
       /\ kept # {} /\ ~(\E t \in store' : t.key = k)
            => kept \subseteq denied]_vars

\* The ticket that an upstream denial withdrew is out of memory and stays out,
\* whatever queued, harvested or late copy there is; the file is rid of it too,
\* unless a write failed: then no ApplyConfig loads it from there.  (Without
\* restarts: see the README.)
RevokedStaysOut ==
  \A t \in revoked : (faults = 0 => t \notin store) /\ \A k \in Key : entries[k].ticket # t

\* While an account backs off, the requests that were past the check when the
\* 429 came may still go out, and no other: at most Limit - 1 of them.
BackoffLeakBounded ==
  \A a \in Account : BackingOff(a) => Cardinality(leaked[a]) <= Limit - 1

\* The strengthening that makes it inductive: whoever is past the check counts.
BackoffLeakStrong ==
  \A a \in Account : BackingOff(a) => Cardinality(leaked[a] \cup PastGate(a)) <= Limit - 1

\* Answers that arrive out of order never shorten a back-off; a restart does.
BackoffNeverShrinks ==
  [][\A a \in Account : backoff'[a] >= backoff[a] \/ crashes' > crashes]_vars

\* Whatever locks, slots and answers it has to wait for, a request that has
\* started ends.
RequestsFinish ==
  \A r \in Request : ~At(r, "idle") ~> At(r, "idle")

(***************************************************************************)
(* What the repository's README says and the code does not do.             *)
(***************************************************************************)
\* README: a request that has a valid ticket of its model carries it; without
\* a ticket it is forwarded plain.  (Credential not denied, harvest attempted.)
ValidTicketInjected ==
  [][\A r \in Request :
       req[r].pc \in Harvesting /\ req'[r].pc = "send" /\ ~entries'[req[r].key].blocked
         => (ValidTicket(entries[req[r].key].ticket, now) => req'[r].protected)]_vars

=============================================================================
