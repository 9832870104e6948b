------------------------- MODULE PluginDenialProofs -------------------------
(***************************************************************************)
(* Proofs about what one request decides under the entry lock while other  *)
(* requests, the operator and the collector go on: adoption of candidates, *)
(* denials, and tickets that were withdrawn.                               *)
(***************************************************************************)
EXTENDS PluginFileProofs

\* The entry of a request inside ticket() is in the map, so that ApplyConfig
\* leaves it alone.
KnownInside ==
  \A r \in Request : req[r].pc \in Inside => entries[req[r].key].known

\* What the request has found under the lock is still so.
CandidateNewer ==
  \A r \in Request :
    At(r, "adopt") => req[r].cand.issued > entries[req[r].key].ticket.issued

NotBlocked ==
  \A r \in Request :
    req[r].pc \in {"slot"} \cup Harvesting => ~entries[req[r].key].blocked

DecideInv == TypeOK /\ KeyInv /\ Locked /\ Tokens /\ KnownInside /\ CandidateNewer /\ NotBlocked

\* How an entry changes, and who changes it.
FirstUse(k, r) ==
  At(r, "lookup") /\ req[r].key = k /\ entries'[k] = [entries[k] EXCEPT !.known = TRUE]

Enters(k, r) ==
  EnterTicket(r) /\ req[r].key = k /\ entries'[k] = [entries[k] EXCEPT !.holder = r]

Holds(k, r) ==
  /\ req[r].pc \in Holding /\ req[r].key = k /\ req'[r] # req[r]
  /\ entries'[k].known = entries[k].known
  /\ \/ entries'[k].blocked = entries[k].blocked
     \/ AdoptImport(r) \/ req[r].pc \in Harvesting

Denies(k, r) ==
  /\ Revoke(r) /\ LockFree(k)
  /\ entries'[k].known = entries[k].known
  /\ entries[k].blocked => entries'[k].blocked

Configures(k) ==
  /\ ~entries[k].known /\ entries'[k].known
  /\ entries'[k].blocked = entries[k].blocked

-----------------------------------------------------------------------------
\* The keys that ticket() leaves alone, and what it leaves in its own.
LEMMA ReleaseEntry ==
  ASSUME TypeOK, KeyInv, NEW r \in Request, NEW k \in Key, NEW e \in Entry,
         req[r].pc \in Holding, req[r].key \in Key, Release(r, e),
         e.known = entries[req[r].key].known,
         \/ e.blocked = entries[req[r].key].blocked \/ req[r].pc \in Harvesting,
         req'[r].pc \notin Holding, entries'[k] # entries[k]
  PROVE  Holds(k, r)
<1>1. k = req[r].key
  BY ReleaseEntries
<1>2. entries'[k] = [e EXCEPT !.holder = NoRequest]
  BY <1>1, ReleaseEntries
<1>3. entries'[k].known = e.known /\ entries'[k].blocked = e.blocked
  BY <1>2 DEF Entry
<1>4. QED
  BY <1>1, <1>3 DEF Holds

LEMMA EnterEntry ==
  ASSUME TypeOK, KeyInv, NEW r \in Request, NEW k \in Key,
         Enter(r) \/ Leave(r) \/ \E j \in Key, p \in BOOLEAN : Start(r, j, p),
         entries'[k] # entries[k]
  PROVE  Holds(k, r)
<1>1. CancelSlot(r)
  BY DEF Enter, Leave, Start, AcquireBusiness, RefuseBackoff, MissingModel, PassGate,
     CachedTicket, CancelWait, AbortSend
<1>2. ~At(r, "idle") /\ req[r].pc \in Holding
  BY <1>1 DEF CancelSlot, At, Holding
<1>3. req[r].key \in Key /\ entries[req[r].key] \in Entry
  BY <1>2, RequestKey
<1>4. req'[r].pc \notin Holding
  BY <1>1, WhereTo, Parts DEF CancelSlot
<1>5. QED
  BY <1>1, <1>2, <1>3, <1>4, ReleaseEntry DEF CancelSlot

LEMMA GetTicketEntry ==
  ASSUME TypeOK, KeyInv, NEW r \in Request, NEW k \in Key, GetTicket(r),
         entries'[k] # entries[k]
  PROVE  FirstUse(k, r) \/ Enters(k, r) \/ Holds(k, r)
<1>1. ~At(r, "idle")
  BY DEF GetTicket, Lookup, EnterTicket, AdoptImport, AdoptFails, RemoveCandidate, Decide,
         AcquireSlot, HarvestClient,
         HarvestOK, HarvestUnsaved, HarvestUnavailable, HarvestFail, At
<1> DEFINE e == entries[req[r].key]
<1>2. req[r].key \in Key /\ e \in Entry
  BY <1>1, RequestKey
<1>3. CASE Lookup(r)
  BY <1>2, <1>3 DEF Lookup, FirstUse, TypeOK, Entry
<1>4. CASE EnterTicket(r)
  BY <1>2, <1>4 DEF EnterTicket, Enters, TypeOK, Entry
<1>5. CASE AdoptImport(r)
  <2>1. k = req[r].key /\ entries'[k].known = e.known
    BY <1>2, <1>5 DEF AdoptImport, TypeOK, Entry
  <2>2. req[r].pc \in Holding /\ req'[r] # req[r]
    BY <1>5, WhereTo DEF AdoptImport, At, Holding
  <2>3. QED
    BY <1>5, <2>1, <2>2 DEF Holds
\* The returns of ticket().
<1>6. ASSUME NEW f \in Entry, Release(r, f), f.known = e.known,
             Unprotected(r) \/ \E t : Inject(r, t),
             \/ f.blocked = e.blocked \/ req[r].pc \in Harvesting,
             req[r].pc \in Holding
      PROVE  Holds(k, r)
  <2>1. req'[r].pc \notin Holding
    BY <1>6, WhereTo, Parts
  <2>2. QED
    BY <1>2, <1>6, <2>1, ReleaseEntry
<1>7. CASE AdoptFails(r) \/ HarvestUnsaved(r)
  BY <1>2, <1>6, <1>7, Parts DEF AdoptFails, HarvestUnsaved, At
<1>8. CASE Decide(r)
  BY <1>2, <1>6, <1>8, Parts DEF Decide, At
<1>9. CASE HarvestUnavailable(r)
  <2> DEFINE f == [e EXCEPT !.cooldown = now + CoolShort]
  <2>1. f \in Entry /\ f.known = e.known /\ f.blocked = e.blocked
    BY <1>2, Durations DEF TypeOK, Entry
  <2>2. QED
    BY <1>6, <1>9, <2>1, Parts DEF HarvestUnavailable, At
<1>10. CASE HarvestOK(r)
  <2>1. PICK i \in 1..(now + Skew) :
          LET t == [key |-> req[r].key, issued |-> i, id |-> minted + 1] IN
          Release(r, [e EXCEPT !.ticket = t, !.cooldown = 0]) /\ Inject(r, t)
    BY <1>10 DEF HarvestOK
  <2> DEFINE t == [key |-> req[r].key, issued |-> i, id |-> minted + 1]
             f == [e EXCEPT !.ticket = t, !.cooldown = 0]
  <2>2. t \in Ticket
    BY <1>2, TicketsAssumption DEF TypeOK, Ticket
  <2>3. f \in Entry /\ f.known = e.known /\ f.blocked = e.blocked
    BY <1>2, <2>2 DEF Entry, Optional
  <2>4. QED
    BY <1>6, <1>10, <2>1, <2>3, Parts DEF HarvestOK, At
<1>11. ASSUME NEW terminal \in BOOLEAN, NEW limited \in BOOLEAN,
              HarvestFail(r, terminal, limited)
       PROVE  Holds(k, r)
  <2> DEFINE c == now + (IF terminal \/ limited THEN CoolLong ELSE CoolShort)
             f == [e EXCEPT !.cooldown = c, !.blocked = terminal]
  <2>1. c \in Nat
    BY Durations DEF TypeOK
  <2>2. f \in Entry /\ f.known = e.known
    BY <1>2, <2>1 DEF Entry
  <2>3. Release(r, f) /\ (Unprotected(r) \/ \E t : Inject(r, t)) /\ req[r].pc = "harvest"
    BY <1>11 DEF HarvestFail, At
  <2>4. QED
    BY <1>6, <2>2, <2>3, Parts
<1>12. CASE RemoveCandidate(r) \/ AcquireSlot(r) \/ HarvestClient(r)
  BY <1>12 DEF RemoveCandidate, AcquireSlot, HarvestClient
<1>13. QED
  BY <1>3, <1>4, <1>5, <1>7, <1>8, <1>9, <1>10, <1>11, <1>12 DEF GetTicket

LEMMA RelayEntry ==
  ASSUME TypeOK, KeyInv, NEW r \in Request, NEW k \in Key, Relay(r),
         entries'[k] # entries[k]
  PROVE  Denies(k, r)
<1>1. Revoke(r)
  BY DEF Relay, SendUpstream, TransportError, RespondOK, RespondDenied, RespondLimited, EndStream
<1> DEFINE j == req[r].ticket.key
           e == entries[j]
<1>2. CASE ~StillCurrent(r)
  BY <1>1, <1>2 DEF Revoke
<1>3. CASE StillCurrent(r) /\ ~req[r].denied
  <2>1. entries' = [entries EXCEPT ![j].cooldown = now + CoolLong] /\ LockFree(j)
    BY <1>1, <1>3 DEF Revoke
  <2>2. QED
    BY <1>1, <2>1 DEF TypeOK, Entry, Denies
<1>4. CASE StillCurrent(r) /\ req[r].denied
  <2>1. entries' = [entries EXCEPT ![j] = [e EXCEPT
             !.ticket = NoTicket, !.cooldown = now + CoolLong, !.blocked = TRUE]] /\ LockFree(j)
    BY <1>1, <1>4 DEF Revoke
  <2>2. QED
    BY <1>1, <2>1 DEF TypeOK, Entry, Denies
<1>5. QED
  BY <1>2, <1>3, <1>4

LEMMA ConfigEntry ==
  ASSUME TypeOK, NEW c \in Configs, ApplyConfig(c[1], c[2]), NEW k \in Key,
         entries'[k] # entries[k]
  PROVE  Configures(k)
<1> DEFINE found == {t \in store : t.key = k /\ ValidTicket(t, now)}
<1>1. entries'[k] = Loaded(k)
  BY DEF ApplyConfig
<1>2. ~entries[k].known
  BY <1>1 DEF Loaded
<1>3. PICK x : Loaded(k) = [entries[k] EXCEPT !.known = TRUE, !.ticket = x]
  BY <1>1 DEF Loaded
<1>4. QED
  BY <1>1, <1>2, <1>3 DEF Configures, TypeOK, Entry

\* Every way an entry may change.
LEMMA EntryStep ==
  ASSUME TypeOK, KeyInv, [Next]_vars, NEW k \in Key, entries'[k] # entries[k]
  PROVE  \/ Crash
         \/ Configures(k) /\ req' = req
         \/ \E r \in Request : FirstUse(k, r) \/ Enters(k, r) \/ Holds(k, r) \/ Denies(k, r)
<1>1. ASSUME NEW r \in Request,
             \/ \E j \in Key, p \in BOOLEAN : Start(r, j, p)
             \/ Enter(r) \/ GetTicket(r) \/ Relay(r) \/ Leave(r)
      PROVE  FirstUse(k, r) \/ Enters(k, r) \/ Holds(k, r) \/ Denies(k, r)
  BY <1>1, EnterEntry, GetTicketEntry, RelayEntry
<1>2. ASSUME NEW c \in Configs, ApplyConfig(c[1], c[2])
      PROVE  Configures(k) /\ req' = req
  BY <1>2, ConfigEntry DEF ApplyConfig
<1>3. CASE \/ \E j \in Key, i \in 1..(now + Skew) : QueueCandidate(j, i)
           \/ Tick \/ UNCHANGED vars
  BY <1>3 DEF QueueCandidate, Tick, vars
<1>4. QED
  BY <1>1, <1>2, <1>3 DEF Next

\* Whoever holds the lock finds the entry as it was, whatever others do.
LEMMA HeldAlone ==
  ASSUME TypeOK, KeyInv, Locked, KnownInside, [Next]_vars, ~Crash,
         NEW r \in Request, req[r].pc \in Holding, req'[r] = req[r]
  PROVE  entries'[req[r].key] = entries[req[r].key]
<1> DEFINE k == req[r].key
<1> SUFFICES ASSUME entries'[k] # entries[k] PROVE FALSE
  OBVIOUS
<1>1. k \in Key /\ entries[k] \in Entry /\ ~LockFree(k) /\ entries[k].holder = r
  <2>1. ~At(r, "idle")
    BY DEF At, Holding, Harvesting
  <2>2. k \in Key /\ entries[k] \in Entry
    BY <2>1, RequestKey
  <2>3. QED
    BY <2>2, PluginAssumption DEF Locked, LockFree
<1>2. entries[k].known
  BY DEF KnownInside, Inside
<1>3. ASSUME NEW s \in Request, FirstUse(k, s) PROVE FALSE
  BY <1>1, <1>2, <1>3 DEF FirstUse, Entry
<1>4. ASSUME NEW s \in Request, Enters(k, s) \/ Denies(k, s) PROVE FALSE
  BY <1>1, <1>4 DEF Enters, EnterTicket, Denies
<1>5. ASSUME NEW s \in Request, Holds(k, s) PROVE FALSE
  <2>1. entries[k].holder = s
    BY <1>1, <1>5 DEF Locked, Holds
  <2>2. QED
    BY <1>1, <1>5, <2>1 DEF Holds
<1>6. QED
  BY <1>1, <1>2, <1>3, <1>4, <1>5, EntryStep DEF Configures

-----------------------------------------------------------------------------
(***************************************************************************)
(* The decisions still hold when they are acted on.                        *)
(***************************************************************************)
\* Nobody has the place of a request of another process.
LEMMA CrashOutside ==
  ASSUME Crash, NEW r \in Request
  PROVE  req'[r].pc \notin Inside
BY DEF Crash, Idle, Inside, Holding, Harvesting

\* The map loses no key while the process lives.
LEMMA KnownStays ==
  ASSUME TypeOK, KeyInv, [Next]_vars, ~Crash, NEW k \in Key, entries[k].known
  PROVE  entries'[k].known
<1>1. entries[k] \in Entry
  BY DEF TypeOK
<1>2. ASSUME NEW s \in Request,
             FirstUse(k, s) \/ Enters(k, s) \/ Holds(k, s) \/ Denies(k, s)
      PROVE  entries'[k].known
  BY <1>1, <1>2 DEF FirstUse, Enters, Holds, Denies, Entry
<1>3. QED
  BY <1>2, EntryStep DEF Configures

LEMMA KnownStep ==
  ASSUME TypeOK, KeyInv, Locked, KnownInside, [Next]_vars
  PROVE  KnownInside'
<1> SUFFICES ASSUME NEW r \in Request, req'[r].pc \in Inside
             PROVE  entries'[req'[r].key].known
  BY DEF KnownInside
<1> DEFINE k == req'[r].key
<1>1. ~Crash
  BY CrashOutside
<1>2. ASSUME k \in Key, entries[k].known PROVE entries'[k].known
  BY <1>1, <1>2, KnownStays
<1>3. ASSUME req[r].pc \in Inside, k = req[r].key PROVE entries'[k].known
  <2>1. ~At(r, "idle")
    BY <1>3 DEF At, Inside, Holding, Harvesting
  <2>2. k \in Key /\ entries[k].known
    BY <1>3, <2>1, RequestKey DEF KnownInside
  <2>3. QED
    BY <1>2, <2>2
<1>4. CASE Lookup(r)
  <2>1. ~At(r, "idle")
    BY <1>4 DEF Lookup, At
  <2>2. req[r].key \in Key
    BY <2>1, RequestKey
  <2>3. entries'[req[r].key].known
    BY <1>4, <2>2 DEF Lookup, TypeOK, Entry
  <2>4. k = req[r].key
    BY <1>4, WhereTo, Parts DEF Lookup, Inside
  <2>5. QED
    BY <2>3, <2>4
<1>5. CASE EnterTicket(r)
  <2>1. k = req[r].key /\ req[r].pc \in Inside
    BY <1>5 DEF EnterTicket, TypeOK, Job, At, Inside
  <2>2. QED
    BY <1>3, <2>1
<1>6. CASE AdoptImport(r) \/ RemoveCandidate(r) \/ AcquireSlot(r) \/ HarvestClient(r)
  <2>1. k = req[r].key /\ req[r].pc \in Inside
    BY <1>6, WhereTo, Parts DEF AdoptImport, RemoveCandidate, AcquireSlot, HarvestClient, At, Inside
  <2>2. QED
    BY <1>3, <2>1
<1>7. CASE Decide(r)
  <2>1. Goto(r, "slot")
    BY <1>7, WhereTo, Parts DEF Decide, Inside
  <2>2. k = req[r].key /\ req[r].pc \in Inside
    BY <1>7, <2>1, WhereTo, Parts DEF Decide, At, Inside
  <2>3. QED
    BY <1>3, <2>2
<1>8. CASE req'[r] = req[r]
  BY <1>3, <1>8
<1>9. QED
  BY <1>4, <1>5, <1>6, <1>7, <1>8, InsideFrom

LEMMA NewerStep ==
  ASSUME TypeOK, KeyInv, Locked, KnownInside, CandidateNewer, [Next]_vars
  PROVE  CandidateNewer'
<1> SUFFICES ASSUME NEW r \in Request, req'[r].pc = "adopt"
             PROVE  req'[r].cand.issued > entries'[req'[r].key].ticket.issued
  BY DEF CandidateNewer, At
<1>1. ~Crash
  BY CrashOutside, Parts DEF Inside
<1>2. CASE req'[r] = req[r]
  <2>1. req[r].pc \in Holding
    BY <1>2, Parts
  <2>2. entries'[req[r].key] = entries[req[r].key]
    BY <1>1, <1>2, <2>1, HeldAlone
  <2>3. QED
    BY <1>2, <2>2 DEF CandidateNewer, At
<1>3. CASE EnterTicket(r) /\ Importable(req[r].key, req'[r].cand, now)
  <2>1. ~At(r, "idle")
    BY <1>3 DEF EnterTicket, At
  <2>2. req[r].key \in Key
    BY <2>1, RequestKey
  <2>3. /\ req'[r].key = req[r].key
        /\ entries'[req[r].key].ticket = entries[req[r].key].ticket
    BY <1>3, <2>2 DEF EnterTicket, TypeOK, Job, Entry
  <2>4. QED
    BY <1>3, <2>3 DEF Importable
<1>4. QED
  BY <1>2, <1>3, AdoptFrom

LEMMA NotBlockedStep ==
  ASSUME TypeOK, KeyInv, Locked, KnownInside, NotBlocked, [Next]_vars
  PROVE  NotBlocked'
<1> DEFINE Past == {"slot"} \cup Harvesting
<1> SUFFICES ASSUME NEW r \in Request, req'[r].pc \in Past
             PROVE  ~entries'[req'[r].key].blocked
  BY DEF NotBlocked
<1>1. ~Crash
  BY CrashOutside, Parts DEF Inside
<1>2. CASE req'[r] = req[r]
  <2>1. req[r].pc \in Holding
    BY <1>2, Parts
  <2>2. entries'[req[r].key] = entries[req[r].key]
    BY <1>1, <1>2, <2>1, HeldAlone
  <2>3. QED
    BY <1>2, <2>2 DEF NotBlocked
<1>3. CASE AcquireSlot(r) \/ HarvestClient(r)
  <2>1. entries' = entries /\ req'[r].key = req[r].key /\ req[r].pc \in Past
    BY <1>3, WhereTo, Parts DEF AcquireSlot, HarvestClient, At
  <2>2. QED
    BY <2>1 DEF NotBlocked
<1>4. CASE Decide(r)
  <2>1. entries' = entries /\ Goto(r, "slot") /\ ~entries[req[r].key].blocked
    BY <1>4, WhereTo, Parts DEF Decide
  <2>2. QED
    BY <2>1, WhereTo
<1>5. CASE Lookup(r) \/ EnterTicket(r) \/ AdoptImport(r) \/ RemoveCandidate(r)
  <2>1. req'[r].pc \in {"lock", "send", "adopt", "decide", "remove"}
    <3>1. CASE EnterTicket(r)
      BY <3>1 DEF EnterTicket, TypeOK, Job
    <3>2. CASE Lookup(r) \/ AdoptImport(r) \/ RemoveCandidate(r)
      BY <3>2, WhereTo DEF Lookup, AdoptImport, RemoveCandidate
    <3>3. QED
      BY <1>5, <3>1, <3>2
  <2>2. QED
    BY <2>1, Parts
<1>6. QED
  BY <1>2, <1>3, <1>4, <1>5, InsideFrom, Parts DEF Inside

LEMMA DecideInit == Init => DecideInv
<1>1. Init => KnownInside /\ CandidateNewer /\ NotBlocked
  BY DEF Init, KnownInside, CandidateNewer, NotBlocked, At, Idle, Inside, Holding, Harvesting
<1>2. QED
  BY <1>1, InitTypes, LocksEmpty DEF Init, DecideInv

LEMMA DecideAlways == Spec => []DecideInv
<1>1. DecideInv /\ [Next]_vars => DecideInv'
  BY TypeStep, KeyStep, LockStep, KnownStep, NewerStep, NotBlockedStep DEF DecideInv
<1>2. QED
  BY <1>1, DecideInit, PTL DEF Spec

-----------------------------------------------------------------------------
LEMMA NewerAdopted ==
  ASSUME DecideInv, [Next]_vars, NEW r \in Request, At(r, "adopt"), req'[r].pc = "remove"
  PROVE  entries'[req[r].key].ticket.issued > entries[req[r].key].ticket.issued
<1> DEFINE k == req[r].key
<1>1. AdoptImport(r)
  <2>1. req'[r].pc \in Inside /\ req'[r] # req[r]
    BY Parts DEF At, Inside
  <2>2. QED
    BY <2>1, InsideFrom DEF DecideInv, Lookup, EnterTicket, RemoveCandidate, Decide, AcquireSlot,
       HarvestClient, At
<1>2. k \in Key
  BY RequestKey DEF DecideInv, At
<1>3. entries'[k].ticket = req[r].cand
  BY <1>1, <1>2 DEF AdoptImport, DecideInv, TypeOK, Entry
<1>4. QED
  BY <1>3 DEF DecideInv, CandidateNewer

\* The entry lock makes check and adoption one: with any number of handlers, a
\* candidate never takes the place of a ticket that is as new.
THEOREM AdoptedIsNewer == Spec => AdoptNewer
<1>1. DecideInv /\ [Next]_vars
        => [\A r \in Request : LET k == req[r].key IN
              At(r, "adopt") /\ req'[r].pc = "remove"
                => entries'[k].ticket.issued > entries[k].ticket.issued]_vars
  BY NewerAdopted
<1>2. QED
  BY <1>1, DecideAlways, PTL DEF Spec, AdoptNewer

LEMMA DenialHolds ==
  ASSUME DecideInv, [Next]_vars, NEW k \in Key, entries[k].blocked, ~entries'[k].blocked
  PROVE  \/ crashes' > crashes
         \/ \E r \in Request : At(r, "adopt") /\ req[r].key = k /\ req'[r].pc = "remove"
<1>1. entries[k] \in Entry /\ entries'[k] # entries[k]
  BY DEF DecideInv, TypeOK
<1>2. CASE Crash
  BY <1>2 DEF Crash, DecideInv, TypeOK
<1>3. ASSUME NEW r \in Request, FirstUse(k, r) \/ Enters(k, r) \/ Denies(k, r)
      PROVE  FALSE
  BY <1>1, <1>3 DEF FirstUse, Enters, Denies, Entry
<1>4. ASSUME NEW r \in Request, Holds(k, r)
      PROVE  At(r, "adopt") /\ req[r].key = k /\ req'[r].pc = "remove"
  <2>1. AdoptImport(r) \/ req[r].pc \in Harvesting
    BY <1>4 DEF Holds
  <2>2. req[r].pc \notin Harvesting
    BY <1>4 DEF Holds, DecideInv, NotBlocked
  <2>3. QED
    BY <1>4, <2>1, <2>2, WhereTo DEF Holds, AdoptImport, DecideInv
<1>5. QED
  BY <1>1, <1>2, <1>3, <1>4, EntryStep DEF DecideInv, Configures

\* A harvest or an answer that was under way when the denial came cannot lift
\* it: a request only harvests while its key is not blocked, and the entry is
\* locked until the harvest is over.
THEOREM DenialsHold == Spec => DeniedUntilImport
<1>1. DecideInv /\ [Next]_vars
        => [\A k \in Key :
              entries[k].blocked /\ ~entries'[k].blocked
                => \/ crashes' > crashes
                   \/ \E r \in Request : At(r, "adopt") /\ req[r].key = k /\ req'[r].pc = "remove"]_vars
  BY DenialHolds
<1>2. QED
  BY <1>1, DecideAlways, PTL DEF Spec, DeniedUntilImport

-----------------------------------------------------------------------------
(***************************************************************************)
(* Withdrawn tickets.  As long as nothing restarts, no copy of a withdrawn *)
(* ticket is left anywhere it could come back from: the candidate it was   *)
(* adopted from is removed before another request can have the ticket      *)
(* denied, and what a failed write leaves in the file is of a key that has *)
(* its entry, which ApplyConfig leaves alone.                              *)
(***************************************************************************)
\* Tickets are numbered as they are issued.
Numbered ==
  /\ \A t \in store \cup revoked : t.id <= minted
  /\ \A k \in Key : entries[k].ticket.id <= minted /\ incoming[k].id <= minted
  /\ \A r \in Request : At(r, "adopt") => req[r].cand.id <= minted

\* A candidate is of its file's key; what the file holds of a key without an
\* entry is as old as the process, and has not been withdrawn.
Sources ==
  \A k \in Key :
    /\ incoming[k].key \in {k, NoKey}
    /\ incoming[k] # NoTicket => incoming[k].id >= 1
    /\ entries[k].ticket # NoTicket => entries[k].known
    /\ ~entries[k].known => \A t \in store : t.key = k => t.id = 0 /\ t \notin revoked

\* An adopted candidate is gone once its key is unlocked.
Spent ==
  /\ RevokedStaysOut
  /\ \A k \in Key : incoming[k] \notin revoked
  /\ \A r \in Request : At(r, "adopt") => req[r].cand \notin revoked
  /\ \A k \in Key :
       incoming[k] # NoTicket /\ incoming[k] = entries[k].ticket
         => \E r \in Request : At(r, "remove") /\ req[r].key = k

Withdrawn == Numbered /\ Sources /\ Spent

\* What a step that is not a restart leaves of the candidates in use.
LEMMA AdoptCarried ==
  ASSUME DecideInv, Withdrawn, [Next]_vars, NEW r \in Request, req'[r].pc = "adopt"
  PROVE  req'[r].cand \notin revoked /\ req'[r].cand.id <= minted
<1>1. CASE req'[r] = req[r]
  BY <1>1 DEF Withdrawn, Spent, Numbered, At
<1>2. CASE EnterTicket(r) /\ req'[r].cand = incoming[req[r].key]
  <2>1. req[r].key \in Key
    BY <1>2, RequestKey DEF DecideInv, EnterTicket, At
  <2>2. QED
    BY <1>2, <2>1 DEF Withdrawn, Spent, Numbered
<1>3. QED
  BY <1>1, <1>2, AdoptFrom DEF DecideInv

LEMMA OthersStay ==
  ASSUME TypeOK, KeyInv, NEW r \in Request,
         \/ \E k \in Key, p \in BOOLEAN : Start(r, k, p)
         \/ Enter(r) \/ GetTicket(r) \/ Relay(r) \/ Leave(r),
         NEW s \in Request, s # r
  PROVE  req'[s] = req[s]
BY EnterLocks, TicketLocks, RelayLocks

LEMMA RemoveStays ==
  ASSUME DecideInv, [Next]_vars, ~Crash, NEW r \in Request, req[r].pc = "remove",
         ~RemoveCandidate(r)
  PROVE  req'[r] = req[r]
<1>1. ASSUME NEW s \in Request,
             \/ \E k \in Key, p \in BOOLEAN : Start(s, k, p)
             \/ Enter(s) \/ GetTicket(s) \/ Relay(s) \/ Leave(s)
      PROVE  s # r
  BY <1>1 DEF Enter, Leave, Start, AcquireBusiness, RefuseBackoff, MissingModel, PassGate,
     CachedTicket, CancelWait, CancelSlot, AbortSend, GetTicket, Lookup, EnterTicket,
     AdoptImport, AdoptFails, Decide, AcquireSlot, HarvestClient, HarvestUnavailable, HarvestOK,
     HarvestUnsaved, HarvestFail, Relay, SendUpstream, TransportError, RespondOK, RespondDenied,
     RespondLimited, Revoke, EndStream, At
<1>2. ASSUME NEW s \in Request,
             \/ \E k \in Key, p \in BOOLEAN : Start(s, k, p)
             \/ Enter(s) \/ GetTicket(s) \/ Relay(s) \/ Leave(s)
      PROVE  req'[r] = req[r]
  BY <1>1, <1>2, OthersStay DEF DecideInv
<1>3. CASE \/ \E c \in Configs : ApplyConfig(c[1], c[2])
           \/ \E k \in Key, i \in 1..(now + Skew) : QueueCandidate(k, i)
           \/ Tick \/ UNCHANGED vars
  BY <1>3 DEF ApplyConfig, QueueCandidate, Tick, vars
<1>4. QED
  BY <1>2, <1>3 DEF Next

\* Restarts and failed writes are counted, and the counts do not go back.
LEMMA MishapsCounted ==
  ASSUME TypeOK, [Next]_vars
  PROVE  crashes' \in {crashes, crashes + 1} /\ faults' \in {faults, faults + 1}
<1>1. CASE \E r \in Request : GetTicket(r)
  BY <1>1 DEF GetTicket, Lookup, EnterTicket, AdoptImport, AdoptFails, RemoveCandidate, Decide,
     AcquireSlot, HarvestClient, HarvestUnavailable, HarvestOK, HarvestUnsaved, HarvestFail, env
<1>2. CASE \E r \in Request : Relay(r)
  BY <1>2 DEF Relay, SendUpstream, TransportError, RespondOK, RespondDenied, RespondLimited,
     Revoke, EndStream, env
<1>3. CASE \E r \in Request :
             (\E k \in Key, p \in BOOLEAN : Start(r, k, p)) \/ Enter(r) \/ Leave(r)
  BY <1>3 DEF Enter, Leave, Start, AcquireBusiness, RefuseBackoff, MissingModel, PassGate,
     CachedTicket, CancelWait, CancelSlot, AbortSend, env
<1>4. CASE \/ \E c \in Configs : ApplyConfig(c[1], c[2])
           \/ \E k \in Key, i \in 1..(now + Skew) : QueueCandidate(k, i)
           \/ Crash \/ Tick \/ UNCHANGED vars
  BY <1>4 DEF ApplyConfig, QueueCandidate, Crash, Tick, vars, env
<1>5. QED
  BY <1>1, <1>2, <1>3, <1>4 DEF Next

\* A step withdraws nothing, and the tickets of `new` are all it grants.
Grows(new) ==
  /\ store' \subseteq store \cup new /\ revoked' = revoked
  /\ minted <= minted' /\ minted' \in Nat
  /\ \A t \in new : t \notin revoked /\ t.id <= minted'
  /\ \A t \in new : entries'[t.key].known
  /\ \A k \in Key : \/ entries'[k].ticket \in {entries[k].ticket, NoTicket}
                    \/ entries'[k].ticket \in new /\ entries'[k].ticket.key = k
  /\ \A k \in Key : incoming'[k] \in {incoming[k], NoTicket}

CopiesHeld ==
  \A k \in Key : incoming[k] # NoTicket /\ incoming[k] = entries[k].ticket
    => \E r \in Request : At(r, "remove") /\ req[r].key = k

LEMMA WithdrawnFrame ==
  ASSUME DecideInv, Withdrawn, [Next]_vars, ~Crash, DecideInv',
         NEW new, Grows(new), CopiesHeld'
  PROVE  Withdrawn'
<1> USE DEF Grows
<1>1. minted \in Nat /\ NoTicket.id = 0 /\ NoTicket.key = NoKey /\ NoTicket \notin revoked
  BY NoTicketKey DEF DecideInv, TypeOK, NoTicket
<1>2. \A k \in Key : /\ incoming[k] \in Optional /\ incoming[k].id \in Nat
                     /\ entries[k].ticket \in Optional /\ entries[k].ticket.id \in Nat
  BY DEF DecideInv, TypeOK, Entry, Optional, Ticket, NoTicket
<1>3. \A t \in store \cup revoked : t.id \in Nat
  BY DEF DecideInv, TypeOK, Ticket
<1>4. \A r \in Request : req'[r].pc = "adopt" => req'[r].cand.id \in Nat
  BY DEF DecideInv, TypeOK, Job, Optional, Ticket, NoTicket
<1>5. Numbered'
  <2>1. \A t \in store' \cup revoked' : t.id <= minted'
    BY <1>1, <1>3 DEF Withdrawn, Numbered
  <2>2. \A k \in Key : entries'[k].ticket.id <= minted' /\ incoming'[k].id <= minted'
    BY <1>1, <1>2 DEF Withdrawn, Numbered
  <2>3. \A r \in Request : req'[r].pc = "adopt" => req'[r].cand.id <= minted'
    BY <1>1, <1>4, AdoptCarried
  <2>4. QED
    BY <2>1, <2>2, <2>3 DEF Numbered, At
<1>6. Sources'
  <2> SUFFICES ASSUME NEW k \in Key
               PROVE  /\ incoming'[k].key \in {k, NoKey}
                      /\ incoming'[k] # NoTicket => incoming'[k].id >= 1
                      /\ entries'[k].ticket # NoTicket => entries'[k].known
                      /\ ~entries'[k].known
                           => \A t \in store' : t.key = k => t.id = 0 /\ t \notin revoked'
    BY DEF Sources
  <2>1. incoming'[k].key \in {k, NoKey} /\ (incoming'[k] # NoTicket => incoming'[k].id >= 1)
    BY <1>1 DEF Withdrawn, Sources
  <2>2. ASSUME ~entries'[k].known, NEW t \in store', t.key = k
        PROVE  t.id = 0 /\ t \notin revoked'
    <3>1. ~entries[k].known
      BY <2>2, KnownStays DEF DecideInv
    <3>2. t \in store
      BY <2>2
    <3>3. QED
      BY <2>2, <3>1, <3>2 DEF Withdrawn, Sources
  <2>3. ASSUME entries'[k].ticket # NoTicket PROVE entries'[k].known
    <3>1. CASE entries'[k].ticket = entries[k].ticket
      BY <2>3, <3>1, KnownStays DEF DecideInv, Withdrawn, Sources
    <3>2. CASE entries'[k].ticket \in new /\ entries'[k].ticket.key = k
      BY <3>2
    <3>3. QED
      BY <2>3, <3>1, <3>2
  <2>4. QED
    BY <2>1, <2>2, <2>3
<1>7. Spent'
  <2>1. RevokedStaysOut'
    <3>1. faults' = 0 => faults = 0
      BY MishapsCounted DEF DecideInv, TypeOK
    <3>2. QED
      BY <1>1, <3>1 DEF Withdrawn, Spent, RevokedStaysOut
  <2>2. \A k \in Key : incoming'[k] \notin revoked'
    BY <1>1 DEF Withdrawn, Spent
  <2>3. \A r \in Request : req'[r].pc = "adopt" => req'[r].cand \notin revoked'
    BY AdoptCarried
  <2>4. QED
    BY <2>1, <2>2, <2>3 DEF Spent, CopiesHeld, At
<1>8. QED
  BY <1>5, <1>6, <1>7 DEF Withdrawn

\* Nothing is granted, and no candidate is removed.
LEMMA QuietWithdrawn ==
  ASSUME DecideInv, Withdrawn, [Next]_vars, ~Crash, DecideInv',
         Untouched, revoked' = revoked, incoming' = incoming, minted' >= minted,
         \A r \in Request : ~RemoveCandidate(r)
  PROVE  Withdrawn'
<1>1. Grows({})
  BY DEF Grows, Untouched, DecideInv, TypeOK
<1>2. ASSUME NEW k \in Key, incoming'[k] # NoTicket, incoming'[k] = entries'[k].ticket
      PROVE  \E r \in Request : req'[r].pc = "remove" /\ req'[r].key = k
  <2>1. PICK r \in Request : At(r, "remove") /\ req[r].key = k
    BY <1>2 DEF Withdrawn, Spent, Untouched
  <2>2. QED
    BY <2>1, RemoveStays DEF At
<1>3. CopiesHeld'
  BY <1>2 DEF CopiesHeld, At
<1>4. QED
  BY <1>1, <1>3, WithdrawnFrame

LEMMA AdoptWithdrawn ==
  ASSUME DecideInv, Withdrawn, [Next]_vars, ~Crash, DecideInv', NEW r \in Request, AdoptImport(r)
  PROVE  Withdrawn'
<1> DEFINE k == req[r].key
           t == req[r].cand
<1>1. k \in Key /\ entries[k] \in Entry /\ t \in Optional /\ t.key = k
  BY RequestKey DEF DecideInv, AdoptImport, At, KeyInv
<1>2. entries'[k].ticket = t /\ \A j \in Key \ {k} : entries'[j].ticket = entries[j].ticket
  BY <1>1 DEF AdoptImport, DecideInv, TypeOK, Entry
<1>3. req'[r].pc = "remove" /\ req'[r].key = k
  BY WhereTo DEF AdoptImport, DecideInv
<1>4. entries'[k].known
  BY <1>3 DEF DecideInv, KnownInside, Inside, Holding
<1>5. Grows({t})
  <2>1. store' \subseteq store \cup {t}
    BY PersistedOnly DEF AdoptImport
  <2>2. t \notin revoked /\ t.id <= minted
    BY DEF AdoptImport, Withdrawn, Spent, Numbered
  <2>3. revoked' = revoked /\ minted' = minted /\ incoming' = incoming /\ minted \in Nat
    BY DEF AdoptImport, env, history, DecideInv, TypeOK
  <2>4. QED
    BY <1>1, <1>2, <1>4, <2>1, <2>2, <2>3 DEF Grows
<1>6. CopiesHeld'
  <2> SUFFICES ASSUME NEW j \in Key, incoming'[j] # NoTicket, incoming'[j] = entries'[j].ticket
               PROVE  \E s \in Request : req'[s].pc = "remove" /\ req'[s].key = j
    BY DEF CopiesHeld, At
  <2>1. CASE j = k
    BY <1>3, <2>1
  <2>2. CASE j # k
    <3>1. PICK s \in Request : At(s, "remove") /\ req[s].key = j
      BY <1>2, <2>2 DEF Withdrawn, Spent, AdoptImport
    <3>2. s # r
      BY <3>1 DEF AdoptImport, At
    <3>3. QED
      BY <3>1, <3>2, OthersSame DEF AdoptImport, DecideInv, At
  <2>3. QED
    BY <2>1, <2>2
<1>7. QED
  BY <1>5, <1>6, WithdrawnFrame

LEMMA RemoveWithdrawn ==
  ASSUME DecideInv, Withdrawn, [Next]_vars, ~Crash, DecideInv', NEW r \in Request, RemoveCandidate(r)
  PROVE  Withdrawn'
<1>1. req[r].key \in Key
  BY RequestKey DEF DecideInv, RemoveCandidate, At
<1>2. /\ entries' = entries /\ store' = store /\ revoked' = revoked /\ minted' = minted
      /\ incoming'[req[r].key] = NoTicket
      /\ \A k \in Key \ {req[r].key} : incoming'[k] = incoming[k]
  BY <1>1 DEF RemoveCandidate, env, history, DecideInv, TypeOK
<1>3. Grows({})
  BY <1>2 DEF Grows, DecideInv, TypeOK
<1>4. CopiesHeld'
  <2> SUFFICES ASSUME NEW j \in Key, incoming'[j] # NoTicket, incoming'[j] = entries'[j].ticket
               PROVE  \E s \in Request : req'[s].pc = "remove" /\ req'[s].key = j
    BY DEF CopiesHeld, At
  <2>1. PICK s \in Request : At(s, "remove") /\ req[s].key = j
    BY <1>2 DEF Withdrawn, Spent
  <2>2. s # r
    BY <1>2, <2>1
  <2>3. req'[s] = req[s]
    BY <2>2, OthersSame DEF RemoveCandidate, DecideInv
  <2>4. QED
    BY <2>1, <2>3 DEF At
<1>5. QED
  BY <1>3, <1>4, WithdrawnFrame

LEMMA HarvestWithdrawn ==
  ASSUME DecideInv, Withdrawn, [Next]_vars, ~Crash, DecideInv', NEW r \in Request, HarvestOK(r)
  PROVE  Withdrawn'
<1> DEFINE k == req[r].key
           e == entries[k]
<1>1. k \in Key /\ e \in Entry
  BY RequestKey DEF DecideInv, HarvestOK, At
<1>2. PICK i \in 1..(now + Skew) :
        LET t == [key |-> k, issued |-> i, id |-> minted + 1] IN
        /\ store' = Persisted(store, k, t, now)
        /\ Release(r, [e EXCEPT !.ticket = t, !.cooldown = 0])
  BY DEF HarvestOK
<1> DEFINE t == [key |-> k, issued |-> i, id |-> minted + 1]
           f == [e EXCEPT !.ticket = t, !.cooldown = 0]
<1>3. t \in Ticket /\ t.key = k /\ t.id = minted + 1 /\ minted \in Nat
  BY <1>1, TicketsAssumption DEF DecideInv, TypeOK, Ticket
<1>4. f \in Entry /\ f.ticket = t
  BY <1>1, <1>3 DEF Entry, Optional
<1>5. entries'[k].ticket = t /\ \A j \in Key \ {k} : entries'[j] = entries[j]
  BY <1>1, <1>2, <1>4, ReleaseEntries DEF DecideInv
<1>6. revoked' = revoked /\ minted' = minted + 1 /\ incoming' = incoming
  BY DEF HarvestOK, history
<1>7. Grows({t})
  <2>1. store' \subseteq store \cup {t}
    BY <1>2, PersistedOnly
  <2>2. t \notin revoked
    BY <1>3 DEF Withdrawn, Numbered, DecideInv, TypeOK, Ticket
  <2>3. entries'[k].known
    <3>1. entries[k].known
      BY Parts DEF HarvestOK, At, DecideInv, KnownInside, Inside
    <3>2. QED
      BY <1>1, <3>1, KnownStays DEF DecideInv
  <2>4. QED
    BY <1>3, <1>5, <1>6, <2>1, <2>2, <2>3 DEF Grows
<1>8. CopiesHeld'
  <2> SUFFICES ASSUME NEW j \in Key, incoming'[j] # NoTicket, incoming'[j] = entries'[j].ticket
               PROVE  \E s \in Request : req'[s].pc = "remove" /\ req'[s].key = j
    BY DEF CopiesHeld, At
  <2>1. j # k
    <3>1. incoming[k].id <= minted
      BY <1>1 DEF Withdrawn, Numbered
    <3>2. incoming'[k] # t
      BY <1>3, <1>6, <3>1
    <3>3. QED
      BY <1>5, <3>2
  <2>2. PICK s \in Request : At(s, "remove") /\ req[s].key = j
    BY <1>5, <1>6, <2>1 DEF Withdrawn, Spent
  <2>3. ~RemoveCandidate(s)
    BY <2>2, OthersStay, WhereTo DEF HarvestOK, RemoveCandidate, DecideInv, At, GetTicket
  <2>4. QED
    BY <2>2, <2>3, RemoveStays DEF At
<1>9. QED
  BY <1>7, <1>8, WithdrawnFrame

LEMMA ConfigWithdrawn ==
  ASSUME DecideInv, Withdrawn, [Next]_vars, ~Crash, DecideInv',
         NEW c \in Configs, ApplyConfig(c[1], c[2])
  PROVE  Withdrawn'
<1>1. /\ store' = store /\ revoked' = revoked /\ minted' = minted /\ incoming' = incoming
      /\ req' = req
  BY DEF ApplyConfig, env, history
<1>2. Loads
  BY ApplyConfigLoads DEF DecideInv
<1> DEFINE loaded == {t \in store : t.key \in Key /\ ~entries[t.key].known /\ entries'[t.key].known}
<1>3. Grows(loaded)
  <2>1. \A t \in loaded : t \notin revoked /\ t.id <= minted /\ entries'[t.key].known
    BY DEF Withdrawn, Sources, Numbered
  <2>2. ASSUME NEW j \in Key, entries'[j].ticket # entries[j].ticket
        PROVE  entries'[j].ticket \in loaded /\ entries'[j].ticket.key = j
    <3>1. entries'[j].ticket \in store /\ entries'[j].ticket.key = j
      BY <1>2, <2>2 DEF Loads
    <3>2. ~entries[j].known /\ entries'[j].known
      BY <2>2, ConfigEntry DEF DecideInv, Configures
    <3>3. QED
      BY <3>1, <3>2
  <2>3. minted' \in Nat /\ minted <= minted'
    BY <1>1 DEF DecideInv, TypeOK
  <2>4. QED
    BY <1>1, <2>1, <2>2, <2>3 DEF Grows
<1>4. CopiesHeld'
  <2> SUFFICES ASSUME NEW j \in Key, incoming'[j] # NoTicket, incoming'[j] = entries'[j].ticket
               PROVE  \E s \in Request : req[s].pc = "remove" /\ req[s].key = j
    BY <1>1 DEF CopiesHeld, At
  <2>1. CASE entries'[j].ticket = entries[j].ticket
    BY <1>1, <2>1 DEF Withdrawn, Spent, At
  <2>2. CASE entries'[j].ticket # entries[j].ticket
    <3>1. entries'[j].ticket \in store /\ entries'[j].ticket.key = j
      BY <1>2, <2>2 DEF Loads
    <3>2. ~entries[j].known
      BY <2>2, ConfigEntry DEF DecideInv, Configures
    <3>3. entries'[j].ticket.id = 0 /\ incoming[j].id >= 1
      BY <1>1, <3>1, <3>2 DEF Withdrawn, Sources
    <3>4. QED
      BY <1>1, <3>3
  <2>3. QED
    BY <2>1, <2>2
<1>5. QED
  BY <1>3, <1>4, WithdrawnFrame

LEMMA QueueWithdrawn ==
  ASSUME DecideInv, Withdrawn, [Next]_vars, ~Crash, DecideInv',
         NEW k \in Key, NEW i \in 1..(now + Skew), QueueCandidate(k, i)
  PROVE  Withdrawn'
<1> DEFINE t == [key |-> k, issued |-> i, id |-> minted + 1]
<1>1. /\ store' = store /\ revoked' = revoked /\ minted' = minted + 1 /\ entries' = entries
      /\ faults' = faults /\ req' = req /\ incoming'[k] = t
      /\ \A j \in Key \ {k} : incoming'[j] = incoming[j]
  BY DEF QueueCandidate, history, DecideInv, TypeOK
<1>2. minted \in Nat /\ t.id = minted + 1 /\ t.key = k
  BY DEF DecideInv, TypeOK
<1>3. /\ \A x \in store \cup revoked : x.id \in Nat
      /\ \A j \in Key : entries[j].ticket.id \in Nat /\ incoming[j].id \in Nat
      /\ \A r \in Request : req[r].cand.id \in Nat
  BY DEF DecideInv, TypeOK, Entry, Job, Optional, Ticket, NoTicket
<1>4. Numbered'
  BY <1>1, <1>2, <1>3 DEF Withdrawn, Numbered, At
<1>5. Sources'
  BY <1>1, <1>2 DEF Withdrawn, Sources
<1>6. t \notin revoked /\ t # entries[k].ticket
  BY <1>2, <1>3 DEF Withdrawn, Numbered
<1>7. Spent'
  BY <1>1, <1>6 DEF Withdrawn, Spent, RevokedStaysOut, At
<1>8. QED
  BY <1>4, <1>5, <1>7 DEF Withdrawn

\* A denial: the entry is unlocked, so no request is about to adopt or to
\* remove the candidate that the ticket came from.
LEMMA RevokeWithdrawn ==
  ASSUME DecideInv, Withdrawn, [Next]_vars, ~Crash, DecideInv',
         NEW r \in Request, Revoke(r)
  PROVE  Withdrawn'
<1> DEFINE k == req[r].ticket.key
           e == entries[k]
           t == e.ticket
<1>1. At(r, "revoke") /\ LockFree(k) /\ k \in Key /\ e \in Entry
  BY DEF Revoke, DecideInv, KeyInv, At, TypeOK
<1>2. incoming' = incoming /\ minted' = minted
  BY DEF Revoke
<1>3. \A s \in Request : ~RemoveCandidate(s)
  BY WhereTo, OthersSame DEF Revoke, RemoveCandidate, DecideInv, At
<1>4. CASE ~(StillCurrent(r) /\ req[r].denied)
  <2>1. store' = store /\ revoked' = revoked
    BY <1>4 DEF Revoke
  <2>2. entries' = entries \/ entries' = [entries EXCEPT ![k].cooldown = now + CoolLong]
    BY <1>4 DEF Revoke
  <2>3. Untouched
    BY <2>1, <2>2 DEF Untouched, DecideInv, TypeOK, Entry
  <2>4. QED
    BY <1>2, <1>3, <2>1, <2>3, QuietWithdrawn DEF DecideInv, TypeOK
<1>5. CASE StillCurrent(r) /\ req[r].denied
  <2>1. /\ entries' = [entries EXCEPT ![k] = [e EXCEPT
               !.ticket = NoTicket, !.cooldown = now + CoolLong, !.blocked = TRUE]]
        /\ revoked' = revoked \cup {t} /\ t.key = k
        /\ \/ store' = Persisted(store, k, NoTicket, now) /\ faults' = faults
           \/ store' = store /\ faults' = faults + 1
    BY <1>5 DEF Revoke, StillCurrent, DecideInv, TypeOK
  <2>2. /\ entries'[k].ticket = NoTicket /\ entries'[k].known = entries[k].known
        /\ \A j \in Key \ {k} : entries'[j] = entries[j]
    BY <1>1, <2>1 DEF DecideInv, TypeOK, Entry
  <2>3. /\ store' \subseteq store
        /\ faults' = 0 => faults = 0 /\ store' \subseteq {x \in store : x.key # k}
    <3>1. faults \in Nat
      BY DEF DecideInv, TypeOK
    <3>2. QED
      BY <2>1, <3>1, PersistedOnly
  <2>4. NoTicket # t /\ NoTicket \notin revoked /\ NoTicket.id = 0
    BY <1>1, <2>1, TicketsAssumption, NoTicketKey DEF NoTicket, DecideInv, TypeOK
  <2>5. \A j \in Key : entries[j].ticket.key \in {j, NoKey} /\ incoming[j].key \in {j, NoKey}
    BY DEF DecideInv, KeyInv, Withdrawn, Sources
  <2>6. minted \in Nat /\ t.id <= minted
    BY <1>1 DEF DecideInv, TypeOK, Withdrawn, Numbered
\* Nobody else is inside ticket() with this key.
  <2>7. ~\E s \in Request : req[s].pc \in Holding /\ req[s].key = k
    BY <1>1, PluginAssumption DEF DecideInv, Locked, LockFree
  <2>8. Numbered'
    <3>1. \A s \in Request : req'[s].pc = "adopt" => req'[s].cand.id <= minted
      BY AdoptCarried
    <3>2. QED
      BY <1>2, <2>1, <2>2, <2>3, <2>4, <2>6, <3>1 DEF Withdrawn, Numbered, At
  <2>9. Sources'
    <3>1. entries[k].known
      BY <1>1, <2>1, <2>4 DEF Withdrawn, Sources
    <3>2. QED
      BY <1>2, <2>1, <2>2, <2>3, <3>1 DEF Withdrawn, Sources
  <2>10. RevokedStaysOut'
    <3>1. \A j \in Key : entries'[j].ticket \notin revoked'
      BY <2>1, <2>2, <2>4, <2>5, <1>1, TicketsAssumption DEF Withdrawn, Spent, RevokedStaysOut
    <3>2. faults' = 0 => \A x \in revoked' : x \notin store'
      BY <2>1, <2>3 DEF Withdrawn, Spent, RevokedStaysOut
    <3>3. QED
      BY <3>1, <3>2 DEF RevokedStaysOut
  <2>11. ASSUME NEW j \in Key PROVE incoming'[j] \notin revoked'
    <3>1. incoming[j] # t
      <4>1. CASE j = k
        <5>1. ~\E s \in Request : At(s, "remove") /\ req[s].key = k
          BY <2>7, Parts DEF At
        <5>2. QED
          BY <1>1, <2>4, <4>1, <5>1 DEF Withdrawn, Spent
      <4>2. CASE j # k
        BY <1>1, <2>1, <2>5, <4>2, TicketsAssumption
      <4>3. QED
        BY <4>1, <4>2
    <3>2. QED
      BY <1>2, <2>1, <3>1 DEF Withdrawn, Spent
  <2>12. ASSUME NEW s \in Request, req'[s].pc = "adopt" PROVE req'[s].cand \notin revoked'
    <3>1. req'[s] = req[s]
      BY <2>12, WhereTo, OthersSame DEF Revoke, DecideInv
    <3>2. req[s].key # k /\ req[s].cand.key = req[s].key
      BY <2>7, <2>12, <3>1, Parts DEF DecideInv, KeyInv, At
    <3>3. QED
      BY <2>1, <2>12, <3>1, <3>2, AdoptCarried
  <2>13. CopiesHeld'
    <3> SUFFICES ASSUME NEW j \in Key, incoming'[j] # NoTicket, incoming'[j] = entries'[j].ticket
                 PROVE  \E s \in Request : req'[s].pc = "remove" /\ req'[s].key = j
      BY DEF CopiesHeld, At
    <3>1. j # k
      BY <2>2
    <3>2. PICK s \in Request : At(s, "remove") /\ req[s].key = j
      BY <1>2, <2>2, <3>1 DEF Withdrawn, Spent
    <3>3. QED
      BY <1>3, <3>2, RemoveStays DEF At
  <2>14. QED
    BY <2>8, <2>9, <2>10, <2>11, <2>12, <2>13 DEF Withdrawn, Spent, CopiesHeld, At
<1>6. QED
  BY <1>4, <1>5

\* All the others.
LEMMA OthersWithdrawn ==
  ASSUME DecideInv, Withdrawn, [Next]_vars, ~Crash, DecideInv', NEW r \in Request,
         \/ \E k \in Key, p \in BOOLEAN : Start(r, k, p)
         \/ Enter(r) \/ GetTicket(r) \/ Relay(r) \/ Leave(r),
         ~AdoptImport(r), ~RemoveCandidate(r), ~HarvestOK(r), ~Revoke(r)
  PROVE  Withdrawn'
<1>1. Untouched
  <2>1. CASE Relay(r)
    BY <2>1 DEF Relay, SendUpstream, TransportError, RespondOK, RespondDenied, RespondLimited,
       EndStream, Untouched
  <2>2. CASE ~Relay(r) /\ ~GetTicket(r)
    BY <2>2, EnterTouches DEF DecideInv
  <2>3. CASE GetTicket(r)
    BY <2>3, QuietTouches DEF DecideInv
  <2>4. QED
    BY <2>1, <2>2, <2>3
<1>2. /\ revoked' = revoked /\ incoming' = incoming
      /\ minted' = minted \/ minted' = minted + 1
  BY DEF Enter, Leave, Start, AcquireBusiness, RefuseBackoff, MissingModel, PassGate,
     CachedTicket, CancelWait, CancelSlot, AbortSend, GetTicket, Lookup, EnterTicket,
     AdoptFails, Decide, AcquireSlot, HarvestClient, HarvestUnavailable, HarvestUnsaved,
     HarvestFail, Relay, SendUpstream, TransportError, RespondOK, RespondDenied,
     RespondLimited, EndStream, env, history
<1>3. \A s \in Request : ~RemoveCandidate(s)
  <2> SUFFICES ASSUME NEW s \in Request, RemoveCandidate(s), s # r PROVE FALSE
    OBVIOUS
  <2>1. req'[s] = req[s]
    BY OthersStay DEF DecideInv
  <2>2. QED
    BY <2>1, WhereTo DEF RemoveCandidate, DecideInv, At
<1>4. minted' >= minted
  BY <1>2 DEF DecideInv, TypeOK
<1>5. QED
  BY <1>1, <1>2, <1>3, <1>4, QuietWithdrawn

LEMMA WithdrawnInit == Init => Withdrawn
<1> SUFFICES ASSUME Init PROVE Withdrawn
  OBVIOUS
<1>1. /\ store = {} \/ store = {[key |-> k, issued |-> 1, id |-> 0] : k \in Key}
      /\ \A k \in Key : entries[k].ticket = NoTicket /\ incoming[k] = NoTicket
      /\ \A r \in Request : req[r].pc = "idle"
      /\ revoked = {} /\ minted = 0
  BY DEF Init, NoEntry, Idle
<1>2. NoTicket.id = 0 /\ NoTicket.key = NoKey
  BY DEF NoTicket
<1>3. \A t \in store : t.id = 0
  BY <1>1
<1>4. Numbered
  BY <1>1, <1>2, <1>3 DEF Numbered, At
<1>5. Sources
  BY <1>1, <1>2, <1>3 DEF Sources
<1>6. Spent
  BY <1>1 DEF Spent, RevokedStaysOut, At
<1>7. QED
  BY <1>4, <1>5, <1>6 DEF Withdrawn

LEMMA WithdrawnStep ==
  ASSUME DecideInv, DecideInv', Withdrawn, [Next]_vars, crashes' = crashes
  PROVE  Withdrawn'
<1>1. ~Crash
  BY DEF Crash, DecideInv, TypeOK
<1>2. ASSUME NEW r \in Request,
             \/ \E k \in Key, p \in BOOLEAN : Start(r, k, p)
             \/ Enter(r) \/ GetTicket(r) \/ Relay(r) \/ Leave(r)
      PROVE  Withdrawn'
  BY <1>1, <1>2, AdoptWithdrawn, RemoveWithdrawn, HarvestWithdrawn, RevokeWithdrawn,
     OthersWithdrawn
<1>3. CASE \E c \in Configs : ApplyConfig(c[1], c[2])
  BY <1>1, <1>3, ConfigWithdrawn
<1>4. CASE \E k \in Key, i \in 1..(now + Skew) : QueueCandidate(k, i)
  BY <1>1, <1>4, QueueWithdrawn
<1>5. CASE Tick \/ UNCHANGED vars
  <2>1. Untouched /\ revoked' = revoked /\ incoming' = incoming /\ minted' = minted /\ req' = req
    BY <1>5 DEF Tick, vars, env, history, Untouched
  <2>2. \A r \in Request : ~RemoveCandidate(r)
    BY <2>1, WhereTo DEF RemoveCandidate, DecideInv, At
  <2>3. QED
    BY <1>1, <2>1, <2>2, QuietWithdrawn DEF DecideInv, TypeOK
<1>6. QED
  BY <1>1, <1>2, <1>3, <1>4, <1>5 DEF Next

\* As long as nothing restarted, a ticket that a denial withdrew is not in
\* memory, and is in the file only if a write failed, whatever candidates were
\* queued and however many requests carried it (Forward, main.go:635-650).  With
\* a restart it can return: the run plugin_revival.
THEOREM WithdrawnStaysOut == Spec => [](crashes = 0 => RevokedStaysOut)
<1> DEFINE Inv == crashes = 0 => Withdrawn
<1>1. Init => Inv
  BY WithdrawnInit
<1>2. DecideInv /\ DecideInv' /\ Inv /\ [Next]_vars => Inv'
  <2> SUFFICES ASSUME DecideInv, DecideInv', Inv, [Next]_vars, crashes' = 0
               PROVE  Withdrawn'
    OBVIOUS
  <2>1. crashes = 0
    BY MishapsCounted DEF DecideInv, TypeOK
  <2>2. QED
    BY <2>1, WithdrawnStep
<1>3. Inv => (crashes = 0 => RevokedStaysOut)
  BY DEF Withdrawn, Spent
<1>4. QED
  BY <1>1, <1>2, <1>3, DecideAlways, PTL DEF Spec
=============================================================================
