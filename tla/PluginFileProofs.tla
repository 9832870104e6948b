-------------------------- MODULE PluginFileProofs --------------------------
(***************************************************************************)
(* Proofs about what Plugin keeps in memory and in tickets.json: neither   *)
(* runs ahead of the other, whatever restarts, failing writes and expiring *)
(* tickets come between.                                                   *)
(***************************************************************************)
EXTENDS PluginProofs

\* An entry's ticket is from the past, in the file until it expires, and the
\* only one of its key there.  The first makes "not expired" and "valid" the
\* same, and persist() drops what is not valid.
Filed(k) ==
  LET t == entries[k].ticket IN
  t # NoTicket =>
    /\ t.issued <= now + Skew
    /\ now < t.issued + LifeAge => t \in store
    /\ \A s \in store : s.key = k => s = t

\* A candidate about to be adopted was valid when it was read.
CandidateDated ==
  \A r \in Request : At(r, "adopt") => req[r].cand.issued <= now + Skew

FileInv ==
  /\ OneTicketPerKey
  /\ \A k \in Key : Filed(k)
  /\ CandidateDated

\* What a step may do to the entries' tickets and the file.
OthersKept(k) == \A j \in Key \ {k} : entries'[j].ticket = entries[j].ticket

Untouched == store' = store /\ \A k \in Key : entries'[k].ticket = entries[k].ticket

Grants(k, t) ==
  /\ t \in Ticket /\ t.key = k /\ t.issued <= now + Skew
  /\ store' = Persisted(store, k, t, now)
  /\ entries'[k].ticket = t /\ OthersKept(k)

Withdraws(k) ==
  /\ entries'[k].ticket = NoTicket /\ OthersKept(k)
  /\ store' \in {store, Persisted(store, k, NoTicket, now)}
  /\ \E r \in Request : At(r, "revoke") /\ req[r].denied /\ entries[k].ticket = req[r].ticket

Loads ==
  /\ store' = store
  /\ \A k \in Key :
       \/ entries'[k].ticket = entries[k].ticket
       \/ entries'[k].ticket \in {t \in store : t.key = k /\ ValidTicket(t, now)}

Forgets == store' = store /\ \A k \in Key : entries'[k].ticket = NoTicket

Touches ==
  \/ Untouched
  \/ \E k \in Key : (\E t \in Ticket : Grants(k, t)) \/ Withdraws(k)
  \/ Loads

-----------------------------------------------------------------------------
(***************************************************************************)
(* Each of these keeps the entries filed.                                  *)
(***************************************************************************)
\* The tickets of other keys that are valid outlive persist().
LEMMA PersistedKeeps ==
  ASSUME NEW s, NEW k, NEW t, NEW n, NEW old \in s,
         old.key # k, ValidTicket(old, n)
  PROVE  old \in Persisted(s, k, t, n)
BY DEF Persisted

\* persist() adds nothing but t.
LEMMA PersistedOnly ==
  ASSUME NEW s, NEW k, NEW t, NEW n
  PROVE  /\ \A x \in Persisted(s, k, t, n) : x = t \/ (x \in s /\ x.key # k)
         /\ t # NoTicket => t \in Persisted(s, k, t, n)
         /\ t = NoTicket => Persisted(s, k, t, n) \subseteq {x \in s : x.key # k}
BY DEF Persisted

LEMMA EntryTicket ==
  ASSUME TypeOK, KeyInv, NEW k \in Key, entries[k].ticket # NoTicket
  PROVE  /\ entries[k].ticket \in Ticket /\ entries[k].ticket.key = k
         /\ entries[k].ticket.issued \in Nat
<1>1. entries[k].ticket \in Optional /\ entries[k].ticket.key \in {k, NoKey}
  BY DEF TypeOK, Entry, KeyInv
<1>2. entries[k].ticket \in Ticket
  BY <1>1 DEF Optional
<1>3. QED
  BY <1>1, <1>2, TicketsAssumption DEF Ticket

\* An entry whose ticket is left alone stays filed when another key is saved.
LEMMA OtherFiled ==
  ASSUME TypeOK, KeyInv, NEW k \in Key, NEW j \in Key, j # k, Filed(j), now' = now,
         NEW t \in Optional, t.key \in {k, NoKey}, store' = Persisted(store, k, t, now),
         entries'[j].ticket = entries[j].ticket
  PROVE  Filed(j)'
<1> DEFINE u == entries[j].ticket
<1> SUFFICES ASSUME u # NoTicket
             PROVE  /\ u.issued <= now + Skew
                    /\ now < u.issued + LifeAge => u \in store'
                    /\ \A s \in store' : s.key = j => s = u
  BY DEF Filed
<1>1. u \in Ticket /\ u.key = j /\ u.issued <= now + Skew
  BY EntryTicket DEF Filed
<1>2. ASSUME now < u.issued + LifeAge PROVE u \in store'
  <2>1. u \in store /\ ValidTicket(u, now)
    BY <1>1, <1>2 DEF Filed, ValidTicket
  <2>2. QED
    BY <1>1, <2>1, PersistedKeeps
<1>3. ASSUME NEW s \in store', s.key = j PROVE s = u
  <2>1. s \in store
    BY <1>3, PersistedOnly, TicketsAssumption
  <2>2. QED
    BY <1>3, <2>1 DEF Filed
<1>4. QED
  BY <1>1, <1>2, <1>3

\* The file never holds two tickets of a key.
LEMMA OneKept ==
  ASSUME OneTicketPerKey, Touches
  PROVE  OneTicketPerKey'
<1>1. CASE store' = store
  BY <1>1 DEF OneTicketPerKey
<1>2. ASSUME NEW k \in Key, NEW t, t.key = k \/ t = NoTicket,
             store' = Persisted(store, k, t, now)
      PROVE  OneTicketPerKey'
  <2>1. \A x \in store' : (x = t /\ t # NoTicket) \/ (x \in store /\ x.key # k)
    BY <1>2, PersistedOnly
  <2>2. QED
    BY <1>2, <2>1 DEF OneTicketPerKey
<1>3. QED
  BY <1>1, <1>2 DEF Touches, Untouched, Grants, Withdraws, Loads

LEMMA FiledKept ==
  ASSUME TypeOK, KeyInv, OneTicketPerKey, \A k \in Key : Filed(k), Touches, now' = now
  PROVE  \A k \in Key : Filed(k)'
<1>1. CASE Untouched
  BY <1>1 DEF Untouched, Filed
<1>2. ASSUME NEW k \in Key, NEW t \in Ticket, Grants(k, t)
      PROVE  \A j \in Key : Filed(j)'
  <2>1. t \in Optional /\ t # NoTicket
    BY NoTicketKey DEF Optional
  <2>2. Filed(k)'
    <3>1. \A s \in store' : s.key = k => s = t
      BY <1>2, PersistedOnly DEF Grants
    <3>2. t \in store'
      BY <1>2, <2>1, PersistedOnly DEF Grants
    <3>3. QED
      BY <1>2, <3>1, <3>2 DEF Filed, Grants
  <2>3. ASSUME NEW j \in Key, j # k PROVE Filed(j)'
    BY <1>2, <2>1, <2>3, OtherFiled DEF Grants, OthersKept
  <2>4. QED
    BY <2>2, <2>3
<1>3. ASSUME NEW k \in Key, Withdraws(k)
      PROVE  \A j \in Key : Filed(j)'
  <2>1. Filed(k)'
    BY <1>3 DEF Withdraws, Filed
  <2>2. ASSUME NEW j \in Key, j # k PROVE Filed(j)'
    <3>1. entries'[j].ticket = entries[j].ticket
      BY <1>3, <2>2 DEF Withdraws, OthersKept
    <3>2. CASE store' = store
      BY <3>1, <3>2 DEF Filed
    <3>3. CASE store' = Persisted(store, k, NoTicket, now)
      <4>1. NoTicket \in Optional /\ NoTicket.key = NoKey
        BY DEF Optional, NoTicket
      <4>2. QED
        BY <2>2, <3>1, <3>3, <4>1, OtherFiled
    <3>4. QED
      BY <1>3, <3>2, <3>3 DEF Withdraws
  <2>3. QED
    BY <2>1, <2>2
<1>4. CASE Loads
  <2> SUFFICES ASSUME NEW k \in Key PROVE Filed(k)'
    OBVIOUS
  <2>1. CASE entries'[k].ticket = entries[k].ticket
    BY <1>4, <2>1 DEF Loads, Filed
  <2>2. ASSUME NEW t \in store, t.key = k, ValidTicket(t, now), entries'[k].ticket = t
        PROVE  Filed(k)'
    <3>1. \A s \in store : s.key = k => s = t
      BY <2>2 DEF OneTicketPerKey
    <3>2. QED
      BY <1>4, <2>2, <3>1 DEF Loads, Filed, ValidTicket
  <2>3. QED
    BY <1>4, <2>1, <2>2 DEF Loads
<1>5. QED
  BY <1>1, <1>2, <1>3, <1>4 DEF Touches

-----------------------------------------------------------------------------
(***************************************************************************)
(* Each step is one of these.                                              *)
(***************************************************************************)
\* ticket() returns with the entry's ticket as it was.
LEMMA ReleaseUntouched ==
  ASSUME TypeOK, NEW r \in Request, req[r].key \in Key, NEW e \in Entry, Release(r, e),
         e.ticket = entries[req[r].key].ticket, store' = store
  PROVE  Untouched
<1>1. entries'[req[r].key].ticket = entries[req[r].key].ticket
  BY ReleaseEntries
<1>2. \A k \in Key \ {req[r].key} : entries'[k] = entries[k]
  BY ReleaseEntries
<1>3. QED
  BY <1>1, <1>2 DEF Untouched

LEMMA EnterTouches ==
  ASSUME TypeOK, KeyInv, NEW r \in Request,
         Enter(r) \/ Leave(r) \/ \E k \in Key, p \in BOOLEAN : Start(r, k, p)
  PROVE  Untouched /\ now' = now
<1>1. CASE CancelSlot(r)
  <2>1. ~At(r, "idle")
    BY <1>1 DEF CancelSlot, At
  <2>2. QED
    BY <1>1, <2>1, RequestKey, ReleaseUntouched DEF CancelSlot
<1>2. CASE ~CancelSlot(r)
  BY <1>2 DEF Enter, Leave, Start, AcquireBusiness, RefuseBackoff, MissingModel, PassGate,
     CachedTicket, CancelWait, AbortSend, Untouched
<1>3. QED
  BY <1>1, <1>2

\* ticket() grants nothing but by a candidate or a harvest.
LEMMA QuietTouches ==
  ASSUME TypeOK, KeyInv, NEW r \in Request, GetTicket(r), ~AdoptImport(r), ~HarvestOK(r)
  PROVE  Untouched
<1>1. ~At(r, "idle")
  BY DEF GetTicket, Lookup, EnterTicket, AdoptImport, AdoptFails, RemoveCandidate, Decide,
         AcquireSlot, HarvestClient,
         HarvestOK, HarvestUnsaved, HarvestUnavailable, HarvestFail, At
<1> DEFINE k == req[r].key
           e == entries[k]
<1>2. k \in Key /\ e \in Entry
  BY <1>1, RequestKey
<1>3. CASE Lookup(r) \/ EnterTicket(r)
  <2>1. \A j \in Key : entries'[j].ticket = entries[j].ticket
    BY <1>2, <1>3 DEF Lookup, EnterTicket, TypeOK, Entry
  <2>2. QED
    BY <1>3, <2>1 DEF Lookup, EnterTicket, Untouched
<1>4. CASE AdoptFails(r) \/ HarvestUnsaved(r)
  BY <1>2, <1>4, ReleaseUntouched DEF AdoptFails, HarvestUnsaved
<1>5. CASE RemoveCandidate(r) \/ AcquireSlot(r) \/ HarvestClient(r)
  BY <1>5 DEF RemoveCandidate, AcquireSlot, HarvestClient, Untouched
<1>6. CASE Decide(r)
  <2>1. CASE Release(r, e)
    BY <1>2, <1>6, <2>1, ReleaseUntouched DEF Decide
  <2>2. CASE entries' = entries
    BY <1>6, <2>2 DEF Decide, Untouched
  <2>3. QED
    BY <1>6, <2>1, <2>2 DEF Decide
<1>7. CASE HarvestUnavailable(r)
  <2> DEFINE f == [e EXCEPT !.cooldown = now + CoolShort]
  <2>1. f \in Entry /\ f.ticket = e.ticket
    BY <1>2, Durations DEF TypeOK, Entry
  <2>2. Release(r, f) /\ store' = store
    BY <1>7 DEF HarvestUnavailable
  <2>3. QED
    BY <1>2, <2>1, <2>2, ReleaseUntouched
<1>8. ASSUME NEW terminal \in BOOLEAN, NEW limited \in BOOLEAN,
             HarvestFail(r, terminal, limited)
      PROVE  Untouched
  <2> DEFINE c == now + (IF terminal \/ limited THEN CoolLong ELSE CoolShort)
             f == [e EXCEPT !.cooldown = c, !.blocked = terminal]
  <2>1. c \in Nat
    BY Durations DEF TypeOK
  <2>2. f \in Entry /\ f.ticket = e.ticket
    BY <1>2, <2>1 DEF Entry
  <2>3. Release(r, f) /\ store' = store
    BY <1>8 DEF HarvestFail
  <2>4. QED
    BY <1>2, <2>2, <2>3, ReleaseUntouched
<1>9. QED
  BY <1>3, <1>4, <1>5, <1>6, <1>7, <1>8 DEF GetTicket

LEMMA GetTicketTouches ==
  ASSUME TypeOK, KeyInv, FileInv, NEW r \in Request, GetTicket(r)
  PROVE  /\ Untouched \/ \E t \in Ticket : Grants(req[r].key, t)
         /\ now' = now /\ req[r].key \in Key
<1>1. ~At(r, "idle")
  BY DEF GetTicket, Lookup, EnterTicket, AdoptImport, AdoptFails, RemoveCandidate, Decide,
         AcquireSlot, HarvestClient,
         HarvestOK, HarvestUnsaved, HarvestUnavailable, HarvestFail, At
<1> DEFINE k == req[r].key
           e == entries[k]
<1>2. k \in Key /\ e \in Entry
  BY <1>1, RequestKey
<1>3. now' = now
  BY DEF GetTicket, Lookup, EnterTicket, AdoptImport, AdoptFails, RemoveCandidate, Decide,
         AcquireSlot, HarvestClient,
         HarvestOK, HarvestUnsaved, HarvestUnavailable, HarvestFail
<1>4. CASE AdoptImport(r)
  <2> DEFINE t == req[r].cand
  <2>1. t \in Optional /\ t.key = k /\ t.issued <= now + Skew
    BY <1>1, <1>4, RequestKey DEF AdoptImport, KeyInv, FileInv, CandidateDated
  <2>2. t \in Ticket
    BY <1>2, <2>1, NoTicketKey
  <2>3. entries'[k].ticket = t /\ OthersKept(k)
    BY <1>2, <1>4 DEF AdoptImport, TypeOK, Entry, OthersKept
  <2>4. Grants(k, t)
    BY <1>4, <2>1, <2>2, <2>3 DEF AdoptImport, Grants
  <2>5. QED
    BY <1>2, <1>3, <2>2, <2>4
<1>5. CASE HarvestOK(r)
  <2>1. PICK i \in 1..(now + Skew) :
          LET t == [key |-> k, issued |-> i, id |-> minted + 1] IN
          /\ ValidTicket(t, now)
          /\ store' = Persisted(store, k, t, now)
          /\ Release(r, [e EXCEPT !.ticket = t, !.cooldown = 0])
    BY <1>5 DEF HarvestOK
  <2> DEFINE t == [key |-> k, issued |-> i, id |-> minted + 1]
             f == [e EXCEPT !.ticket = t, !.cooldown = 0]
  <2>2. t \in Ticket /\ t.key = k /\ t.issued <= now + Skew
    BY <1>2, TicketsAssumption DEF TypeOK, Ticket
  <2>3. f \in Entry /\ f.ticket = t
    BY <1>2, <2>2 DEF Entry, Optional
  <2>4. entries'[k].ticket = t /\ OthersKept(k)
    BY <1>2, <2>1, <2>3, ReleaseEntries DEF OthersKept
  <2>5. Grants(k, t)
    BY <2>1, <2>2, <2>4 DEF Grants
  <2>6. QED
    BY <1>2, <1>3, <2>2, <2>5
<1>6. QED
  BY <1>2, <1>3, <1>4, <1>5, QuietTouches

LEMMA RelayTouches ==
  ASSUME TypeOK, KeyInv, NEW r \in Request, Relay(r)
  PROVE  (Untouched \/ \E k \in Key : Withdraws(k)) /\ now' = now
<1>1. CASE ~Revoke(r)
  BY <1>1 DEF Relay, SendUpstream, TransportError, RespondOK, RespondDenied, RespondLimited,
     EndStream, Untouched
<1>2. CASE Revoke(r)
  <2> DEFINE k == req[r].ticket.key
             e == entries[k]
  <2>1. k \in Key /\ e \in Entry
    <3>1. At(r, "revoke")
      BY <1>2 DEF Revoke
    <3>2. req[r].protected /\ req[r].key \in Key
      BY <3>1 DEF KeyInv, At
    <3>3. QED
      BY <3>1, <3>2 DEF KeyInv, At, TypeOK
  <2>2. now' = now
    BY <1>2 DEF Revoke
  <2>3. CASE ~StillCurrent(r)
    BY <1>2, <2>2, <2>3 DEF Revoke, Untouched
  <2>4. CASE StillCurrent(r) /\ ~req[r].denied
    <3>1. entries' = [entries EXCEPT ![k].cooldown = now + CoolLong] /\ store' = store
      BY <1>2, <2>4 DEF Revoke
    <3>2. QED
      BY <2>1, <2>2, <3>1 DEF TypeOK, Entry, Untouched
  <2>5. CASE StillCurrent(r) /\ req[r].denied
    <3>1. /\ entries' = [entries EXCEPT ![k] = [e EXCEPT
               !.ticket = NoTicket, !.cooldown = now + CoolLong, !.blocked = TRUE]]
          /\ store' \in {store, Persisted(store, k, NoTicket, now)}
          /\ At(r, "revoke") /\ entries[k].ticket = req[r].ticket
      BY <1>2, <2>5 DEF Revoke, StillCurrent
    <3>2. entries'[k].ticket = NoTicket /\ OthersKept(k)
      BY <2>1, <3>1 DEF TypeOK, Entry, OthersKept
    <3>3. Withdraws(k)
      BY <2>5, <3>1, <3>2 DEF Withdraws
    <3>4. QED
      BY <2>1, <2>2, <3>3
  <2>6. QED
    BY <2>3, <2>4, <2>5
<1>3. QED
  BY <1>1, <1>2

LEMMA ApplyConfigLoads ==
  ASSUME TypeOK, NEW c \in Configs, ApplyConfig(c[1], c[2])
  PROVE  Loads /\ now' = now
<1>1. ASSUME NEW k \in Key
      PROVE  \/ Loaded(k).ticket = entries[k].ticket
             \/ Loaded(k).ticket \in {t \in store : t.key = k /\ ValidTicket(t, now)}
  <2> DEFINE found == {t \in store : t.key = k /\ ValidTicket(t, now)}
  <2>1. CASE entries[k].known \/ found = {}
    BY <2>1 DEF Loaded
  <2>2. CASE ~entries[k].known /\ found # {}
    <3>1. (CHOOSE t \in found : TRUE) \in found
      BY <2>2
    <3>2. Loaded(k) = [entries[k] EXCEPT !.known = TRUE, !.ticket = CHOOSE t \in found : TRUE]
      BY <2>2 DEF Loaded
    <3>3. PICK x \in found : Loaded(k) = [entries[k] EXCEPT !.known = TRUE, !.ticket = x]
      BY <3>1, <3>2
    <3>4. entries[k] \in Entry
      BY DEF TypeOK
    <3>5. Loaded(k).ticket = x
      BY <3>3, <3>4 DEF Entry
    <3>6. QED
      BY <3>5
  <2>3. QED
    BY <2>1, <2>2
<1>2. QED
  BY <1>1 DEF ApplyConfig, Loads

\* All that can happen to tickets, time and files in one step.
LEMMA StepTouches ==
  ASSUME TypeOK, KeyInv, FileInv, [Next]_vars
  PROVE  \/ Touches /\ now' = now
         \/ Forgets /\ now' = now /\ Crash
         \/ Untouched /\ now' = now + 1 /\ Tick
<1>1. ASSUME NEW r \in Request,
             \/ \E k \in Key, p \in BOOLEAN : Start(r, k, p)
             \/ Enter(r) \/ GetTicket(r) \/ Relay(r) \/ Leave(r)
      PROVE  Touches /\ now' = now
  BY <1>1, EnterTouches, GetTicketTouches, RelayTouches DEF Touches
<1>2. ASSUME NEW c \in Configs, ApplyConfig(c[1], c[2])
      PROVE  Touches /\ now' = now
  BY <1>2, ApplyConfigLoads DEF Touches
<1>3. ASSUME NEW k \in Key, NEW i \in 1..(now + Skew), QueueCandidate(k, i)
      PROVE  Touches /\ now' = now
  BY <1>3 DEF QueueCandidate, Touches, Untouched
<1>4. CASE Crash
  BY <1>4 DEF Crash, Forgets, NoEntry
<1>5. CASE Tick
  BY <1>5 DEF Tick, Untouched
<1>6. CASE UNCHANGED vars
  BY <1>6 DEF vars, Touches, Untouched
<1>7. QED
  BY <1>1, <1>2, <1>3, <1>4, <1>5, <1>6 DEF Next

-----------------------------------------------------------------------------
(***************************************************************************)
(* The way into ticket() and the candidates that are about to be adopted.  *)
(***************************************************************************)
Inside == {"lock"} \cup Holding

\* Where a request comes from that is inside ticket().
LEMMA InsideFrom ==
  ASSUME TypeOK, KeyInv, [Next]_vars, NEW r \in Request, req'[r].pc \in Inside
  PROVE  \/ req'[r] = req[r]
         \/ Lookup(r) \/ EnterTicket(r) \/ AdoptImport(r) \/ RemoveCandidate(r)
         \/ Decide(r) \/ AcquireSlot(r) \/ HarvestClient(r)
<1> DEFINE Within(s) == \/ Lookup(s) \/ EnterTicket(s) \/ AdoptImport(s) \/ RemoveCandidate(s)
                        \/ Decide(s) \/ AcquireSlot(s) \/ HarvestClient(s)
<1>1. ASSUME NEW s \in Request, Within(s), s # r
      PROVE  req'[r] = req[r]
  <2>1. CASE EnterTicket(s)
    BY <1>1, <2>1 DEF EnterTicket, TypeOK
  <2>2. CASE ~EnterTicket(s)
    BY <1>1, <2>2, OthersSame DEF Lookup, AdoptImport, RemoveCandidate, Decide, AcquireSlot,
       HarvestClient
  <2>3. QED
    BY <2>1, <2>2
<1>2. ASSUME NEW s \in Request,
             \/ \E p \in PC \ Inside : Goto(s, p)
             \/ \E t : Inject(s, t)
             \/ Unprotected(s) \/ Stream(s) \/ Finish(s)
      PROVE  req'[r] = req[r]
  <2>1. {"send", "stream", "idle"} \cap Inside = {}
    BY DEF Inside, Holding, Harvesting
  <2>2. QED
    BY <1>2, <2>1, WhereTo, OthersSame
<1>3. {"gate", "send", "lookup", "cached", "await", "revoke"} \subseteq PC \ Inside
  BY DEF PC, Serving, Gated, Holding, Harvesting, Inside
<1>4. ASSUME NEW s \in Request, \E k \in Key, p \in BOOLEAN : Start(s, k, p)
      PROVE  req'[r] = req[r]
  BY <1>4 DEF Start, Idle, TypeOK, Inside, Holding, Harvesting
<1>5. ASSUME NEW s \in Request, Enter(s) \/ Leave(s) PROVE req'[r] = req[r]
  <2>1. CASE CancelWait(s)
    BY <2>1 DEF CancelWait, Idle, TypeOK, Inside, Holding, Harvesting
  <2>2. CASE ~CancelWait(s)
    BY <1>2, <1>3, <1>5, <2>2 DEF Enter, Leave, AcquireBusiness, RefuseBackoff, MissingModel,
       PassGate, CachedTicket, CancelSlot, AbortSend
  <2>3. QED
    BY <2>1, <2>2
<1>6. ASSUME NEW s \in Request, GetTicket(s), ~Within(s) PROVE req'[r] = req[r]
  BY <1>2, <1>6 DEF GetTicket, AdoptFails, HarvestUnavailable, HarvestOK, HarvestUnsaved,
     HarvestFail
<1>7. ASSUME NEW s \in Request, Relay(s) PROVE req'[r] = req[r]
  <2>1. CASE req' = [req EXCEPT ![s] = [@ EXCEPT !.pc = "revoke", !.denied = TRUE]]
    BY <2>1 DEF TypeOK, Job, Inside, Holding, Harvesting
  <2>2. CASE Goto(s, "await") \/ Goto(s, "revoke") \/ Stream(s) \/ Finish(s)
    BY <1>2, <1>3, <2>2
  <2>3. QED
    BY <1>7, <2>1, <2>2 DEF Relay, SendUpstream, TransportError, RespondOK, RespondDenied,
       RespondLimited, Revoke, EndStream
<1>8. CASE \/ \E c \in Configs : ApplyConfig(c[1], c[2])
           \/ \E k \in Key, i \in 1..(now + Skew) : QueueCandidate(k, i)
           \/ Tick \/ UNCHANGED vars
  BY <1>8 DEF ApplyConfig, QueueCandidate, Tick, vars
<1>9. CASE Crash
  BY <1>9 DEF Crash, Idle, Inside, Holding, Harvesting
<1>10. QED
  BY <1>1, <1>4, <1>5, <1>6, <1>7, <1>8, <1>9 DEF Next

\* Only EnterTicket brings a request to "adopt", with a candidate it has just
\* found to be importable.
LEMMA AdoptFrom ==
  ASSUME TypeOK, KeyInv, [Next]_vars, NEW r \in Request, req'[r].pc = "adopt"
  PROVE  \/ req'[r] = req[r]
         \/ /\ EnterTicket(r) /\ req'[r].cand = incoming[req[r].key]
            /\ Importable(req[r].key, req'[r].cand, now)
<1>1. CASE EnterTicket(r)
  <2> DEFINE k == req[r].key
  <2>1. /\ req'[r].pc = IF Importable(k, incoming[k], now) THEN "adopt" ELSE "decide"
        /\ req'[r].cand = incoming[k]
    BY <1>1 DEF EnterTicket, TypeOK, Job
  <2>2. QED
    BY <1>1, <2>1
<1>2. CASE ~EnterTicket(r)
  <2>1. ~\E p \in {"lock", "remove", "slot", "client", "harvest", "decide", "send"} : Goto(r, p)
    BY WhereTo
  <2>2. req'[r].pc \in Inside /\ ~Unprotected(r) /\ \A t : ~Inject(r, t)
    BY WhereTo DEF Inside, Holding
  <2>3. QED
    BY <1>2, <2>1, <2>2, InsideFrom DEF Lookup, AdoptImport, RemoveCandidate, Decide,
       AcquireSlot, HarvestClient
<1>3. QED
  BY <1>1, <1>2

-----------------------------------------------------------------------------
LEMMA FileInit == Init => FileInv
<1> SUFFICES ASSUME Init PROVE FileInv
  OBVIOUS
<1>1. OneTicketPerKey
  BY DEF Init, OneTicketPerKey
<1>2. (\A k \in Key : Filed(k)) /\ CandidateDated
  BY DEF Init, Filed, CandidateDated, At, NoEntry, Idle
<1>3. QED
  BY <1>1, <1>2 DEF FileInv

LEMMA FileStep == TypeOK /\ KeyInv /\ FileInv /\ [Next]_vars => FileInv'
<1> SUFFICES ASSUME TypeOK, KeyInv, FileInv, [Next]_vars PROVE FileInv'
  OBVIOUS
<1>1. now \in Nat /\ Skew \in Nat /\ LifeAge \in Nat
  BY TicketsAssumption DEF TypeOK
<1>2. now' = now \/ now' = now + 1
  BY StepTouches
<1>3. CandidateDated'
  <2> SUFFICES ASSUME NEW r \in Request, req'[r].pc = "adopt"
               PROVE  req'[r].cand.issued <= now' + Skew
    BY DEF CandidateDated, At
  <2>1. req'[r].cand.issued <= now + Skew
    BY AdoptFrom DEF FileInv, CandidateDated, At, Importable, ValidTicket
  <2>2. req'[r].cand \in Optional
    BY TypeStep DEF TypeOK, Job
  <2>3. QED
    BY <1>1, <1>2, <2>1, <2>2, OptionalFields
<1>4. CASE Touches /\ now' = now
  BY <1>3, <1>4, OneKept, FiledKept DEF FileInv
<1>5. CASE Forgets
  BY <1>3, <1>5 DEF Forgets, FileInv, OneTicketPerKey, Filed
<1>6. CASE Untouched /\ now' = now + 1
  <2>1. ASSUME NEW k \in Key PROVE Filed(k)'
    <3>1. entries'[k].ticket = entries[k].ticket /\ store' = store
      BY <1>6 DEF Untouched
    <3>2. CASE entries[k].ticket = NoTicket
      BY <3>1, <3>2 DEF Filed
    <3>3. CASE entries[k].ticket # NoTicket
      <4> DEFINE t == entries[k].ticket
      <4>1. t.issued \in Nat /\ Filed(k)
        BY <3>3, EntryTicket DEF FileInv
      <4>2. t.issued <= now + 1 + Skew /\ (now + 1 < t.issued + LifeAge => t \in store)
        BY <1>1, <3>3, <4>1 DEF Filed
      <4>3. QED
        BY <1>6, <3>1, <4>1, <4>2 DEF Filed
    <3>4. QED
      BY <3>2, <3>3
  <2>2. QED
    BY <1>3, <1>6, <2>1 DEF FileInv, Untouched, OneTicketPerKey
<1>7. QED
  BY <1>4, <1>5, <1>6, StepTouches

LEMMA FileAlways == Spec => [](TypeOK /\ KeyInv /\ FileInv)
<1>1. Init => TypeOK /\ KeyInv /\ FileInv
  BY InitTypes, FileInit
<1>2. TypeOK /\ KeyInv /\ FileInv /\ [Next]_vars => (TypeOK /\ KeyInv /\ FileInv)'
  BY TypeStep, KeyStep, FileStep
<1>3. QED
  BY <1>1, <1>2, PTL DEF Spec

\* persist() comes before the entry is published, and a failed write publishes
\* nothing: a restart finds every usable ticket, with any number of handlers,
\* keys, disk faults and restarts.
THEOREM FileBacksMemory == Spec => []StoreBacksEntries
<1>1. TypeOK /\ KeyInv /\ FileInv => StoreBacksEntries
  <2> SUFFICES ASSUME FileInv, NEW k \in Key, ValidTicket(entries[k].ticket, now)
               PROVE  entries[k].ticket \in store
    BY DEF StoreBacksEntries
  <2>1. entries[k].ticket # NoTicket
    BY TicketsAssumption DEF ValidTicket, NoTicket
  <2>2. QED
    BY <2>1 DEF FileInv, Filed, ValidTicket
<1>2. QED
  BY <1>1, FileAlways, PTL

\* persist() replaces a key's ticket and touches no other key's: ApplyConfig,
\* which takes the first ticket it finds of a key, finds only one.
THEOREM FileHoldsOnePerKey == Spec => []OneTicketPerKey
<1>1. FileInv => OneTicketPerKey
  BY DEF FileInv
<1>2. QED
  BY <1>1, FileAlways, PTL

-----------------------------------------------------------------------------
LEMMA SparedStep ==
  ASSUME TypeOK, KeyInv, FileInv, [Next]_vars, NEW k \in Key
  PROVE  LET denied == {req[r].ticket : r \in {r \in Request : At(r, "revoke") /\ req[r].denied}}
             kept   == {t \in store : t.key = k /\ ValidTicket(t, now)} IN
         /\ entries'[k].ticket = NoTicket /\ crashes' = crashes
              => entries[k].ticket \in denied \cup {NoTicket}
         /\ kept # {} /\ ~(\E t \in store' : t.key = k) => kept \subseteq denied
<1> DEFINE denied == {req[r].ticket : r \in {r \in Request : At(r, "revoke") /\ req[r].denied}}
           kept   == {t \in store : t.key = k /\ ValidTicket(t, now)}
           Spared == /\ entries'[k].ticket = NoTicket /\ crashes' = crashes
                          => entries[k].ticket \in denied \cup {NoTicket}
                     /\ kept # {} /\ ~(\E t \in store' : t.key = k) => kept \subseteq denied
<1> SUFFICES Spared
  OBVIOUS
<1>1. CASE Untouched \/ Loads
  <2>1. entries'[k].ticket = NoTicket => entries[k].ticket = NoTicket
    BY <1>1, TicketsAssumption DEF Untouched, Loads, NoTicket
  <2>2. store' = store
    BY <1>1 DEF Untouched, Loads
  <2>3. QED
    BY <2>1, <2>2
<1>2. ASSUME NEW j \in Key, NEW t \in Ticket, Grants(j, t)
      PROVE  Spared
  <2>1. t # NoTicket /\ t.key = j /\ store' = Persisted(store, j, t, now)
    BY <1>2, NoTicketKey DEF Grants
  <2>2. entries'[k].ticket = NoTicket => entries[k].ticket = NoTicket
    BY <1>2, <2>1 DEF Grants, OthersKept
  <2>3. kept # {} => \E x \in store' : x.key = k
    <3>1. CASE j = k
      BY <2>1, <3>1, PersistedOnly
    <3>2. CASE j # k
      BY <2>1, <3>2, PersistedKeeps
    <3>3. QED
      BY <3>1, <3>2
  <2>4. QED
    BY <2>2, <2>3
<1>3. ASSUME NEW j \in Key, Withdraws(j)
      PROVE  Spared
  <2>1. entries[j].ticket \in denied
    BY <1>3 DEF Withdraws
  <2>2. CASE j # k
    <3>1. entries'[k].ticket = entries[k].ticket
      BY <1>3, <2>2 DEF Withdraws, OthersKept
    <3>2. kept # {} => \E x \in store' : x.key = k
      BY <1>3, <2>2, PersistedKeeps DEF Withdraws
    <3>3. QED
      BY <3>1, <3>2
  <2>3. CASE j = k
    <3>1. entries[k].ticket # NoTicket
      <4>1. PICK r \in Request : At(r, "revoke") /\ entries[j].ticket = req[r].ticket
        BY <1>3 DEF Withdraws
      <4>2. req[r].ticket.key = req[r].key /\ req[r].key \in Key
        BY <4>1 DEF KeyInv, At
      <4>3. QED
        BY <2>3, <4>1, <4>2, TicketsAssumption DEF NoTicket
    <3>2. \A s \in kept : s = entries[k].ticket
      BY <3>1 DEF FileInv, Filed
    <3>3. QED
      BY <2>1, <2>3, <3>2
  <2>4. QED
    BY <2>2, <2>3
<1>4. CASE Forgets /\ Crash
  <2>1. crashes' # crashes /\ store' = store
    BY <1>4 DEF Crash, TypeOK
  <2>2. QED
    BY <2>1
<1>5. QED
  BY <1>1, <1>2, <1>3, <1>4, StepTouches DEF Touches

\* An answer that arrives late cannot take away a ticket other than the one
\* that was denied, neither in memory nor in the file.
THEOREM NewTicketsSpared == Spec => OldAnswersSpareNew
<1>1. TypeOK /\ KeyInv /\ FileInv /\ [Next]_vars
        => [\A k \in Key :
              LET denied == {req[r].ticket : r \in {r \in Request : At(r, "revoke") /\ req[r].denied}}
                  kept   == {t \in store : t.key = k /\ ValidTicket(t, now)} IN
              /\ entries'[k].ticket = NoTicket /\ crashes' = crashes
                   => entries[k].ticket \in denied \cup {NoTicket}
              /\ kept # {} /\ ~(\E t \in store' : t.key = k)
                   => kept \subseteq denied]_vars
  BY SparedStep
<1>2. QED
  BY <1>1, FileAlways, PTL DEF Spec, OldAnswersSpareNew
=============================================================================
