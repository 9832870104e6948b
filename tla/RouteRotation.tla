--------------------------- MODULE RouteRotation ---------------------------
(***************************************************************************)
(* Which exit the collector tries for an account: routes_for and           *)
(* order_routes of collector/local_ip_harvest.py, and the rotation state   *)
(* that collect() keeps for the account in cron-state.json.                *)
(*                                                                         *)
(* Every cycle builds the list of routes anew: the generators that answer, *)
(* then Clash and IP-management routes interleaved.  A route is its key.   *)
(***************************************************************************)
EXTENDS Integers, Sequences

CONSTANTS
  Generators,  \* the configured generators, in order
  Clash, IP,   \* the static routes of both sources, in order
  NoRoute,     \* no key: st.get(...) is None
  Flaky,       \* may a generator fail to answer?
  Outcomes     \* what attempts may come to: subset of {"queued", "failed"}

Members(s) == {s[i] : i \in DOMAIN s}
Dynamic == Members(Generators)
Static  == Members(Clash) \cup Members(IP)
Route   == Dynamic \cup Static

ASSUME RotationAssumption ==
  /\ Generators \in Seq(Dynamic) /\ {Clash, IP} \subseteq Seq(Static)
  /\ NoRoute \notin Route
  /\ Dynamic \cap Static = {}
  /\ Flaky \in BOOLEAN
  /\ Outcomes \subseteq {"queued", "failed"}

VARIABLES cursor, last, preferred,  \* the account's state
          up,    \* the generators that answered this cycle
          turn   \* history: flips, so that every attempt is a step

vars == <<cursor, last, preferred, up, turn>>

-----------------------------------------------------------------------------
\* The two static sources in turn, then the rest of the longer one.
Interleaved(c, p) ==
  LET m == IF Len(c) < Len(p) THEN Len(c) ELSE Len(p)
      rest == IF Len(c) > m THEN c ELSE p IN
  [i \in 1..(Len(c) + Len(p)) |->
     IF i > 2 * m THEN rest[i - m]
     ELSE IF i % 2 = 1 THEN c[(i + 1) \div 2] ELSE p[i \div 2]]

\* The members of s that are in S, in the order of s.
Kept(s, S) ==
  LET kept[n \in 0 .. Len(s)] ==
        IF n = 0 THEN <<>>
        ELSE IF s[n] \in S THEN Append(kept[n - 1], s[n]) ELSE kept[n - 1]
  IN  kept[Len(s)]

Without(r, s) == Kept(s, Route \ {r})

Answering(g) == Kept(Generators, g)

\* routes_for, when the generators g answer.
RoutesFor(g) == Answering(g) \o Interleaved(Clash, IP)

Rotated(s, c) == SubSeq(s, c + 1, Len(s)) \o SubSeq(s, 1, c)

ToFront(r, s) == <<r>> \o Without(r, s)

\* (mutant) The route tried last stays in the list.
OrderedKeepingLast(routes, c, l, p, g) ==
  LET turned == Rotated(routes, c % Len(routes)) IN
  IF p \in Members(routes) THEN ToFront(p, turned)
  ELSE IF Answering(g) # <<>> THEN ToFront(Answering(g)[1], turned) ELSE turned

\* A preferred route goes first; without one, the first generator does, unless
\* it was tried last; the route tried last is left out if there is another.
Ordered(routes, c, l, p, g) ==
  LET turned   == Rotated(routes, c % Len(routes))
      favoured == p \in Members(routes)
      pulled   == /\ ~favoured /\ Answering(g) # <<>>
                  /\ Answering(g)[1] # l
      fronted  == IF favoured THEN ToFront(p, turned)
                  ELSE IF pulled THEN ToFront(Answering(g)[1], turned) ELSE turned IN
  IF Len(routes) > 1 THEN Without(l, fronted) ELSE fronted

\* order_routes: at most one route.
OrderRoutes(routes, c, l, p, g) ==
  IF routes = <<>> THEN <<>> ELSE SubSeq(Ordered(routes, c, l, p, g), 1, 1)

\* (mutant) The cursor is never moved on.
CursorReset(routes, r) == 0

\* (mutant) One too few.
CursorBefore(routes, r) ==
  (CHOOSE i \in DOMAIN routes : routes[i] = r) - 2

CursorAfter(routes, r) ==
  (CHOOSE i \in DOMAIN routes : routes[i] = r) % Len(routes)

-----------------------------------------------------------------------------
\* cron-state.json outlives every change of the configured routes: an account
\* may start with the cursor and the keys of a longer, or other, list.
Init ==
  /\ cursor \in 0..Len(RoutesFor(Dynamic))
  /\ last \in Route \cup {NoRoute}
  /\ preferred \in Route \cup {NoRoute}
  /\ up = Dynamic
  /\ turn = 0

\* collect(): one attempt.  A queued candidate makes its route the preferred
\* one; whatever comes of it, an attempt on the preferred route uses it up.
Attempt(g, outcome) ==
  LET routes == RoutesFor(g)
      choice == OrderRoutes(routes, cursor, last, preferred, g) IN
  /\ choice # <<>>
  /\ up' = g
  /\ turn' = 1 - turn
  /\ cursor' = CursorAfter(routes, choice[1])
  /\ last' = choice[1]
  /\ preferred' = IF outcome = "queued" THEN choice[1]
                  ELSE IF preferred = choice[1] THEN NoRoute ELSE preferred

Next ==
  \E g \in (IF Flaky THEN SUBSET Dynamic ELSE {Dynamic}), o \in Outcomes : Attempt(g, o)

\* The timer starts a cycle every 20 s for ever.
Spec == Init /\ [][Next]_vars /\ WF_vars(Next)

-----------------------------------------------------------------------------
\* The persisted state names routes of the configuration.
TypeOK ==
  /\ cursor \in 0..Len(RoutesFor(Dynamic))
  /\ last \in Route \cup {NoRoute}
  /\ preferred \in Route \cup {NoRoute}
  /\ up \subseteq Dynamic
  /\ turn \in {0, 1}

\* README: rotate after a failure.  While attempts fail, every exit is tried
\* again and again, whatever cursor, last and preferred route the account's
\* file starts with.
EveryRouteTried ==
  \A r \in Route : []<>(last = r)

\* What the code does of it: if attempts go on, once no generator answers any
\* more and no static exit succeeds, every static exit is tried again and again.
StaticRoutesTried ==
  <>[](up = {} /\ preferred \notin Static) /\ []<>(turn = 0) /\ []<>(turn = 1)
    => \A r \in Static : []<>(last = r)

\* README:96: with a ticket missing, dynamic and static exits take turns.  (No
\* route is preferred, and a generator answers.)
DynamicStaticAlternate ==
  [][turn' # turn /\ preferred \notin Members(RoutesFor(up')) /\ up' # {}
       => (last' \in Dynamic <=> last \notin Dynamic)]_vars

\* What the code does of it: they take turns while exactly one of the generators
\* answers, no route is preferred, and there is a static exit.  Which generator
\* that is may change from attempt to attempt: whatever was tried last, it is
\* tried now unless it was the last one itself.
SoleGeneratorAlternates ==
  [][\A g \in Dynamic :
       turn' # turn /\ up' = {g} /\ preferred \notin Members(RoutesFor(up'))
         => (last' = g <=> last # g)]_vars
=============================================================================
