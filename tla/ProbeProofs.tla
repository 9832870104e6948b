----------------------------- MODULE ProbeProofs -----------------------------
(***************************************************************************)
(* Proofs about Probe, for any exits, any persisted state and answers of   *)
(* any length.                                                             *)
(***************************************************************************)
EXTENDS Probe, SequenceTheorems, WellFoundedInduction, TLAPS

----------------------------------------------------------------------------
(* Induction, as a fact about sets of numbers.                             *)

LEMMA LeastNumber ==
  ASSUME NEW S, S \subseteq Nat, S # {}
  PROVE  \E n \in S : \A m \in S : n <= m
  <1> DEFINE less == OpToRel(<, Nat)
  <1>1. \A m, n \in Nat : m < n => <<m, n>> \in less
    BY DEF OpToRel
  <1>2. IsWellFoundedOn(less, Nat)
    BY NatLessThanWellFounded
  <1> HIDE DEF less
  <1>3. PICK n \in S : \A m \in S : <<m, n>> \notin less
    BY <1>2, WFMin
  <1>4. \A m \in S : ~(m < n) /\ m \in Nat /\ n \in Nat
    BY <1>1, <1>3
  <1> QED
    BY <1>4

LEMMA Induction ==
  ASSUME NEW S, 0 \in S, \A n \in Nat : n \in S => n + 1 \in S
  PROVE  \A n \in Nat : n \in S
  <1> DEFINE T == Nat \ S
  <1>1. ASSUME T # {} PROVE FALSE
    <2>1. PICK n \in T : \A m \in T : n <= m
      <3>1. T \subseteq Nat
        OBVIOUS
      <3> HIDE DEF T
      <3> QED
        BY <1>1, <3>1, LeastNumber
    <2>2. n \in Nat /\ n # 0
      OBVIOUS
    <2>3. n - 1 \in Nat /\ n - 1 \in S
      BY <2>1, <2>2
    <2> QED
      BY <2>3
  <1> QED
    BY <1>1

----------------------------------------------------------------------------
(* The lists of exits.                                                     *)

\* kept holds what is left of the first n members of s, for n up to max.
Keeps(s, S, max, kept) ==
  kept = [n \in 0 .. max |->
            IF n = 0 THEN <<>>
            ELSE IF s[n] \in S THEN Append(kept[n - 1], s[n]) ELSE kept[n - 1]]

LEMMA KeepsExist ==
  ASSUME NEW s, NEW S, NEW max \in Nat
  PROVE  \E kept : Keeps(s, S, max, kept)
  <1> DEFINE N == {n \in Nat : \E kept : Keeps(s, S, n, kept)}
  <1>1. 0 \in N
    <2>1. Keeps(s, S, 0, [n \in 0 .. 0 |-> <<>>])
      BY DEF Keeps
    <2> QED
      BY <2>1
  <1>2. ASSUME NEW n \in Nat, n \in N PROVE n + 1 \in N
    <2>1. PICK f : Keeps(s, S, n, f)
      BY <1>2
    <2> DEFINE next == IF s[n + 1] \in S THEN Append(f[n], s[n + 1]) ELSE f[n]
               g == [i \in 0 .. n + 1 |-> IF i <= n THEN f[i] ELSE next]
    <2>2. ASSUME NEW i \in 0 .. n + 1
          PROVE  g[i] = IF i = 0 THEN <<>>
                        ELSE IF s[i] \in S THEN Append(g[i - 1], s[i]) ELSE g[i - 1]
      <3>1. CASE i <= n
        <4>1. i \in 0 .. n /\ (i = 0 \/ i - 1 \in 0 .. n)
          BY <3>1
        <4>2. f[i] = IF i = 0 THEN <<>>
                     ELSE IF s[i] \in S THEN Append(f[i - 1], s[i]) ELSE f[i - 1]
          BY <2>1, <4>1 DEF Keeps
        <4> QED
          BY <3>1, <4>1, <4>2
      <3>2. CASE i = n + 1
        BY <3>2
      <3> QED
        BY <3>1, <3>2
    <2>3. g = [i \in 0 .. n + 1 |-> g[i]]
      OBVIOUS
    <2> HIDE DEF g
    <2>4. Keeps(s, S, n + 1, g)
      BY <2>2, <2>3 DEF Keeps
    <2> QED
      BY <2>4
  <1> HIDE DEF N
  <1>3. max \in N
    BY <1>1, <1>2, Induction
  <1> QED
    BY <1>3 DEF N

\* What is left of the first n members.
LeftOf(s, S, A, n, k) ==
  /\ k \in Seq(A \cap S)
  /\ Len(k) <= n
  /\ \A i \in 1 .. n : s[i] \in S => \E j \in 1 .. Len(k) : k[j] = s[i]
  /\ n >= 1 /\ s[1] \in S => Len(k) >= 1 /\ k[1] = s[1]
  /\ n >= 2 /\ s[1] \notin S /\ s[2] \in S => Len(k) >= 1 /\ k[1] = s[2]
  /\ (\A i \in 1 .. n : s[i] \notin S) => Len(k) = 0
  /\ (\A i \in 1 .. n : s[i] \in S) => Len(k) = n

LEMMA LeftOfMore ==
  ASSUME NEW A, NEW s \in Seq(A), NEW S, NEW n \in Nat, n + 1 <= Len(s),
         NEW k, LeftOf(s, S, A, n, k)
  PROVE  LeftOf(s, S, A, n + 1, IF s[n + 1] \in S THEN Append(k, s[n + 1]) ELSE k)
  <1>1. s[n + 1] \in A
    OBVIOUS
  <1>2. CASE s[n + 1] \notin S
    <2>1. n + 1 >= 2 /\ s[1] \notin S /\ s[2] \in S => n >= 2
      BY <1>2
    <2> QED
      BY <1>2, <2>1 DEF LeftOf
  <1>3. CASE s[n + 1] \in S
    <2> DEFINE t == Append(k, s[n + 1])
    <2>1. /\ t \in Seq(A \cap S) /\ Len(t) = Len(k) + 1 /\ Len(k) \in Nat
          /\ t[Len(k) + 1] = s[n + 1] /\ \A j \in 1 .. Len(k) : t[j] = k[j]
      BY <1>1, <1>3 DEF LeftOf
    <2> HIDE DEF t
    <2>2. ASSUME NEW i \in 1 .. n + 1, s[i] \in S
          PROVE  \E j \in 1 .. Len(t) : t[j] = s[i]
      <3>1. CASE i = n + 1
        BY <2>1, <3>1
      <3>2. CASE i \in 1 .. n
        <4>1. PICK j \in 1 .. Len(k) : k[j] = s[i]
          BY <2>2, <3>2 DEF LeftOf
        <4> QED
          BY <2>1, <4>1
      <3> QED
        BY <3>1, <3>2
    <2>3. s[1] \in S => Len(t) >= 1 /\ t[1] = s[1]
      <3>1. CASE n = 0
        <4>1. Len(k) = 0
          BY <3>1, <2>1 DEF LeftOf
        <4> QED
          BY <3>1, <2>1, <4>1
      <3>2. CASE n >= 1
        BY <3>2, <2>1 DEF LeftOf
      <3> QED
        BY <3>1, <3>2
    <2>4. Len(t) <= n + 1 /\ ((\A i \in 1 .. n + 1 : s[i] \in S) => Len(t) = n + 1)
      BY <2>1 DEF LeftOf
    <2>5. ASSUME n + 1 >= 2, s[1] \notin S, s[2] \in S PROVE Len(t) >= 1 /\ t[1] = s[2]
      <3>1. CASE n = 1
        <4>1. \A i \in 1 .. n : s[i] \notin S
          BY <2>5, <3>1
        <4>2. Len(k) = 0
          BY <4>1 DEF LeftOf
        <4> QED
          BY <2>1, <3>1, <4>2
      <3>2. CASE n >= 2
        <4>1. Len(k) >= 1 /\ k[1] = s[2]
          BY <2>5, <3>2 DEF LeftOf
        <4> QED
          BY <2>1, <4>1
      <3> QED
        BY <2>5, <3>1, <3>2
    <2>6. ~(\A i \in 1 .. n + 1 : s[i] \notin S)
      BY <1>3
    <2>7. LeftOf(s, S, A, n + 1, t)
      BY <2>1, <2>2, <2>3, <2>4, <2>5, <2>6 DEF LeftOf
    <2> QED
      BY <1>3, <2>7 DEF t
  <1> QED
    BY <1>2, <1>3

LEMMA KeptKeeps ==
  ASSUME NEW s, NEW S, Len(s) \in Nat
  PROVE  \E kept : Keeps(s, S, Len(s), kept) /\ Kept(s, S) = kept[Len(s)]
  <1>1. \E kept : Keeps(s, S, Len(s), kept)
    BY KeepsExist
  <1> QED
    BY <1>1, Zenon DEF Keeps, Kept

LEMMA KeptIsLeft ==
  ASSUME NEW A, NEW s \in Seq(A), NEW S
  PROVE  LeftOf(s, S, A, Len(s), Kept(s, S))
  <1>1. Len(s) \in Nat
    OBVIOUS
  <1>2. PICK kept : Keeps(s, S, Len(s), kept) /\ Kept(s, S) = kept[Len(s)]
    BY <1>1, KeptKeeps
  <1> DEFINE N == {n \in Nat : n <= Len(s) => LeftOf(s, S, A, n, kept[n])}
  <1>3. 0 \in N
    <2>1. kept[0] = <<>>
      BY <1>1, <1>2 DEF Keeps
    <2>2. <<>> \in Seq(A \cap S) /\ Len(<<>>) = 0 /\ 1 .. 0 = {}
      OBVIOUS
    <2>3. LeftOf(s, S, A, 0, <<>>)
      BY <2>2 DEF LeftOf
    <2> QED
      BY <2>1, <2>3
  <1>4. ASSUME NEW n \in Nat, n \in N PROVE n + 1 \in N
    <2>1. ASSUME n + 1 <= Len(s) PROVE LeftOf(s, S, A, n + 1, kept[n + 1])
      <3>1. LeftOf(s, S, A, n, kept[n])
        BY <1>1, <1>4, <2>1
      <3>2. kept[n + 1] = IF s[n + 1] \in S THEN Append(kept[n], s[n + 1]) ELSE kept[n]
        <4>1. n + 1 \in 0 .. Len(s) /\ n + 1 # 0 /\ (n + 1) - 1 = n
          BY <1>1, <2>1
        <4> QED
          BY <1>2, <4>1 DEF Keeps
      <3> QED
        BY <2>1, <3>1, <3>2, LeftOfMore
    <2> QED
      BY <2>1
  <1> HIDE DEF N
  <1>5. Len(s) \in N
    BY <1>1, <1>3, <1>4, Induction
  <1> QED
    BY <1>1, <1>2, <1>5 DEF N

LEMMA MembersIn ==
  ASSUME NEW A, NEW s \in Seq(A)
  PROVE  s \in Seq(Members(s)) /\ Members(s) \subseteq A
  BY SeqDef DEF Members

LEMMA InterleavedMembers ==
  ASSUME NEW A, NEW c \in Seq(A), NEW p \in Seq(A)
  PROVE  /\ Interleaved(c, p) \in Seq(A)
         /\ Len(Interleaved(c, p)) = Len(c) + Len(p)
  <1> DEFINE m == IF Len(c) < Len(p) THEN Len(c) ELSE Len(p)
             rest == IF Len(c) > m THEN c ELSE p
             at(i) == IF i > 2 * m THEN rest[i - m]
                      ELSE IF i % 2 = 1 THEN c[(i + 1) \div 2] ELSE p[i \div 2]
             n == Len(c) + Len(p)
  <1>1. /\ Len(c) \in Nat /\ Len(p) \in Nat /\ n \in Nat /\ m \in Nat
        /\ m <= Len(c) /\ m <= Len(p)
        /\ rest \in Seq(A) /\ Len(rest) = n - m
    <2>1. Len(c) \in Nat /\ Len(p) \in Nat
      OBVIOUS
    <2>2. CASE Len(c) < Len(p)
      BY <2>1, <2>2
    <2>3. CASE ~(Len(c) < Len(p))
      BY <2>1, <2>3
    <2> QED
      BY <2>2, <2>3
  <1>2. ASSUME NEW i \in 1 .. n PROVE at(i) \in A
    <2>1. CASE i > 2 * m
      <3> HIDE DEF m, rest, n
      <3>1. i - m \in 1 .. Len(rest)
        BY <1>1, <2>1
      <3> QED
        BY <1>1, <2>1, <3>1
    <2>2. CASE i <= 2 * m /\ i % 2 = 1
      <3> HIDE DEF m, rest, n
      <3>1. (i + 1) \div 2 \in 1 .. Len(c)
        BY <1>1, <2>2
      <3> QED
        BY <1>1, <2>2, <3>1
    <2>3. CASE i <= 2 * m /\ i % 2 # 1
      <3> HIDE DEF m, rest, n
      <3>1. i \div 2 \in 1 .. Len(p)
        BY <1>1, <2>3
      <3> QED
        BY <1>1, <2>3, <3>1
    <2> QED
      BY <1>1, <2>1, <2>2, <2>3
  <1>3. Interleaved(c, p) = [i \in 1 .. n |-> at(i)]
    BY DEF Interleaved
  <1> HIDE DEF at, n
  <1>4. [i \in 1 .. n |-> at(i)] \in [1 .. n -> A]
    BY <1>2
  <1>5. Interleaved(c, p) \in Seq(A) /\ Len(Interleaved(c, p)) = n
    BY <1>1, <1>3, <1>4, SeqDef
  <1> QED
    BY <1>5 DEF n

LEMMA RotatedMembers ==
  ASSUME NEW A, NEW s \in Seq(A), NEW c \in 0 .. Len(s)
  PROVE  /\ Rotated(s, c) \in Seq(A) /\ Len(Rotated(s, c)) = Len(s)
         /\ \A i \in 1 .. Len(s) - c : Rotated(s, c)[i] = s[i + c]
         /\ \A i \in 1 .. c : Rotated(s, c)[i + (Len(s) - c)] = s[i]
         /\ \A i \in 1 .. Len(s) : \E j \in 1 .. Len(Rotated(s, c)) : Rotated(s, c)[j] = s[i]
  <1> DEFINE back == SubSeq(s, c + 1, Len(s))
             front == SubSeq(s, 1, c)
  <1>1. /\ Len(s) \in Nat
        /\ back \in Seq(A) /\ Len(back) = Len(s) - c
        /\ \A i \in 1 .. Len(s) - c : back[i] = s[i + c]
        /\ front \in Seq(A) /\ Len(front) = c
        /\ \A i \in 1 .. c : front[i] = s[i]
    <2>1. Len(s) \in Nat /\ c \in Nat /\ c <= Len(s) /\ \A i \in 1 .. Len(s) : s[i] \in A
      OBVIOUS
    <2>2. /\ front \in Seq(A) /\ Len(front) = c
          /\ \A i \in 1 .. c : front[i] = s[i]
      BY <2>1, SubSeqProperties
    <2>3. /\ back \in Seq(A) /\ Len(back) = Len(s) - c
          /\ \A i \in 1 .. Len(s) - c : back[i] = s[(c + 1) + i - 1]
      <3>1. /\ c + 1 \in Int /\ Len(s) \in Int
            /\ \A i \in (c + 1) .. Len(s) : s[i] \in A
            /\ Len(s) - (c + 1) + 1 = Len(s) - c
        BY <2>1
      <3>2. /\ back \in Seq(A)
            /\ Len(back) = IF c + 1 <= Len(s) THEN Len(s) - (c + 1) + 1 ELSE 0
            /\ \A i \in 1 .. Len(s) - (c + 1) + 1 : back[i] = s[(c + 1) + i - 1]
        BY <3>1, SubSeqProperties
      <3> HIDE DEF back, front
      <3>3. Len(back) = Len(s) - c
        BY <2>1, <3>2
      <3> QED
        BY <3>1, <3>2, <3>3
    <2> HIDE DEF back, front
    <2>4. \A i \in 1 .. Len(s) - c : s[(c + 1) + i - 1] = s[i + c]
      BY <2>1
    <2> QED
      BY <2>1, <2>2, <2>3, <2>4
  <1>2. Rotated(s, c) = back \o front
    BY DEF Rotated
  <1> HIDE DEF back, front
  <1>3. /\ back \o front \in Seq(A) /\ Len(back \o front) = Len(s)
        /\ \A i \in 1 .. Len(s) - c : (back \o front)[i] = back[i]
        /\ \A i \in 1 .. c : (back \o front)[i + (Len(s) - c)] = front[i]
    <2> DEFINE n == Len(s) - c
    <2>1. /\ n \in Nat /\ c \in Nat /\ n + c = Len(s)
          /\ back \in Seq(A) /\ Len(back) = n /\ front \in Seq(A) /\ Len(front) = c
      BY <1>1
    <2> HIDE DEF n
    <2>2. /\ back \o front \in Seq(A) /\ Len(back \o front) = n + c
          /\ \A i \in 1 .. n + c :
               (back \o front)[i] = IF i <= n THEN back[i] ELSE front[i - n]
      BY <2>1, ConcatProperties
    <2>3. \A i \in 1 .. c : i + n \in 1 .. n + c /\ ~(i + n <= n) /\ (i + n) - n = i
      BY <2>1
    <2>4. \A i \in 1 .. n : i \in 1 .. n + c /\ i <= n
      BY <2>1
    <2>5. \A i \in 1 .. c : (back \o front)[i + n] = front[i]
      BY <2>2, <2>3
    <2>6. \A i \in 1 .. n : (back \o front)[i] = back[i]
      BY <2>2, <2>4
    <2> QED
      BY <2>1, <2>2, <2>5, <2>6 DEF n
  <1>4. ASSUME NEW i \in 1 .. Len(s)
        PROVE  \E j \in 1 .. Len(s) : (back \o front)[j] = s[i]
    <2>1. CASE i <= c
      <3>1. i + (Len(s) - c) \in 1 .. Len(s) /\ i \in 1 .. c
        BY <1>1, <2>1
      <3> QED
        BY <1>1, <1>3, <3>1
    <2>2. CASE i > c
      <3>1. i - c \in 1 .. Len(s) /\ i - c \in 1 .. Len(s) - c /\ (i - c) + c = i
        BY <1>1, <2>2
      <3> QED
        BY <1>1, <1>3, <3>1
    <2> QED
      BY <1>1, <2>1, <2>2
  <1>5. /\ \A i \in 1 .. Len(s) - c : (back \o front)[i] = s[i + c]
        /\ \A i \in 1 .. c : (back \o front)[i + (Len(s) - c)] = s[i]
    BY <1>1, <1>3
  <1> DEFINE both == back \o front
  <1>6. /\ both \in Seq(A) /\ Len(both) = Len(s)
        /\ \A i \in 1 .. Len(s) - c : both[i] = s[i + c]
        /\ \A i \in 1 .. c : both[i + (Len(s) - c)] = s[i]
        /\ \A i \in 1 .. Len(s) : \E j \in 1 .. Len(s) : both[j] = s[i]
    BY <1>3, <1>4, <1>5
  <1> HIDE DEF both
  <1>7. Rotated(s, c) = both
    BY <1>2 DEF both
  <1> QED
    BY <1>6, <1>7

LEMMA ToFrontMembers ==
  ASSUME NEW A, NEW s \in Seq(A), NEW r \in A
  PROVE  /\ ToFront(r, s) \in Seq(A)
         /\ Len(ToFront(r, s)) >= 1 /\ ToFront(r, s)[1] = r
  <1> DEFINE k == Without(r, s)
  <1>1. k \in Seq(A)
    <2>1. k \in Seq(A \cap (Route \ {r}))
      BY KeptIsLeft DEF LeftOf, Without
    <2> HIDE DEF k
    <2> QED
      BY <2>1, SeqDef
  <1>2. ToFront(r, s) = <<r>> \o k
    BY DEF ToFront
  <1> HIDE DEF k
  <1> QED
    BY <1>1, <1>2

\* What is left of a list without one exit.
LEMMA WithoutMembers ==
  ASSUME NEW A, NEW s \in Seq(A), A \subseteq Route, NEW l
  PROVE  /\ Without(l, s) \in Seq(A \ {l})
         /\ \A i \in 1 .. Len(s) : s[i] # l => Len(Without(l, s)) >= 1
         /\ Len(s) >= 1 /\ s[1] # l => Without(l, s)[1] = s[1]
  <1> DEFINE S == Route \ {l}
             k == Without(l, s)
  <1>1. LeftOf(s, S, A, Len(s), k) /\ Len(s) \in Nat
    BY KeptIsLeft DEF Without
  <1>2. A \cap S = A \ {l} /\ \A i \in 1 .. Len(s) : s[i] \in S <=> s[i] # l
    OBVIOUS
  <1> HIDE DEF S, k
  <1>3. k \in Seq(A \ {l}) /\ Len(k) \in Nat
    BY <1>1, <1>2 DEF LeftOf
  <1>4. \A i \in 1 .. Len(s) : s[i] # l => Len(k) >= 1
    BY <1>1, <1>2, <1>3 DEF LeftOf
  <1>5. Len(s) >= 1 /\ s[1] # l => k[1] = s[1]
    BY <1>1, <1>2 DEF LeftOf
  <1> QED
    BY <1>3, <1>4, <1>5 DEF k

\* The second exit of the list takes the place of the first.
LEMMA WithoutFirst ==
  ASSUME NEW A, NEW s \in Seq(A), A \subseteq Route, NEW l,
         Len(s) >= 2, s[1] = l, s[2] # l
  PROVE  Without(l, s)[1] = s[2]
  <1> DEFINE S == Route \ {l}
             k == Without(l, s)
  <1>1. LeftOf(s, S, A, Len(s), k) /\ Len(s) \in Nat
    BY KeptIsLeft DEF Without
  <1>2. s[1] \notin S /\ s[2] \in S
    OBVIOUS
  <1> HIDE DEF S, k
  <1>3. k[1] = s[2]
    BY <1>1, <1>2 DEF LeftOf
  <1> QED
    BY <1>3 DEF k

----------------------------------------------------------------------------
(* The exit of an attempt.                                                 *)

LEMMA AnsweringMembers ==
  ASSUME NEW g \in SUBSET Dynamic
  PROVE  /\ Answering(g) \in Seq(g)
         /\ Len(Answering(g)) <= Len(Generators)
         /\ g = Dynamic => Len(Answering(g)) = Len(Generators)
         /\ g # {} => Answering(g) # <<>>
  <1>1. /\ Generators \in Seq(Dynamic) /\ Len(Generators) \in Nat
        /\ Dynamic \cap g = g
        /\ \A i \in 1 .. Len(Generators) : Generators[i] \in Dynamic
    BY RotationAssumption
  <1> DEFINE k == Answering(g)
  <1>2. LeftOf(Generators, g, Dynamic, Len(Generators), k)
    BY <1>1, KeptIsLeft DEF Answering
  <1>3. ASSUME g # {} PROVE k # <<>>
    <2>1. PICK i \in 1 .. Len(Generators) : Generators[i] \in g
      <3>1. PICK r \in Dynamic : r \in g
        BY <1>3
      <3>2. PICK i \in DOMAIN Generators : Generators[i] = r
        BY <3>1 DEF Dynamic, Members
      <3>3. i \in 1 .. Len(Generators)
        BY <1>1, <3>2
      <3> QED
        BY <3>1, <3>2, <3>3
    <2>2. PICK j \in 1 .. Len(k) : k[j] = Generators[i]
      <3> HIDE DEF k
      <3> QED
        BY <1>2, <2>1 DEF LeftOf
    <2>3. Len(k) # 0
      <3>1. Len(k) \in Nat
        <4> HIDE DEF k
        <4> QED
          BY <1>2 DEF LeftOf
      <3> HIDE DEF k
      <3> QED
        BY <2>2, <3>1
    <2> HIDE DEF k
    <2> QED
      BY <2>3
  <1> HIDE DEF k
  <1>4. k \in Seq(g) /\ Len(k) <= Len(Generators)
    BY <1>1, <1>2 DEF LeftOf
  <1>5. g = Dynamic => Len(k) = Len(Generators)
    BY <1>1, <1>2 DEF LeftOf
  <1> QED
    BY <1>3, <1>4, <1>5 DEF k

LEMMA RoutesForMembers ==
  ASSUME NEW g \in SUBSET Dynamic
  PROVE  /\ RoutesFor(g) \in Seq(Route)
         /\ Len(RoutesFor(g)) = Len(Answering(g)) + Len(Interleaved(Clash, IP))
         /\ \A i \in 1 .. Len(Answering(g)) : RoutesFor(g)[i] = Answering(g)[i]
         /\ \A i \in 1 .. Len(Interleaved(Clash, IP)) :
              RoutesFor(g)[i + Len(Answering(g))] = Interleaved(Clash, IP)[i]
         /\ Answering(g) \in Seq(Members(RoutesFor(g)))
         /\ Interleaved(Clash, IP) \in Seq(Static)
         /\ Len(Interleaved(Clash, IP)) = Len(Clash) + Len(IP)
         /\ Len(RoutesFor(g)) <= Len(RoutesFor(Dynamic))
  <1> DEFINE inter == Interleaved(Clash, IP)
  <1>1. /\ inter \in Seq(Static) /\ Len(inter) = Len(Clash) + Len(IP)
    BY RotationAssumption, InterleavedMembers
  <1> HIDE DEF inter
  <1>2. ASSUME NEW h \in SUBSET Dynamic
        PROVE  LET a == Answering(h) IN
               /\ a \in Seq(Route)
               /\ a \o inter \in Seq(Route)
               /\ Len(a \o inter) = Len(a) + Len(inter)
               /\ \A i \in 1 .. Len(a) : (a \o inter)[i] = a[i]
               /\ \A i \in 1 .. Len(inter) : (a \o inter)[i + Len(a)] = inter[i]
    <2> DEFINE a == Answering(h)
    <2>1. a \in Seq(h)
      BY AnsweringMembers
    <2> HIDE DEF a
    <2>2. a \in Seq(Route) /\ inter \in Seq(Route)
      <3>1. h \subseteq Route /\ Static \subseteq Route
        BY DEF Route
      <3> QED
        BY <1>1, <2>1, <3>1
    <2>3. /\ a \o inter \in Seq(Route)
          /\ Len(a \o inter) = Len(a) + Len(inter)
          /\ \A i \in 1 .. Len(a) + Len(inter) :
               (a \o inter)[i] = IF i <= Len(a) THEN a[i] ELSE inter[i - Len(a)]
      BY <2>2, ConcatProperties
    <2>4. /\ \A i \in 1 .. Len(a) : (a \o inter)[i] = a[i]
      BY <2>2, <2>3
    <2>5. \A i \in 1 .. Len(inter) :
             /\ i + Len(a) \in 1 .. Len(a) + Len(inter)
             /\ ~(i + Len(a) <= Len(a)) /\ (i + Len(a)) - Len(a) = i
      BY <2>2
    <2>6. \A i \in 1 .. Len(inter) : (a \o inter)[i + Len(a)] = inter[i]
      BY <2>3, <2>5
    <2> QED
      BY <2>2, <2>3, <2>4, <2>6 DEF a
  <1>3. \A h : RoutesFor(h) = Answering(h) \o inter
    BY DEF RoutesFor, inter
  <1>4. Len(RoutesFor(g)) <= Len(RoutesFor(Dynamic))
    <2>1. /\ Len(Answering(g)) <= Len(Answering(Dynamic))
          /\ Len(Answering(g)) \in Nat /\ Len(Answering(Dynamic)) \in Nat /\ Len(inter) \in Nat
      BY AnsweringMembers, RotationAssumption, <1>1
    <2>2. /\ Len(RoutesFor(g)) = Len(Answering(g)) + Len(inter)
          /\ Len(RoutesFor(Dynamic)) = Len(Answering(Dynamic)) + Len(inter)
      BY <1>2, <1>3
    <2> QED
      BY <2>1, <2>2
  <1>5. Answering(g) \in Seq(Members(RoutesFor(g)))
    <2> DEFINE a == Answering(g)
               routes == RoutesFor(g)
    <2>1. /\ a \in Seq(Route) /\ routes \in Seq(Route)
          /\ Len(routes) = Len(a) + Len(inter) /\ Len(inter) \in Nat
          /\ \A i \in 1 .. Len(a) : routes[i] = a[i]
      <3>1. routes = a \o inter
        BY <1>3
      <3>2. /\ a \in Seq(Route) /\ a \o inter \in Seq(Route)
            /\ Len(a \o inter) = Len(a) + Len(inter)
            /\ \A i \in 1 .. Len(a) : (a \o inter)[i] = a[i]
        BY <1>2
      <3>3. Len(inter) \in Nat
        BY <1>1
      <3> HIDE DEF a, routes
      <3> QED
        BY <3>1, <3>2, <3>3
    <2> HIDE DEF a, routes
    <2>2. \A i \in 1 .. Len(a) : a[i] \in Members(routes)
      BY <2>1 DEF Members
    <2>3. a \in [1 .. Len(a) -> Members(routes)] /\ Len(a) \in Nat
      BY <2>1, <2>2
    <2>4. a \in Seq(Members(routes))
      BY <2>3, SeqDef
    <2> QED
      BY <2>4 DEF a, routes
  <1> QED
    BY <1>1, <1>2, <1>3, <1>4, <1>5 DEF inter

\* Whatever the state of the account, the exit is one of this cycle's.
LEMMA OrderedMembers ==
  ASSUME NEW routes \in Seq(Route), routes # <<>>, NEW c \in Nat, NEW l, NEW p, NEW g,
         Answering(g) \in Seq(Members(routes))
  PROVE  Ordered(routes, c, l, p, g) \in Seq(Members(routes))
  <1> DEFINE A == Members(routes)
             turned == Rotated(routes, c % Len(routes))
             favoured == p \in A
             first == Answering(g)[1]
             pulled == ~favoured /\ Answering(g) # <<>> /\ first # l
             fronted == IF favoured THEN ToFront(p, turned)
                        ELSE IF pulled THEN ToFront(first, turned) ELSE turned
  <1>1. routes \in Seq(A) /\ A \subseteq Route /\ Len(routes) \in Nat \ {0}
    BY MembersIn
  <1>2. c % Len(routes) \in 0 .. Len(routes)
    BY <1>1
  <1>3. Answering(g) # <<>> => first \in A
    OBVIOUS
  <1>4. Ordered(routes, c, l, p, g) = IF Len(routes) > 1 THEN Without(l, fronted) ELSE fronted
    BY DEF Ordered
  <1> HIDE DEF A, first
  <1>5. turned \in Seq(A)
    BY <1>1, <1>2, RotatedMembers
  <1> HIDE DEF turned
  <1>6. fronted \in Seq(A)
    BY <1>3, <1>5, ToFrontMembers
  <1> HIDE DEF fronted
  <1>7. Without(l, fronted) \in Seq(A)
    <2>1. Without(l, fronted) \in Seq(A \ {l})
      BY <1>1, <1>6, WithoutMembers
    <2> QED
      BY <2>1
  <1> QED
    BY <1>4, <1>6, <1>7 DEF A

\* The choice is the first of them.
LEMMA ChoiceIsFirst ==
  ASSUME NEW routes, routes # <<>>, NEW c, NEW l, NEW p, NEW g, NEW A,
         Ordered(routes, c, l, p, g) \in Seq(A)
  PROVE  LET s == Ordered(routes, c, l, p, g)
             choice == OrderRoutes(routes, c, l, p, g) IN
         /\ choice # <<>> => Len(s) >= 1
         /\ Len(s) >= 1 => choice # <<>> /\ choice[1] = s[1] /\ s[1] \in A
  <1> DEFINE s == Ordered(routes, c, l, p, g)
  <1>1. OrderRoutes(routes, c, l, p, g) = SubSeq(s, 1, 1)
    BY DEF OrderRoutes
  <1> HIDE DEF s
  <1>2. s \in Seq(A)
    BY DEF s
  <1> QED
    BY <1>1, <1>2 DEF s

LEMMA CursorType ==
  ASSUME NEW routes \in Seq(Route), NEW r \in Members(routes)
  PROVE  CursorAfter(routes, r) \in 0 .. Len(routes)
  <1> DEFINE i == CHOOSE i \in DOMAIN routes : routes[i] = r
  <1>1. i \in DOMAIN routes
    BY DEF Members
  <1>2. CursorAfter(routes, r) = i % Len(routes)
    BY DEF CursorAfter
  <1> HIDE DEF i
  <1>3. Len(routes) \in Nat /\ i \in Nat /\ i >= 1 /\ i <= Len(routes)
    BY <1>1
  <1>4. i % Len(routes) \in 0 .. Len(routes)
    BY <1>3
  <1> QED
    BY <1>2, <1>4

LEMMA AttemptTypes ==
  ASSUME TypeOK, NEW g \in SUBSET Dynamic, NEW o, Attempt(g, o)
  PROVE  TypeOK'
  <1> DEFINE routes == RoutesFor(g)
             choice == OrderRoutes(routes, cursor, last, preferred, g)
             r == choice[1]
  <1>1. /\ choice # <<>>
        /\ up' = g /\ turn' = 1 - turn
        /\ cursor' = CursorAfter(routes, r)
        /\ last' = r
        /\ preferred' = IF o = "queued" THEN r ELSE IF preferred = r THEN NoRoute ELSE preferred
    BY DEF Attempt
  <1>2. /\ routes \in Seq(Route)
        /\ Answering(g) \in Seq(Members(routes))
        /\ Len(routes) <= Len(RoutesFor(Dynamic)) /\ Len(RoutesFor(Dynamic)) \in Nat
    BY RoutesForMembers
  <1>3. routes # <<>>
    BY <1>1 DEF OrderRoutes
  <1>4. cursor \in Nat
    BY <1>2 DEF TypeOK
  <1> DEFINE s == Ordered(routes, cursor, last, preferred, g)
  <1>5. s \in Seq(Members(routes))
    <2> HIDE DEF routes
    <2> QED
      BY <1>2, <1>3, <1>4, OrderedMembers
  <1>6. r \in Members(routes)
    <2> HIDE DEF routes
    <2> QED
      BY <1>1, <1>3, <1>5, ChoiceIsFirst
  <1> HIDE DEF r, choice, s, routes
  <1>7. r \in Route
    BY <1>2, <1>6, MembersIn
  <1>8. CursorAfter(routes, r) \in 0 .. Len(RoutesFor(Dynamic))
    <2>1. CursorAfter(routes, r) \in 0 .. Len(routes) /\ Len(routes) \in Nat
      BY <1>2, <1>6, CursorType
    <2> QED
      BY <1>2, <2>1
  <1> QED
    BY <1>1, <1>7, <1>8 DEF TypeOK

\* One generator answers, and there is a static exit.
LEMMA AttemptAlternates ==
  ASSUME TypeOK, Static # {}, NEW x \in Dynamic, NEW o, Attempt({x}, o),
         preferred \notin Members(RoutesFor({x}))
  PROVE  last' = x <=> last # x
  <1> DEFINE g == {x}
             routes == RoutesFor(g)
             inter == Interleaved(Clash, IP)
             a == Answering(g)
             turned == Rotated(routes, cursor % Len(routes))
             first == a[1]
             s == Ordered(routes, cursor, last, preferred, g)
             choice == OrderRoutes(routes, cursor, last, preferred, g)
  <1>1. a \in Seq(g) /\ a # <<>> /\ Len(a) \in Nat \ {0}
    <2>1. a \in Seq(g) /\ a # <<>>
      BY AnsweringMembers
    <2> HIDE DEF a, g
    <2> QED
      BY <2>1
  <1>2. /\ routes \in Seq(Route) /\ Len(routes) = Len(a) + Len(inter)
        /\ routes[1] = first
        /\ \A i \in 1 .. Len(inter) : routes[i + Len(a)] = inter[i]
        /\ a \in Seq(Members(routes))
        /\ inter \in Seq(Static)
    <2>1. /\ routes \in Seq(Route) /\ Len(routes) = Len(a) + Len(inter)
          /\ \A i \in 1 .. Len(a) : routes[i] = a[i]
          /\ \A i \in 1 .. Len(inter) : routes[i + Len(a)] = inter[i]
          /\ a \in Seq(Members(routes)) /\ inter \in Seq(Static)
      BY RoutesForMembers
    <2> HIDE DEF routes, inter, a
    <2> QED
      BY <1>1, <2>1
  <1>3. Len(inter) \in Nat /\ Len(inter) >= 1
    <2>1. Len(inter) = Len(Clash) + Len(IP)
      BY RoutesForMembers
    <2>2. DOMAIN Clash # {} \/ DOMAIN IP # {}
      BY DEF Static, Members
    <2>3. Len(Clash) \in Nat /\ DOMAIN Clash = 1 .. Len(Clash)
          /\ Len(IP) \in Nat /\ DOMAIN IP = 1 .. Len(IP)
      BY RotationAssumption
    <2> HIDE DEF inter
    <2> QED
      BY <2>1, <2>2, <2>3
  <1>4. first = x
    <2> HIDE DEF a
    <2> QED
      BY <1>1
  <1>5. last' = choice[1] /\ choice # <<>>
    BY DEF Attempt
  <1>6. cursor \in Nat
    <2>1. Len(RoutesFor(Dynamic)) \in Nat
      BY RoutesForMembers
    <2> QED
      BY <2>1 DEF TypeOK
  <1>7. s \in Seq(Members(routes)) /\ routes # <<>>
    <2> HIDE DEF routes, inter
    <2> QED
      BY <1>2, <1>3, <1>6, OrderedMembers
  <1>8. last' = s[1]
    <2> HIDE DEF routes
    <2> QED
      BY <1>5, <1>7, ChoiceIsFirst
  <1>9. /\ turned \in Seq(Members(routes)) /\ Members(routes) \subseteq Route
        /\ \A i \in 1 .. Len(routes) : \E j \in 1 .. Len(turned) : turned[j] = routes[i]
    <2> HIDE DEF routes, inter
    <2>1. routes \in Seq(Members(routes)) /\ Members(routes) \subseteq Route
      BY <1>2, MembersIn
    <2>2. cursor % Len(routes) \in 0 .. Len(routes)
      BY <1>2, <1>3, <1>6
    <2> QED
      BY <2>1, <2>2, RotatedMembers
  <1>10. s = IF first # last THEN Without(last, ToFront(first, turned)) ELSE Without(last, turned)
    <2>1. Len(routes) > 1
      BY <1>1, <1>2, <1>3
    <2>2. preferred \notin Members(routes)
      OBVIOUS
    <2>3. \A m : Ordered(m, cursor, last, preferred, g) =
                  LET t == Rotated(m, cursor % Len(m))
                      f == IF preferred \in Members(m) THEN ToFront(preferred, t)
                           ELSE IF a # <<>> /\ first # last THEN ToFront(first, t) ELSE t
                  IN  IF Len(m) > 1 THEN Without(last, f) ELSE f
      BY DEF Ordered
    <2> HIDE DEF routes, a, first, g
    <2> QED
      BY <1>1, <2>1, <2>2, <2>3
  <1>11. first \in Members(routes)
    BY <1>1, <1>2
  <1>12. CASE first # last
    <2> HIDE DEF s, turned, routes, inter, a, first
    <2> DEFINE f == ToFront(first, turned)
    <2>1. f \in Seq(Members(routes)) /\ Len(f) >= 1 /\ f[1] = first
      BY <1>9, <1>11, ToFrontMembers
    <2> HIDE DEF f
    <2>2. Without(last, f)[1] = first
      BY <1>9, <1>12, <2>1, WithoutMembers
    <2>3. last' = first
      BY <1>8, <1>10, <1>12, <2>2 DEF f
    <2> QED
      BY <1>4, <1>12, <2>3
  <1>13. CASE first = last
    <2> HIDE DEF s, turned, routes, inter, a, first
    <2>1. PICK j \in 1 .. Len(turned) : turned[j] = inter[1]
      <3>1. 1 + Len(a) \in 1 .. Len(routes) /\ routes[1 + Len(a)] = inter[1]
        BY <1>1, <1>2, <1>3
      <3> QED
        BY <1>9, <3>1
    <2>2. inter[1] \in Static /\ inter[1] # last
      <3>1. inter[1] \in Static
        BY <1>2, <1>3
      <3> QED
        BY <1>4, <1>13, <3>1, RotationAssumption
    <2> DEFINE w == Without(last, turned)
    <2>3. w \in Seq(Members(routes) \ {last}) /\ Len(w) >= 1
      BY <1>9, <2>1, <2>2, WithoutMembers
    <2> HIDE DEF w
    <2>4. w[1] # last
      BY <2>3
    <2>5. last' # last
      BY <1>8, <1>10, <1>13, <2>4 DEF w
    <2> QED
      BY <1>4, <1>13, <2>5
  <1> QED
    BY <1>12, <1>13

----------------------------------------------------------------------------
(* Reading an answer, event after event.                                   *)

\* after holds what the collector (the plugin) has made of the first n events.
Collects(a, max, after) ==
  after = [n \in 0 .. max |->
             IF n = 0 THEN Headed(a) ELSE CollectorReads(after[n - 1], a.events[n])]

Receives(a, max, after) ==
  after = [n \in 0 .. max |->
             IF n = 0 THEN Unread ELSE PluginReads(after[n - 1], a.events[n])]

LEMMA CollectsExist ==
  ASSUME NEW a, NEW max \in Nat
  PROVE  \E after : Collects(a, max, after)
  <1> DEFINE N == {n \in Nat : \E after : Collects(a, n, after)}
  <1>1. 0 \in N
    <2>1. Collects(a, 0, [n \in 0 .. 0 |-> Headed(a)])
      BY DEF Collects
    <2> QED
      BY <2>1
  <1>2. ASSUME NEW n \in Nat, n \in N PROVE n + 1 \in N
    <2>1. PICK f : Collects(a, n, f)
      BY <1>2
    <2> DEFINE g == [i \in 0 .. n + 1 |->
                       IF i <= n THEN f[i] ELSE CollectorReads(f[n], a.events[n + 1])]
    <2>2. ASSUME NEW i \in 0 .. n + 1
          PROVE  g[i] = IF i = 0 THEN Headed(a) ELSE CollectorReads(g[i - 1], a.events[i])
      <3>1. CASE i <= n
        <4>1. i \in 0 .. n /\ (i = 0 \/ i - 1 \in 0 .. n)
          BY <3>1
        <4>2. f[i] = IF i = 0 THEN Headed(a) ELSE CollectorReads(f[i - 1], a.events[i])
          BY <2>1, <4>1 DEF Collects
        <4> QED
          BY <3>1, <4>1, <4>2
      <3>2. CASE i = n + 1
        BY <3>2
      <3> QED
        BY <3>1, <3>2
    <2>3. g = [i \in 0 .. n + 1 |-> g[i]]
      OBVIOUS
    <2> HIDE DEF g
    <2>4. Collects(a, n + 1, g)
      BY <2>2, <2>3 DEF Collects
    <2> QED
      BY <2>4
  <1> HIDE DEF N
  <1>3. max \in N
    BY <1>1, <1>2, Induction
  <1> QED
    BY <1>3 DEF N

LEMMA ReceivesExist ==
  ASSUME NEW a, NEW max \in Nat
  PROVE  \E after : Receives(a, max, after)
  <1> DEFINE N == {n \in Nat : \E after : Receives(a, n, after)}
  <1>1. 0 \in N
    <2>1. Receives(a, 0, [n \in 0 .. 0 |-> Unread])
      BY DEF Receives
    <2> QED
      BY <2>1
  <1>2. ASSUME NEW n \in Nat, n \in N PROVE n + 1 \in N
    <2>1. PICK f : Receives(a, n, f)
      BY <1>2
    <2> DEFINE g == [i \in 0 .. n + 1 |->
                       IF i <= n THEN f[i] ELSE PluginReads(f[n], a.events[n + 1])]
    <2>2. ASSUME NEW i \in 0 .. n + 1
          PROVE  g[i] = IF i = 0 THEN Unread ELSE PluginReads(g[i - 1], a.events[i])
      <3>1. CASE i <= n
        <4>1. i \in 0 .. n /\ (i = 0 \/ i - 1 \in 0 .. n)
          BY <3>1
        <4>2. f[i] = IF i = 0 THEN Unread ELSE PluginReads(f[i - 1], a.events[i])
          BY <2>1, <4>1 DEF Receives
        <4> QED
          BY <3>1, <4>1, <4>2
      <3>2. CASE i = n + 1
        BY <3>2
      <3> QED
        BY <3>1, <3>2
    <2>3. g = [i \in 0 .. n + 1 |-> g[i]]
      OBVIOUS
    <2> HIDE DEF g
    <2>4. Receives(a, n + 1, g)
      BY <2>2, <2>3 DEF Receives
    <2> QED
      BY <2>4
  <1> HIDE DEF N
  <1>3. max \in N
    BY <1>1, <1>2, Induction
  <1> QED
    BY <1>3 DEF N

Received ==
  [completed : BOOLEAN, failed : BOOLEAN, limited : BOOLEAN, match : BOOLEAN,
   terminal : BOOLEAN]

LEMMA HeadedType ==
  ASSUME NEW a \in Answer
  PROVE  Headed(a) \in Reading
  <1>1. PauseOf(a) \in Nat
    <2> DEFINE S == {MinWait, a.resets, a.retry}
    <2>1. MinWait \in Nat /\ DefaultWait \in Nat /\ a.resets \in Nat /\ a.retry \in Nat
      BY AnswersAssumption DEF Answer
    <2>2. \E x \in S : \A y \in S : x >= y
      BY <2>1
    <2>3. Max(S) \in S
      <3> HIDE DEF S
      <3> QED
        BY <2>2 DEF Max
    <2>4. Max(S) \in Nat
      BY <2>1, <2>3
    <2> QED
      BY <2>1, <2>4 DEF PauseOf
  <1>2. CASE a.status = 401
    <2>1. Headed(a) = [Nothing EXCEPT !.stop = TRUE, !.auth = TRUE, !.wait = PauseOf(a)]
      <3>1. a.status \in {401, 429} /\ (a.status = 401) = TRUE
        BY <1>2
      <3> QED
        BY <3>1, Zenon DEF Headed
    <2> QED
      BY <1>1, <2>1 DEF Nothing, Reading
  <1>3. CASE a.status = 429
    <2>1. Headed(a) = [Nothing EXCEPT !.stop = TRUE, !.auth = FALSE, !.wait = PauseOf(a)]
      <3>1. a.status \in {401, 429} /\ (a.status = 401) = FALSE
        BY <1>3
      <3> QED
        BY <3>1, Zenon DEF Headed
    <2> QED
      BY <1>1, <2>1 DEF Nothing, Reading
  <1>4. CASE a.status \notin {401, 429}
    BY <1>4 DEF Headed, Nothing, Reading
  <1> QED
    BY <1>2, <1>3, <1>4

LEMMA RefusalType ==
  ASSUME NEW t \in BOOLEAN, NEW l \in BOOLEAN
  PROVE  Refusal(t, l) \in Harvest
  BY DEF Refusal, Harvest

LEMMA CollectorReadsType ==
  ASSUME NEW out \in Reading, NEW e \in Event
  PROVE  CollectorReads(out, e) \in Reading
  <1>1. DefaultWait \in Nat
    BY AnswersAssumption
  <1>2. CASE out.raised
    BY <1>2 DEF CollectorReads
  <1>3. CASE ~out.raised /\ e \in Completed
    BY <1>3 DEF CollectorReads, Reading, Completed
  <1>4. CASE ~out.raised /\ e \in Failure
    BY <1>1, <1>4 DEF CollectorReads, CodeSeen, Reading, Failure
  <1>5. CASE ~out.raised /\ e \in Odd
    BY <1>5 DEF CollectorReads, Reading, Odd
  <1> QED
    BY <1>2, <1>3, <1>4, <1>5 DEF Event

LEMMA PluginReadsType ==
  ASSUME NEW out \in Received, NEW e \in Event
  PROVE  PluginReads(out, e) \in Received
  <1>1. CASE e \in Completed
    BY <1>1 DEF PluginReads, Received, Completed
  <1>2. CASE e \in Failure
    BY <1>2 DEF PluginReads, Received, Failure
  <1>3. CASE e \in Odd
    BY <1>3 DEF PluginReads, Received, Odd
  <1> QED
    BY <1>1, <1>2, <1>3 DEF Event

LEMMA CollectsTyped ==
  ASSUME NEW a \in Answer, NEW after, Collects(a, Len(a.events), after)
  PROVE  \A n \in 0 .. Len(a.events) : after[n] \in Reading
  <1> DEFINE N == {n \in Nat : n <= Len(a.events) => after[n] \in Reading}
  <1>1. /\ Len(a.events) \in Nat
        /\ \A n \in 1 .. Len(a.events) : a.events[n] \in Event
    BY DEF Answer
  <1>2. 0 \in N
    BY <1>1, HeadedType DEF Collects
  <1>3. ASSUME NEW n \in Nat, n \in N PROVE n + 1 \in N
    <2>1. ASSUME n + 1 <= Len(a.events) PROVE after[n + 1] \in Reading
      <3>1. n + 1 \in 1 .. Len(a.events) /\ after[n] \in Reading
        BY <1>1, <1>3, <2>1
      <3>2. after[n + 1] = CollectorReads(after[n], a.events[n + 1])
        <4>1. n + 1 \in 0 .. Len(a.events) /\ n + 1 # 0 /\ (n + 1) - 1 = n
          BY <1>1, <2>1
        <4> QED
          BY <4>1 DEF Collects
      <3> QED
        BY <1>1, <3>1, <3>2, CollectorReadsType
    <2> QED
      BY <2>1
  <1> HIDE DEF N
  <1>4. \A n \in Nat : n \in N
    BY <1>2, <1>3, Induction
  <1> QED
    BY <1>1, <1>4 DEF N

LEMMA ReceivesTyped ==
  ASSUME NEW a \in Answer, NEW after, Receives(a, Len(a.events), after)
  PROVE  \A n \in 0 .. Len(a.events) : after[n] \in Received
  <1> DEFINE N == {n \in Nat : n <= Len(a.events) => after[n] \in Received}
  <1>1. /\ Len(a.events) \in Nat
        /\ \A n \in 1 .. Len(a.events) : a.events[n] \in Event
    BY DEF Answer
  <1>2. 0 \in N
    <2>1. Unread \in Received
      BY DEF Unread, Received
    <2> QED
      BY <1>1, <2>1 DEF Receives
  <1>3. ASSUME NEW n \in Nat, n \in N PROVE n + 1 \in N
    <2>1. ASSUME n + 1 <= Len(a.events) PROVE after[n + 1] \in Received
      <3>1. n + 1 \in 1 .. Len(a.events) /\ after[n] \in Received
        BY <1>1, <1>3, <2>1
      <3>2. after[n + 1] = PluginReads(after[n], a.events[n + 1])
        <4>1. n + 1 \in 0 .. Len(a.events) /\ n + 1 # 0 /\ (n + 1) - 1 = n
          BY <1>1, <2>1
        <4> QED
          BY <4>1 DEF Receives
      <3> QED
        BY <1>1, <3>1, <3>2, PluginReadsType
    <2> QED
      BY <2>1
  <1> HIDE DEF N
  <1>4. \A n \in Nat : n \in N
    BY <1>2, <1>3, Induction
  <1> QED
    BY <1>1, <1>4 DEF N

\* request() and harvest() by what they have made of all the events.
LEMMA RequestCollects ==
  ASSUME NEW a, Len(a.events) \in Nat
  PROVE  \E after :
           /\ Collects(a, Len(a.events), after)
           /\ LET out == after[Len(a.events)] IN
              Request(a) = IF out.raised THEN [Nothing EXCEPT !.raised = TRUE]
                           ELSE [out EXCEPT !.complete = @ /\ ~out.failed /\ a.whole]
  <1>1. \E after : Collects(a, Len(a.events), after)
    BY CollectsExist
  <1> QED
    BY <1>1, Zenon DEF Collects, Request

LEMMA HarvestedRefused ==
  ASSUME NEW a, a.status # 200
  PROVE  /\ Harvested(a) \in Harvest
         /\ ~Harvested(a).ok
         /\ Harvested(a).terminal <=> a.status = 401
         /\ Harvested(a).limited <=> a.status = 429
  <1> DEFINE denied == a.status = 401
             exceeded == a.status = 429
  <1>1. Harvested(a) = [ok |-> FALSE, terminal |-> denied, limited |-> exceeded]
    BY Zenon DEF Harvested, Refusal
  <1>2. denied \in BOOLEAN /\ exceeded \in BOOLEAN
    OBVIOUS
  <1> HIDE DEF denied, exceeded
  <1>3. /\ Harvested(a) \in Harvest
        /\ ~Harvested(a).ok
        /\ Harvested(a).terminal = denied
        /\ Harvested(a).limited = exceeded
    BY <1>1, <1>2 DEF Harvest
  <1> QED
    BY <1>3, Zenon DEF denied, exceeded

LEMMA HarvestedReceives ==
  ASSUME NEW a, Len(a.events) \in Nat, a.status = 200
  PROVE  \E after :
           /\ Receives(a, Len(a.events), after)
           /\ LET out == after[Len(a.events)] IN
              Harvested(a) =
                IF a.large THEN Refusal(FALSE, FALSE)
                ELSE IF /\ a.whole /\ out.completed /\ ~out.failed /\ out.match
                        /\ a.ticket # "none"
                     THEN [ok |-> TRUE, terminal |-> FALSE, limited |-> FALSE]
                     ELSE Refusal(out.terminal, out.limited)
  <1>1. \E after : Receives(a, Len(a.events), after)
    BY ReceivesExist
  <1> QED
    BY <1>1, Zenon DEF Receives, Harvested

LEMMA RequestType ==
  ASSUME NEW a \in Answer
  PROVE  Request(a) \in Reading
  <1>1. Len(a.events) \in Nat /\ Len(a.events) \in 0 .. Len(a.events)
    BY DEF Answer
  <1>2. PICK after :
           /\ Collects(a, Len(a.events), after)
           /\ Request(a) =
                IF after[Len(a.events)].raised THEN [Nothing EXCEPT !.raised = TRUE]
                ELSE [after[Len(a.events)] EXCEPT
                        !.complete = @ /\ ~after[Len(a.events)].failed /\ a.whole]
    BY <1>1, RequestCollects
  <1> DEFINE out == after[Len(a.events)]
             all == out.complete /\ ~out.failed /\ a.whole
  <1>3. out \in Reading
    BY <1>1, <1>2, CollectsTyped
  <1> HIDE DEF out
  <1>4. Request(a) = IF out.raised THEN [Nothing EXCEPT !.raised = TRUE]
                     ELSE [out EXCEPT !.complete = all]
    BY <1>2 DEF out
  <1>5. all \in BOOLEAN
    OBVIOUS
  <1> HIDE DEF all
  <1>6. [Nothing EXCEPT !.raised = TRUE] \in Reading
    BY DEF Nothing, Reading
  <1>7. [out EXCEPT !.complete = all] \in Reading
    BY <1>3, <1>5 DEF Reading
  <1> QED
    BY <1>4, <1>6, <1>7

LEMMA HarvestedType ==
  ASSUME NEW a \in Answer
  PROVE  Harvested(a) \in Harvest
  <1>1. CASE a.status # 200
    BY <1>1, HarvestedRefused
  <1>2. CASE a.status = 200
    <2>1. Len(a.events) \in Nat /\ Len(a.events) \in 0 .. Len(a.events)
      BY DEF Answer
    <2>2. PICK after :
             /\ Receives(a, Len(a.events), after)
             /\ LET out == after[Len(a.events)] IN
                Harvested(a) =
                  IF a.large THEN Refusal(FALSE, FALSE)
                  ELSE IF /\ a.whole /\ out.completed /\ ~out.failed /\ out.match
                          /\ a.ticket # "none"
                       THEN [ok |-> TRUE, terminal |-> FALSE, limited |-> FALSE]
                       ELSE Refusal(out.terminal, out.limited)
      BY <1>2, <2>1, HarvestedReceives
    <2> DEFINE out == after[Len(a.events)]
    <2>3. out.terminal \in BOOLEAN /\ out.limited \in BOOLEAN
      <3>1. out \in Received
        BY <2>1, <2>2, ReceivesTyped
      <3> QED
        BY <3>1 DEF Received
    <2> HIDE DEF out
    <2>4. \/ Harvested(a) = Refusal(FALSE, FALSE)
          \/ Harvested(a) = [ok |-> TRUE, terminal |-> FALSE, limited |-> FALSE]
          \/ Harvested(a) = Refusal(out.terminal, out.limited)
      BY <2>2, Zenon DEF out
    <2>5. Refusal(out.terminal, out.limited) \in Harvest
      BY <2>3, RefusalType
    <2>6. /\ Refusal(FALSE, FALSE) \in Harvest
          /\ [ok |-> TRUE, terminal |-> FALSE, limited |-> FALSE] \in Harvest
      BY DEF Refusal, Harvest
    <2> QED
      BY <2>4, <2>5, <2>6
  <1> QED
    BY <1>1, <1>2

----------------------------------------------------------------------------
(* The two readings of a regular answer, side by side.                     *)

\* What collector and plugin have made of the same events.
Alike(c, p) ==
  /\ ~c.raised
  /\ c.complete <=> p.completed
  /\ c.model <=> p.match
  /\ c.failed <=> p.failed
  /\ c.stop <=> p.limited \/ p.terminal
  /\ c.auth => p.terminal
  /\ c.stop \/ c.auth => c.failed

RegularEvent(e) ==
  /\ e \in Event /\ e.type # "odd"
  /\ e.type = "failure" => e.at = "error" /\ e.code \in {"limit", "auth", "other"}

LEMMA AlikeNext ==
  ASSUME NEW c \in Reading, NEW p \in Received, Alike(c, p), NEW e, RegularEvent(e)
  PROVE  Alike(CollectorReads(c, e), PluginReads(p, e))
  <1>1. CASE e \in Completed
    <2>1. e.type = "completed" /\ ~c.raised
      BY <1>1 DEF Completed, Alike
    <2>2. CollectorReads(c, e) = [c EXCEPT !.complete = TRUE, !.model = e.model]
      BY <2>1 DEF CollectorReads
    <2>3. PluginReads(p, e) = [p EXCEPT !.completed = TRUE, !.match = e.model]
      BY <2>1 DEF PluginReads
    <2> QED
      BY <2>2, <2>3 DEF Alike, Reading, Received
  <1>2. CASE e \in Failure
    <2>1. e.type = "failure" /\ ~c.raised /\ e.at = "error"
      BY <1>2 DEF Failure, Alike, RegularEvent
    <2>2. PluginReads(p, e) =
            [p EXCEPT !.failed = TRUE,
               !.limited = p.limited \/ e.code \in {"limit", "limit_like"},
               !.terminal = p.terminal \/ e.code \in {"auth", "auth_like"}]
      BY <2>1 DEF PluginReads
    <2>3. CASE e.code = "limit"
      <3>1. CollectorReads(c, e) =
              [c EXCEPT !.failed = TRUE, !.stop = TRUE, !.auth = FALSE, !.wait = DefaultWait]
        BY <2>1, <2>3 DEF CollectorReads, CodeSeen
      <3>2. PluginReads(p, e) =
              [p EXCEPT !.failed = TRUE, !.limited = TRUE, !.terminal = p.terminal]
        BY <2>2, <2>3 DEF Received
      <3> QED
        BY <3>1, <3>2 DEF Alike, Reading, Received
    <2>4. CASE e.code = "auth"
      <3>1. CollectorReads(c, e) =
              [c EXCEPT !.failed = TRUE, !.stop = TRUE, !.auth = TRUE, !.wait = DefaultWait]
        BY <2>1, <2>4 DEF CollectorReads, CodeSeen
      <3>2. PluginReads(p, e) =
              [p EXCEPT !.failed = TRUE, !.limited = p.limited, !.terminal = TRUE]
        BY <2>2, <2>4 DEF Received
      <3> QED
        BY <3>1, <3>2 DEF Alike, Reading, Received
    <2>5. CASE e.code = "other"
      <3>1. CollectorReads(c, e) = [c EXCEPT !.failed = TRUE]
        BY <2>1, <2>5 DEF CollectorReads, CodeSeen
      <3>2. PluginReads(p, e) =
              [p EXCEPT !.failed = TRUE, !.limited = p.limited, !.terminal = p.terminal]
        BY <2>2, <2>5 DEF Received
      <3> QED
        BY <3>1, <3>2 DEF Alike, Reading, Received
    <2> QED
      BY <2>1, <2>3, <2>4, <2>5 DEF RegularEvent
  <1> QED
    BY <1>1, <1>2 DEF RegularEvent, Event, Odd

\* An answer without an error status is read alike from its first event to its last.
LEMMA AlikeThroughout ==
  ASSUME NEW a \in Answer, Regular(a), a.status = 200,
         NEW c, Collects(a, Len(a.events), c), NEW p, Receives(a, Len(a.events), p)
  PROVE  Alike(c[Len(a.events)], p[Len(a.events)])
  <1> DEFINE N == {n \in Nat : n <= Len(a.events) => Alike(c[n], p[n])}
  <1>1. /\ Len(a.events) \in Nat
        /\ \A n \in 1 .. Len(a.events) : RegularEvent(a.events[n])
    BY DEF Answer, Regular, RegularEvent
  <1>2. 0 \in N
    <2>1. c[0] = Nothing /\ p[0] = Unread
      BY <1>1 DEF Collects, Receives, Headed
    <2> QED
      BY <2>1 DEF Alike, Nothing, Unread
  <1>3. ASSUME NEW n \in Nat, n \in N PROVE n + 1 \in N
    <2>1. ASSUME n + 1 <= Len(a.events) PROVE Alike(c[n + 1], p[n + 1])
      <3>1. /\ n + 1 \in 1 .. Len(a.events) /\ n \in 0 .. Len(a.events)
            /\ n + 1 \in 0 .. Len(a.events) /\ n + 1 # 0 /\ (n + 1) - 1 = n
            /\ Alike(c[n], p[n])
        BY <1>1, <1>3, <2>1
      <3>2. c[n + 1] = CollectorReads(c[n], a.events[n + 1])
        BY <3>1 DEF Collects
      <3>3. p[n + 1] = PluginReads(p[n], a.events[n + 1])
        BY <3>1 DEF Receives
      <3>4. c[n] \in Reading /\ p[n] \in Received
        BY <3>1, CollectsTyped, ReceivesTyped
      <3> QED
        BY <1>1, <3>1, <3>2, <3>3, <3>4, AlikeNext
    <2> QED
      BY <2>1
  <1> HIDE DEF N
  <1>4. Len(a.events) \in N
    BY <1>1, <1>2, <1>3, Induction
  <1> QED
    BY <1>1, <1>4 DEF N

\* What the properties say of one reading.
Compared(r) ==
  r.regular /\ r.plain =>
    /\ r.plugin.ok <=> Usable(r.collector) /\ r.ticket # "none"
    /\ ~r.plugin.ok =>
         (r.plugin.terminal \/ r.plugin.limited <=> r.collector.stop)
    /\ r.collector.auth => r.plugin.terminal

LEMMA StreamCompared ==
  ASSUME NEW a \in Answer, Regular(a), a.status = 200, ~a.large
  PROVE  LET c == Request(a)
             p == Harvested(a) IN
         /\ p.ok <=> Usable(c) /\ a.ticket # "none"
         /\ ~p.ok => (p.terminal \/ p.limited <=> c.stop)
         /\ c.auth => p.terminal
  <1>1. Len(a.events) \in Nat /\ Len(a.events) \in 0 .. Len(a.events)
    BY DEF Answer
  <1>2. PICK after :
           /\ Collects(a, Len(a.events), after)
           /\ LET out == after[Len(a.events)] IN
              Request(a) = IF out.raised THEN [Nothing EXCEPT !.raised = TRUE]
                           ELSE [out EXCEPT !.complete = @ /\ ~out.failed /\ a.whole]
    BY <1>1, RequestCollects
  <1>3. PICK then :
           /\ Receives(a, Len(a.events), then)
           /\ LET out == then[Len(a.events)] IN
              Harvested(a) =
                IF a.large THEN Refusal(FALSE, FALSE)
                ELSE IF /\ a.whole /\ out.completed /\ ~out.failed /\ out.match
                        /\ a.ticket # "none"
                     THEN [ok |-> TRUE, terminal |-> FALSE, limited |-> FALSE]
                     ELSE Refusal(out.terminal, out.limited)
    BY <1>1, HarvestedReceives
  <1> DEFINE c == after[Len(a.events)]
             p == then[Len(a.events)]
             all == c.complete /\ ~c.failed /\ a.whole
             fine == /\ a.whole /\ p.completed /\ ~p.failed /\ p.match
                     /\ a.ticket # "none"
  <1>4. c \in Reading /\ p \in Received /\ Alike(c, p)
    BY <1>1, <1>2, <1>3, CollectsTyped, ReceivesTyped, AlikeThroughout
  <1> HIDE DEF c, p
  <1>5. Request(a) = [c EXCEPT !.complete = all]
    BY <1>2, <1>4 DEF c, Alike
  <1>6. Harvested(a) = IF fine THEN [ok |-> TRUE, terminal |-> FALSE, limited |-> FALSE]
                       ELSE Refusal(p.terminal, p.limited)
    BY <1>3 DEF p
  <1>7. /\ Request(a).complete <=> all
        /\ Request(a).model <=> c.model
        /\ Request(a).stop <=> c.stop
        /\ Request(a).auth <=> c.auth
    <2> HIDE DEF all
    <2> QED
      BY <1>4, <1>5 DEF Reading
  <1>8. fine <=> all /\ c.model /\ a.ticket # "none"
    BY <1>4 DEF Alike
  <1>9. CASE fine
    <2>1. Harvested(a).ok /\ ~Harvested(a).terminal /\ ~Harvested(a).limited
      BY <1>6, <1>9
    <2>2. ~c.auth
      BY <1>4, <1>9 DEF Alike
    <2> QED
      BY <1>7, <1>8, <1>9, <2>1, <2>2 DEF Usable
  <1>10. CASE ~fine
    <2>1. /\ ~Harvested(a).ok
          /\ Harvested(a).terminal <=> p.terminal
          /\ Harvested(a).limited <=> p.limited
      BY <1>6, <1>10 DEF Refusal
    <2> QED
      BY <1>4, <1>7, <1>8, <1>10, <2>1 DEF Usable, Alike
  <1> QED
    BY <1>9, <1>10

LEMMA RefusalCompared ==
  ASSUME NEW a \in Answer, a.status # 200, a.events = <<>>
  PROVE  LET c == Request(a)
             p == Harvested(a) IN
         /\ ~p.ok /\ ~Usable(c)
         /\ p.terminal \/ p.limited <=> c.stop
         /\ c.auth => p.terminal
  <1>1. Len(a.events) = 0
    OBVIOUS
  <1>2. PICK after :
           /\ Collects(a, 0, after)
           /\ Request(a) = IF after[0].raised THEN [Nothing EXCEPT !.raised = TRUE]
                           ELSE [after[0] EXCEPT !.complete = @ /\ ~after[0].failed /\ a.whole]
    BY <1>1, RequestCollects
  <1>3. after[0] = Headed(a)
    BY <1>2 DEF Collects
  <1>5. /\ ~Harvested(a).ok
        /\ Harvested(a).terminal <=> a.status = 401
        /\ Harvested(a).limited <=> a.status = 429
    BY HarvestedRefused
  <1> DEFINE h == Headed(a)
             all == h.complete /\ ~h.failed /\ a.whole
  <1>6. /\ h \in Reading /\ ~h.raised /\ ~h.complete
        /\ h.stop <=> a.status \in {401, 429}
        /\ h.auth <=> a.status = 401
    <2>1. h \in Reading
      BY HeadedType
    <2>2. CASE a.status \in {401, 429}
      BY <2>1, <2>2 DEF Headed, Nothing
    <2>3. CASE a.status \notin {401, 429}
      BY <2>1, <2>3 DEF Headed, Nothing
    <2> QED
      BY <2>2, <2>3
  <1> HIDE DEF h
  <1>7. Request(a) = [h EXCEPT !.complete = all]
    BY <1>2, <1>3, <1>6 DEF h
  <1>8. ~all
    BY <1>6
  <1> HIDE DEF all
  <1>9. ~Request(a).complete /\ (Request(a).stop <=> h.stop) /\ (Request(a).auth <=> h.auth)
    BY <1>6, <1>7, <1>8 DEF Reading
  <1>10. a.status \in {401, 429} <=> a.status = 401 \/ a.status = 429
    OBVIOUS
  <1> QED
    BY <1>5, <1>6, <1>9, <1>10 DEF Usable

LEMMA AnswersCompared ==
  ASSUME NEW a \in Answer
  PROVE  /\ Read(a).collector \in Reading /\ Read(a).plugin \in Harvest
         /\ Compared(Read(a))
  <1>1. /\ Read(a).collector = Request(a) /\ Read(a).plugin = Harvested(a)
        /\ Read(a).ticket = a.ticket /\ (Read(a).regular <=> Regular(a))
        /\ Read(a).plain <=> ~a.large /\ (a.status = 200 \/ a.events = <<>>)
    BY DEF Read
  <1>2. Compared(Read(a))
    BY <1>1, StreamCompared, RefusalCompared DEF Compared
  <1> QED
    BY <1>1, <1>2, RequestType, HarvestedType

----------------------------------------------------------------------------
(* The attempts of an account.                                             *)

ProbeInv ==
  /\ ProbeTypeOK
  /\ answer \in Readings \cup {NoAnswer}

LEMMA ReadingTypes ==
  ASSUME NEW r \in Readings
  PROVE  r.collector \in Reading /\ r.plugin \in Harvest /\ Compared(r)
  <1>1. PICK a \in Answer : r = Read(a)
    BY ProbeAssumption DEF Readings
  <1> QED
    BY <1>1, AnswersCompared

LEMMA NoAnswerTypes ==
  NoAnswer.collector \in Reading /\ NoAnswer.plugin \in Harvest /\ Compared(NoAnswer)
  <1>1. NoAnswer.collector = Nothing /\ Nothing \in Reading
    BY DEF NoAnswer, Nothing, Reading
  <1>2. NoAnswer.plugin = Refusal(FALSE, FALSE) /\ Refusal(FALSE, FALSE) \in Harvest
    BY DEF NoAnswer, Refusal, Harvest
  <1>3. Compared(NoAnswer)
    BY DEF NoAnswer, Compared
  <1> QED
    BY <1>1, <1>2, <1>3

LEMMA ProbeStarts == ProbeInit => ProbeInv
  <1> SUFFICES ASSUME ProbeInit PROVE ProbeInv
    OBVIOUS
  <1>1. TypeOK
    BY DEF ProbeInit, Init, TypeOK
  <1> QED
    BY <1>1, NoAnswerTypes DEF ProbeInit, ProbeInv, ProbeTypeOK

\* The attempt is over.
LEMMA EndsTypes ==
  ASSUME ProbeInv, NEW o, Ends(o), auth_block' \in BOOLEAN, wait' \in Nat,
         NEW r \in Readings, answer' = r
  PROVE  ProbeInv'
  <1>1. TypeOK'
    BY AttemptTypes DEF ProbeInv, ProbeTypeOK, Ends
  <1> QED
    BY <1>1, ReadingTypes DEF ProbeInv, ProbeTypeOK, Ends

LEMMA ProbeSteps == ProbeInv /\ [ProbeNext]_allVars => ProbeInv'
  <1> SUFFICES ASSUME ProbeInv, [ProbeNext]_allVars PROVE ProbeInv'
    OBVIOUS
  <1>1. ASSUME UNCHANGED vars PROVE TypeOK'
    BY <1>1 DEF ProbeInv, ProbeTypeOK, TypeOK, vars
  <1>2. Interval \in Nat
    BY ProbeAssumption
  <1>3. CASE UNCHANGED allVars
    BY <1>1, <1>3 DEF ProbeInv, ProbeTypeOK, allVars, probe
  <1>4. ASSUME NEW g \in SUBSET Dynamic, BeginAttempt(g) PROVE ProbeInv'
    BY <1>1, <1>2, <1>4 DEF BeginAttempt, Paused, ProbeInv, ProbeTypeOK
  <1>5. ASSUME NEW r \in Readings,
               StopAccount(r) \/ Capture(r) \/ Verify(r) \/ GiveUpAttempt(r)
        PROVE  ProbeInv'
    <2>1. r.collector \in Reading /\ r.plugin \in Harvest
      BY ReadingTypes
    <2>2. CASE StopAccount(r)
      <3>1. r.collector.auth \in BOOLEAN /\ r.collector.wait \in Nat
        BY <2>1 DEF Reading
      <3> QED
        BY <2>2, <3>1, EndsTypes DEF StopAccount
    <2>3. CASE Capture(r)
      BY <1>1, <2>1, <2>3 DEF Capture, ProbeInv, ProbeTypeOK
    <2>4. CASE Verify(r)
      BY <2>4, EndsTypes DEF Verify, ProbeInv, ProbeTypeOK
    <2>5. CASE GiveUpAttempt(r)
      BY <2>5, EndsTypes DEF GiveUpAttempt, ProbeInv, ProbeTypeOK
    <2> QED
      BY <1>5, <2>2, <2>3, <2>4, <2>5
  <1>6. CASE SkipAttempt
    BY <1>1, <1>2, <1>6 DEF SkipAttempt, ProbeInv, ProbeTypeOK
  <1>7. CASE KillAttempt
    BY <1>1, <1>7, NoAnswerTypes DEF KillAttempt, ProbeInv, ProbeTypeOK
  <1>8. CASE WaitOver
    BY <1>1, <1>8, NoAnswerTypes DEF WaitOver, ProbeInv, ProbeTypeOK
  <1>9. CASE NewCredential
    <2>1. Len(RoutesFor(Dynamic)) \in Nat
      BY RoutesForMembers
    <2>2. TypeOK'
      BY <1>9, <2>1 DEF NewCredential, ProbeInv, ProbeTypeOK, TypeOK
    <2> QED
      BY <1>9, <2>2, NoAnswerTypes DEF NewCredential, ProbeInv, ProbeTypeOK
  <1>10. \A g : g \in (IF Flaky THEN SUBSET Dynamic ELSE {Dynamic}) => g \in SUBSET Dynamic
    OBVIOUS
  <1> QED
    BY <1>3, <1>4, <1>5, <1>6, <1>7, <1>8, <1>9, <1>10 DEF ProbeNext

LEMMA ProbeInvHolds == ProbeSpec => []ProbeInv
  BY ProbeStarts, ProbeSteps, PTL DEF ProbeSpec

\* Whatever state an account's file starts with, and however its attempts end,
\* the cursor, the last and the preferred exit stay those of the configured list,
\* and an attempt is only under way while next_attempt is put off (collect(),
\* local_ip_harvest.py:305-371).
THEOREM ProbeTypes == ProbeSpec => []ProbeTypeOK
  <1>1. ProbeInv => ProbeTypeOK
    BY DEF ProbeInv
  <1> QED
    BY <1>1, ProbeInvHolds, PTL

\* Of a regular answer, with any number of events, the plugin's harvest() takes
\* exactly what the collector's request() takes, but for the age of the ticket
\* (local_ip_harvest.py:46-196, main.go:401-476).
THEOREM ReadersAlike == ProbeSpec => []ReadersAgree
  <1>1. ProbeInv => ReadersAgree
    BY ReadingTypes, NoAnswerTypes DEF ProbeInv, Compared, ReadersAgree
  <1> QED
    BY <1>1, ProbeInvHolds, PTL

\* After any number of events, in any order, the two readers stop for the same
\* answers, and the plugin calls terminal what the collector calls a denial
\* (local_ip_harvest.py:165-194, main.go:452-466).
THEOREM StopsAlike == ProbeSpec => []StopsAgree
  <1>1. ProbeInv => StopsAgree
    BY ReadingTypes, NoAnswerTypes DEF ProbeInv, Compared, StopsAgree
  <1> QED
    BY <1>1, ProbeInvHolds, PTL

LEMMA AlternationStep ==
  ASSUME Static # {}, ProbeInv, [ProbeNext]_allVars, NEW g \in Dynamic,
         turn' # turn, up' = {g}, preferred \notin Members(RoutesFor(up'))
  PROVE  last' = g <=> last # g
  <1>1. TypeOK
    BY DEF ProbeInv, ProbeTypeOK
  <1>2. PICK o : Attempt(gens, o)
    BY DEF ProbeNext, BeginAttempt, StopAccount, Capture, Verify, GiveUpAttempt, SkipAttempt,
           KillAttempt, WaitOver, NewCredential, Ends, allVars, vars
  <1>3. gens = {g}
    BY <1>2 DEF Attempt
  <1>4. Attempt({g}, o) /\ preferred \notin Members(RoutesFor({g}))
    BY <1>2, <1>3
  <1> QED
    BY <1>1, <1>4, AttemptAlternates

\* With a static exit, and while one generator alone answers and no exit is
\* preferred, its exit and the static ones take turns, whatever cursor and last
\* exit the file starts with and however many generators are configured
\* (order_routes, local_ip_harvest.py:284-298).  With two that answer they need
\* not: run alternation_lost.
THEOREM SoleGeneratorTakesTurns ==
  ASSUME Static # {}
  PROVE  ProbeSpec => SoleGeneratorAlternates
  <1>1. ProbeInv /\ [ProbeNext]_allVars
          => [\A g \in Dynamic :
                turn' # turn /\ up' = {g} /\ preferred \notin Members(RoutesFor(up'))
                  => (last' = g <=> last # g)]_vars
    BY AlternationStep
  <1>2. ProbeSpec => [][ProbeNext]_allVars
    BY PTL DEF ProbeSpec
  <1> QED
    BY <1>1, <1>2, ProbeInvHolds, PTL DEF SoleGeneratorAlternates

----------------------------------------------------------------------------
(* The rotation after failures, while only static exits are left: what each *)
(* attempt does to the exits that still wait for their turn.                *)

LEMMA ModSmall ==
  ASSUME NEW n \in Nat, NEW x \in Nat, x < n
  PROVE  x % n = x
  OBVIOUS

LEMMA CursorMod ==
  ASSUME NEW n \in Nat, NEW j \in 1 .. n
  PROVE  (j % n) % n = IF j < n THEN j ELSE 0
  <1>1. CASE j < n
    BY <1>1, ModSmall
  <1>2. CASE j = n
    <2>1. n % n = 0
      BY <1>2
    <2> QED
      BY <1>2, <2>1, ModSmall
  <1> QED
    BY <1>1, <1>2

\* How many of n exits come before the i-th when the first c are skipped.
Before(n, c, i) == IF c < i THEN i - 1 - c ELSE i - 1 + n - c

Place(r) == CHOOSE i \in DOMAIN RoutesFor({}) : RoutesFor({})[i] = r

\* How many static exits come before r, from where the cursor stands.
ExitsAhead(r) ==
  Before(Len(RoutesFor({})), cursor % Len(RoutesFor({})), Place(r))

LEMMA FewerBefore ==
  ASSUME NEW n \in Nat, NEW c \in 0 .. n - 1, NEW i \in 1 .. n, NEW j \in 1 .. n, i # j,
         \/ j = c + 1
         \/ i # c + 1 /\ n >= 2 /\ j = IF c + 2 <= n THEN c + 2 ELSE 1
  PROVE  Before(n, IF j < n THEN j ELSE 0, i) < Before(n, c, i)
  BY DEF Before

\* Both sources are in the list, to their last exit.
LEMMA InterleavedCovers ==
  ASSUME NEW A, NEW c \in Seq(A), NEW p \in Seq(A)
  PROVE  \A r \in Members(c) \cup Members(p) :
           \E i \in 1 .. Len(c) + Len(p) : Interleaved(c, p)[i] = r
  <1> DEFINE m == IF Len(c) < Len(p) THEN Len(c) ELSE Len(p)
             rest == IF Len(c) > m THEN c ELSE p
             n == Len(c) + Len(p)
  <1>1. /\ Len(c) \in Nat /\ Len(p) \in Nat /\ m \in Nat /\ m <= Len(c) /\ m <= Len(p)
        /\ DOMAIN c = 1 .. Len(c) /\ DOMAIN p = 1 .. Len(p)
        /\ m < Len(c) => rest = c
        /\ m < Len(p) => rest = p
    OBVIOUS
  <1>2. \A i \in 1 .. n :
          Interleaved(c, p)[i] = IF i > 2 * m THEN rest[i - m]
                                 ELSE IF i % 2 = 1 THEN c[(i + 1) \div 2] ELSE p[i \div 2]
    BY DEF Interleaved
  <1> HIDE DEF m, rest
  <1>3. ASSUME NEW j \in 1 .. Len(c)
        PROVE  \E i \in 1 .. n : Interleaved(c, p)[i] = c[j]
    <2>1. CASE j <= m
      <3> DEFINE i == 2 * j - 1
      <3>1. i \in 1 .. n /\ ~(i > 2 * m) /\ i % 2 = 1 /\ (i + 1) \div 2 = j
        BY <1>1, <2>1
      <3> HIDE DEF i
      <3> QED
        BY <1>2, <3>1
    <2>2. CASE j > m
      <3> DEFINE i == j + m
      <3>1. i \in 1 .. n /\ i > 2 * m /\ i - m = j /\ rest = c
        BY <1>1, <2>2
      <3> HIDE DEF i
      <3> QED
        BY <1>2, <3>1
    <2> QED
      BY <1>1, <2>1, <2>2
  <1>4. ASSUME NEW j \in 1 .. Len(p)
        PROVE  \E i \in 1 .. n : Interleaved(c, p)[i] = p[j]
    <2>1. CASE j <= m
      <3> DEFINE i == 2 * j
      <3>1. i \in 1 .. n /\ ~(i > 2 * m) /\ i % 2 # 1 /\ i \div 2 = j
        BY <1>1, <2>1
      <3> HIDE DEF i
      <3> QED
        BY <1>2, <3>1
    <2>2. CASE j > m
      <3> DEFINE i == j + m
      <3>1. i \in 1 .. n /\ i > 2 * m /\ i - m = j /\ rest = p
        BY <1>1, <2>2
      <3> HIDE DEF i
      <3> QED
        BY <1>2, <3>1
    <2> QED
      BY <1>1, <2>1, <2>2
  <1> QED
    BY <1>1, <1>3, <1>4 DEF Members

\* While no generator answers, the list is that of the static exits.
LEMMA StaticRoutes ==
  /\ RoutesFor({}) \in Seq(Static) /\ RoutesFor({}) \in Seq(Route)
  /\ Answering({}) = <<>>
  /\ \A r \in Static : \E i \in DOMAIN RoutesFor({}) : RoutesFor({})[i] = r
  <1> DEFINE inter == Interleaved(Clash, IP)
  <1>1. /\ inter \in Seq(Static) /\ Len(inter) = Len(Clash) + Len(IP)
        /\ \A r \in Static : \E i \in 1 .. Len(Clash) + Len(IP) : inter[i] = r
    <2>1. Clash \in Seq(Static) /\ IP \in Seq(Static)
      BY RotationAssumption
    <2>2. \A r \in Members(Clash) \cup Members(IP) :
            \E i \in 1 .. Len(Clash) + Len(IP) : inter[i] = r
      BY <2>1, InterleavedCovers
    <2>3. inter \in Seq(Static) /\ Len(inter) = Len(Clash) + Len(IP)
      BY <2>1, InterleavedMembers
    <2> HIDE DEF inter
    <2> QED
      BY <2>2, <2>3 DEF Static
  <1>2. Answering({}) = <<>>
    <2>1. Answering({}) \in Seq({})
      BY AnsweringMembers
    <2> QED
      BY <2>1
  <1>3. RoutesFor({}) = <<>> \o inter
    BY <1>2 DEF RoutesFor
  <1> HIDE DEF inter
  <1>4. <<>> \o inter = inter
    BY <1>1
  <1>5. RoutesFor({}) = inter
    BY <1>3, <1>4
  <1>6. Static \subseteq Route
    BY DEF Route
  <1>7. inter \in Seq(Route)
    BY <1>1, <1>6
  <1> QED
    BY <1>1, <1>2, <1>5, <1>7

\* The exit that is chosen then: the next one, or the one after it.
LEMMA StaticChoice ==
  ASSUME TypeOK, NEW o, Attempt({}, o), preferred \notin Static,
         \A i, j \in DOMAIN RoutesFor({}) : RoutesFor({})[i] = RoutesFor({})[j] => i = j
  PROVE  LET routes == RoutesFor({})
             n == Len(routes)
             c == cursor % n IN
         /\ n \in Nat \ {0} /\ c \in 0 .. n - 1
         /\ \E j \in 1 .. n :
              /\ last' = routes[j]
              /\ \/ j = c + 1
                 \/ routes[c + 1] = last /\ n >= 2 /\ j = IF c + 2 <= n THEN c + 2 ELSE 1
  <1> DEFINE routes == RoutesFor({})
             n == Len(routes)
             c == cursor % n
             A == Members(routes)
             turned == Rotated(routes, c)
             s == Ordered(routes, cursor, last, preferred, {})
             choice == OrderRoutes(routes, cursor, last, preferred, {})
  <1>1. /\ routes \in Seq(Static) /\ routes \in Seq(Route) /\ Answering({}) = <<>>
        /\ Answering({}) \in Seq(A)
    BY StaticRoutes, RoutesForMembers
  <1>2. /\ choice # <<>> /\ last' = choice[1]
    BY DEF Attempt
  <1>3. routes # <<>>
    BY <1>2 DEF OrderRoutes
  <1>4. cursor \in Nat
    <2>1. Len(RoutesFor(Dynamic)) \in Nat
      BY RoutesForMembers
    <2> QED
      BY <2>1 DEF TypeOK
  <1>5. n \in Nat \ {0} /\ c \in 0 .. n - 1 /\ c \in 0 .. n
    <2> HIDE DEF routes
    <2>1. n \in Nat \ {0}
      BY <1>1, <1>3
    <2> HIDE DEF n
    <2> QED
      BY <1>4, <2>1
  <1>6. routes \in Seq(A) /\ A \subseteq Route /\ A \subseteq Static
    BY <1>1, MembersIn
  <1>7. last' = s[1]
    <2>1. s \in Seq(A)
      <3> HIDE DEF routes
      <3> QED
        BY <1>1, <1>3, <1>4, OrderedMembers
    <2> HIDE DEF routes
    <2> QED
      BY <1>2, <1>3, <2>1, ChoiceIsFirst
  <1>8. s = IF n > 1 THEN Without(last, turned) ELSE turned
    <2>1. preferred \notin A
      BY <1>6
    <2>2. \A m : Ordered(m, cursor, last, preferred, {}) =
                   LET t == Rotated(m, cursor % Len(m))
                       first == Answering({})[1]
                       f == IF preferred \in Members(m) THEN ToFront(preferred, t)
                            ELSE IF Answering({}) # <<>> /\ first # last
                            THEN ToFront(first, t) ELSE t
                   IN  IF Len(m) > 1 THEN Without(last, f) ELSE f
      BY DEF Ordered
    <2> HIDE DEF routes
    <2> QED
      BY <1>1, <2>1, <2>2
  <1>9. /\ turned \in Seq(A) /\ Len(turned) = n
        /\ \A i \in 1 .. n - c : turned[i] = routes[i + c]
        /\ \A i \in 1 .. c : turned[i + (n - c)] = routes[i]
    <2> HIDE DEF routes, c, A
    <2> QED
      BY <1>5, <1>6, RotatedMembers
  <1>10. DOMAIN routes = 1 .. n
    BY <1>1
  <1>11. \A i, j \in 1 .. n : routes[i] = routes[j] => i = j
    BY <1>10
  <1> HIDE DEF turned, s, choice, A, c, n, routes
  <1>12. turned[1] = routes[c + 1] /\ c + 1 \in 1 .. n
    <2>1. 1 \in 1 .. n - c /\ 1 + c = c + 1 /\ c + 1 \in 1 .. n
      BY <1>5
    <2> QED
      BY <1>9, <2>1
  <1> DEFINE left == Without(last, turned)
  <1>13. /\ Len(turned) >= 1 /\ turned[1] # last => left[1] = turned[1]
         /\ Len(turned) >= 2 /\ turned[1] = last /\ turned[2] # last => left[1] = turned[2]
    <2>1. A \subseteq Route /\ turned \in Seq(A)
      BY <1>6, <1>9
    <2>2. Len(turned) >= 1 /\ turned[1] # last => left[1] = turned[1]
      BY <2>1, WithoutMembers
    <2>3. ASSUME Len(turned) >= 2, turned[1] = last, turned[2] # last
          PROVE  left[1] = turned[2]
      BY <2>1, <2>3, WithoutFirst
    <2> QED
      BY <2>2, <2>3
  <1> HIDE DEF left
  <1>14. s = IF n > 1 THEN left ELSE turned
    BY <1>8 DEF left
  <1>15. CASE n = 1 \/ turned[1] # last
    <2>1. s[1] = turned[1]
      <3>1. n > 1 => left[1] = turned[1]
        BY <1>5, <1>9, <1>15, <1>13
      <3> QED
        BY <1>14, <3>1
    <2>2. last' = routes[c + 1]
      BY <1>7, <1>12, <2>1
    <2> QED
      BY <1>5, <1>12, <2>2 DEF c, n, routes
  <1>16. CASE n # 1 /\ turned[1] = last
    <2> DEFINE j == IF c + 2 <= n THEN c + 2 ELSE 1
    <2>1. n >= 2 /\ j \in 1 .. n /\ j # c + 1
      BY <1>5, <1>16
    <2>2. turned[2] = routes[j]
      <3>1. CASE c + 2 <= n
        <4>1. 2 \in 1 .. n - c /\ 2 + c = j
          BY <1>5, <3>1
        <4> HIDE DEF j
        <4> QED
          BY <1>9, <4>1
      <3>2. CASE ~(c + 2 <= n)
        <4>1. 1 \in 1 .. c /\ 1 + (n - c) = 2 /\ j = 1
          BY <1>5, <2>1, <3>2
        <4> HIDE DEF j
        <4> QED
          BY <1>9, <4>1
      <3> QED
        BY <3>1, <3>2
    <2> HIDE DEF j
    <2>3. turned[2] # last
      BY <1>11, <1>12, <1>16, <2>1, <2>2
    <2>4. s = left /\ left[1] = turned[2]
      BY <1>5, <1>9, <1>16, <1>13, <1>14, <2>1, <2>3
    <2>5. last' = routes[j] /\ routes[c + 1] = last
      BY <1>7, <1>12, <1>16, <2>2, <2>4
    <2> QED
      BY <1>5, <2>1, <2>5 DEF c, n, routes, j
  <1> QED
    BY <1>15, <1>16

LEMMA RotationStep ==
  ASSUME \A i, j \in DOMAIN RoutesFor({}) : RoutesFor({})[i] = RoutesFor({})[j] => i = j,
         TypeOK, NEW o, Attempt({}, o), preferred \notin Static,
         NEW r \in Static, r # last, last' # r
  PROVE  0 <= ExitsAhead(r)' /\ ExitsAhead(r)' < ExitsAhead(r)
  <1> DEFINE routes == RoutesFor({})
             n == Len(routes)
             c == cursor % n
             i == Place(r)
  <1>1. n \in Nat \ {0} /\ c \in 0 .. n - 1
    BY StaticChoice
  <1>2. PICK j \in 1 .. n :
          /\ last' = routes[j]
          /\ \/ j = c + 1
             \/ routes[c + 1] = last /\ n >= 2 /\ j = IF c + 2 <= n THEN c + 2 ELSE 1
    BY StaticChoice
  <1>3. DOMAIN routes = 1 .. n
    BY StaticRoutes
  <1>4. i \in 1 .. n /\ routes[i] = r
    <2>1. \E k \in DOMAIN RoutesFor({}) : RoutesFor({})[k] = r
      BY StaticRoutes
    <2>2. i \in DOMAIN routes /\ routes[i] = r
      BY <2>1 DEF Place
    <2> QED
      BY <1>3, <2>2
  <1>5. Place(last') = j
    <2>1. j \in DOMAIN routes /\ routes[j] = last'
      BY <1>2, <1>3
    <2> QED
      BY <2>1 DEF Place
  <1>6. cursor' = j % n
    <2>1. cursor' = CursorAfter(routes, last')
      BY DEF Attempt
    <2>2. CursorAfter(routes, last') = Place(last') % n
      BY DEF CursorAfter, Place
    <2> QED
      BY <1>5, <2>1, <2>2
  <1>7. ExitsAhead(r) = Before(n, c, i) /\ ExitsAhead(r)' = Before(n, cursor' % n, i)
    BY DEF ExitsAhead, Place
  <1> HIDE DEF i, c, n, routes
  <1>8. cursor' % n = IF j < n THEN j ELSE 0
    BY <1>1, <1>2, <1>6, CursorMod
  <1>9. i # j /\ (routes[c + 1] = last => i # c + 1)
    BY <1>2, <1>4
  <1>10. Before(n, IF j < n THEN j ELSE 0, i) < Before(n, c, i)
    BY <1>1, <1>2, <1>4, <1>9, FewerBefore
  <1>11. 0 <= Before(n, IF j < n THEN j ELSE 0, i)
    BY <1>1, <1>4 DEF Before
  <1> QED
    BY <1>7, <1>8, <1>10, <1>11

\* While no generator answers and no static exit is preferred, every attempt
\* brings every other static exit nearer to its turn: an exit that was not the
\* last one and is not tried now has fewer exits before it, and never less than
\* none, whatever cursor and last exit the file starts with.  Until the credential
\* is replaced, it is tried after at most as many attempts as there are exits.
\* No two rows have one key: "clash:" and a port, "ip:" and an identifier
\* (order_routes, collect(), local_ip_harvest.py:284-298, 330-331).
THEOREM ExitsComeNearer ==
  ASSUME \A i, j \in DOMAIN RoutesFor({}) : RoutesFor({})[i] = RoutesFor({})[j] => i = j
  PROVE  ProbeSpec =>
           [][turn' # turn /\ up' = {} /\ preferred \notin Static
                => \A r \in Static \ {last} :
                     \/ last' = r
                     \/ 0 <= ExitsAhead(r)' /\ ExitsAhead(r)' < ExitsAhead(r)]_vars
  <1> DEFINE Nearer ==
               turn' # turn /\ up' = {} /\ preferred \notin Static
                 => \A r \in Static \ {last} :
                      \/ last' = r
                      \/ 0 <= ExitsAhead(r)' /\ ExitsAhead(r)' < ExitsAhead(r)
  <1>1. ASSUME ProbeInv, [ProbeNext]_allVars PROVE [Nearer]_vars
    <2> SUFFICES ASSUME turn' # turn, up' = {}, preferred \notin Static,
                        NEW r \in Static \ {last}, last' # r
                 PROVE  0 <= ExitsAhead(r)' /\ ExitsAhead(r)' < ExitsAhead(r)
      OBVIOUS
    <2>1. TypeOK
      BY <1>1 DEF ProbeInv, ProbeTypeOK
    <2>2. PICK o : Attempt(gens, o)
      BY <1>1 DEF ProbeNext, BeginAttempt, StopAccount, Capture, Verify, GiveUpAttempt,
                  SkipAttempt, KillAttempt, WaitOver, NewCredential, Ends, allVars, vars
    <2>3. gens = {}
      BY <2>2 DEF Attempt
    <2>4. Attempt({}, o)
      BY <2>2, <2>3
    <2>5. 0 <= ExitsAhead(r)' /\ ExitsAhead(r)' < ExitsAhead(r)
      BY <2>1, <2>4, RotationStep
    <2> QED
      BY <2>5
  <1>2. ProbeSpec => [][ProbeNext]_allVars
    BY PTL DEF ProbeSpec
  <1> QED
    BY <1>1, <1>2, ProbeInvHolds, PTL
=============================================================================
