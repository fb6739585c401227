------------------------------ MODULE Induction ------------------------------
(***************************************************************************)
(* Induction over the numbers as a fact about sets, which needs no         *)
(* operator as a parameter, and what follows from it for the functions     *)
(* that the modules define by recursion over 0..n.                         *)
(***************************************************************************)
EXTENDS SequenceFilters, WellFoundedInduction, Functions, TLAPS

LEMMA Least ==
  ASSUME NEW T \in SUBSET Nat, T # {}
  PROVE  \E x \in T : \A y \in T : x <= y
<1> DEFINE R == OpToRel(<, Nat)
<1>1. IsWellFoundedOn(R, Nat)
  BY NatLessThanWellFounded
<1>2. PICK x \in T : \A y \in T : ~(<<y, x>> \in R)
  <2> HIDE DEF R
  <2> QED BY <1>1, WFMin
<1>3. \A y \in T : x <= y
  <2> SUFFICES ASSUME NEW y \in T PROVE ~(y < x)
    OBVIOUS
  <2>1. x \in Nat /\ y \in Nat
    OBVIOUS
  <2> QED BY <1>2, <2>1 DEF OpToRel
<1> QED BY <1>3

\* A set that has 0, and with each number below n the next, has 0..n.
LEMMA UpTo ==
  ASSUME NEW n \in Nat, NEW S, 0 \in S,
         \A k \in 0..n : k # n /\ k \in S => k + 1 \in S
  PROVE  \A k \in 0..n : k \in S
<1> SUFFICES ASSUME {k \in 0..n : k \notin S} # {} PROVE FALSE
  OBVIOUS
<1>1. PICK x \in 0..n : x \notin S /\ \A y \in 0..n : y \notin S => x <= y
  <2>1. {k \in 0..n : k \notin S} \in SUBSET Nat
    OBVIOUS
  <2> QED BY <2>1, Least
<1>2. x # 0 /\ x - 1 \in 0..n /\ x - 1 # n
  BY <1>1
<1>3. x - 1 \in S
  BY <1>1, <1>2
<1>4. (x - 1) + 1 = x
  OBVIOUS
<1> QED BY <1>1, <1>2, <1>3, <1>4

LEMMA Greatest ==
  ASSUME NEW n \in Nat, NEW T \in SUBSET (0..n), T # {}
  PROVE  \E x \in T : \A y \in T : y <= x
<1> DEFINE U == {n - x : x \in T}
<1>1. U \in SUBSET Nat /\ U # {}
  <2>1. PICK x \in T : TRUE
    OBVIOUS
  <2>2. n - x \in U
    OBVIOUS
  <2>3. \A y \in T : y \in 0..n
    OBVIOUS
  <2>4. \A y \in T : n - y \in Nat
    BY <2>3
  <2> QED BY <2>2, <2>4
<1>2. PICK u \in U : \A v \in U : u <= v
  BY <1>1, Least
<1>3. PICK x \in T : u = n - x
  OBVIOUS
<1>4. \A y \in T : u <= n - y
  BY <1>2
<1>5. x \in 0..n /\ \A y \in T : y \in 0..n
  OBVIOUS
<1>6. \A y \in T : y <= x
  BY <1>3, <1>4, <1>5
<1> QED BY <1>6

\* A function starts with b and goes on by st.
GoesOn(g, n, b, st) == g[0] = b /\ \A k \in 1..n : g[k] = st[k][g[k - 1]]

LEMMA Recursion ==
  ASSUME NEW n \in Nat, NEW S, NEW b \in S, NEW st \in [1..n -> [S -> S]]
  PROVE  \E g \in [0..n -> S] : GoesOn(g, n, b, st)
<1> DEFINE Good(g, m) == /\ g \in [0..m -> S]
                         /\ g[0] = b
                         /\ \A k \in 1..m : g[k] = st[k][g[k - 1]]
           T == {m \in 0..n : \E g : Good(g, m)}
<1>1. 0 \in T
  <2> DEFINE g == [k \in 0..0 |-> b]
  <2>1. g \in [0..0 -> S] /\ g[0] = b
    OBVIOUS
  <2>2. \A k \in 1..0 : g[k] = st[k][g[k - 1]]
    OBVIOUS
  <2>3. Good(g, 0)
    BY <2>1, <2>2
  <2> HIDE DEF g
  <2> QED BY <2>3
<1>2. ASSUME NEW m \in 0..n, m # n, m \in T PROVE m + 1 \in T
  <2>1. PICK g : Good(g, m)
    BY <1>2
  <2> DEFINE h == [k \in 0..(m + 1) |-> IF k = m + 1 THEN st[k][g[m]] ELSE g[k]]
  <2>2. m + 1 \in 1..n /\ g[m] \in S
    BY <1>2, <2>1
  <2>3. st[m + 1][g[m]] \in S
    BY <2>2
  <2>4. h \in [0..(m + 1) -> S]
    BY <2>1, <2>3
  <2>5. h[0] = b
    BY <2>1
  <2>6. ASSUME NEW k \in 1..(m + 1) PROVE h[k] = st[k][h[k - 1]]
    <3>1. h[k - 1] = g[k - 1]
      OBVIOUS
    <3>2. CASE k = m + 1
      <4>1. k - 1 = m
        BY <3>2
      <4> QED BY <3>1, <3>2, <4>1
    <3>3. CASE k # m + 1
      <4>1. k \in 1..m
        BY <3>3
      <4> QED BY <2>1, <3>1, <4>1
    <3> QED BY <3>2, <3>3
  <2>7. Good(h, m + 1)
    BY <2>4, <2>5, <2>6
  <2> HIDE DEF h
  <2> QED BY <2>2, <2>7
<1>3. n \in T
  <2> HIDE DEF T
  <2>1. \A k \in 0..n : k # n /\ k \in T => k + 1 \in T
    BY <1>2
  <2>2. \A k \in 0..n : k \in T
    BY <1>1, <2>1, UpTo
  <2> QED BY <2>2
<1>4. PICK g : Good(g, n)
  BY <1>3
<1> QED BY <1>4 DEF GoesOn

-----------------------------------------------------------------------------
(* Sifting a sequence *)

\* What the recursion of Sifted goes through.
Sifting(g, s, S) ==
  /\ g[0] = <<>>
  /\ \A k \in 1..Len(s) :
       g[k] = IF s[k] \in S THEN Append(g[k - 1], s[k]) ELSE g[k - 1]

LEMMA SiftedSteps ==
  ASSUME NEW X, NEW s \in Seq(X), NEW S
  PROVE  \E g \in [0..Len(s) -> Seq(X)] : Sifting(g, s, S) /\ Sifted(s, S) = g[Len(s)]
<1> DEFINE N == Len(s)
           step == [k \in 1..N |->
                     [q \in Seq(X) |-> IF s[k] \in S THEN Append(q, s[k]) ELSE q]]
<1>n. N \in Nat /\ \A k \in 1..N : s[k] \in X
  OBVIOUS
<1>1. step \in [1..N -> [Seq(X) -> Seq(X)]]
  BY <1>n
<1>2. <<>> \in Seq(X)
  OBVIOUS
<1>3. PICK g \in [0..N -> Seq(X)] : GoesOn(g, N, <<>>, step)
  <2> HIDE DEF step, N
  <2> QED BY <1>n, <1>1, <1>2, Recursion
<1>4. ASSUME NEW k \in 1..N
      PROVE  g[k] = IF s[k] \in S THEN Append(g[k - 1], s[k]) ELSE g[k - 1]
  <2>1. k - 1 \in 0..N
    BY <1>n
  <2>2. g[k - 1] \in Seq(X)
    BY <2>1
  <2>3. g[k] = step[k][g[k - 1]]
    BY <1>3 DEF GoesOn
  <2> QED BY <2>2, <2>3
<1>5. Sifting(g, s, S)
  BY <1>3, <1>4 DEF Sifting, GoesOn
<1> HIDE DEF step
<1> DEFINE upTo[n \in 0..Len(s)] ==
             IF n = 0 THEN <<>>
             ELSE IF s[n] \in S THEN Append(upTo[n - 1], s[n]) ELSE upTo[n - 1]
<1>6. Sifted(s, S) = upTo[N]
  BY DEF Sifted
<1>7. g = [n \in 0..Len(s) |->
             IF n = 0 THEN <<>>
             ELSE IF s[n] \in S THEN Append(g[n - 1], s[n]) ELSE g[n - 1]]
  <2> HIDE DEF upTo
  <2> DEFINE v(n) == IF n = 0 THEN <<>>
                     ELSE IF s[n] \in S THEN Append(g[n - 1], s[n]) ELSE g[n - 1]
  <2>1. ASSUME NEW n \in 0..N PROVE g[n] = v(n)
    <3>1. CASE n = 0
      BY <1>3, <3>1 DEF GoesOn
    <3>2. CASE n # 0
      <4>1. n \in 1..N
        BY <1>n, <3>2
      <4> QED BY <1>4, <3>2, <4>1
    <3> QED BY <3>1, <3>2
  <2>2. g = [n \in 0..N |-> g[n]]
    OBVIOUS
  <2> HIDE DEF v
  <2>3. g = [n \in 0..N |-> v(n)]
    BY <2>1, <2>2
  <2> QED BY <2>3 DEF v
<1>8. upTo = [n \in 0..Len(s) |->
                IF n = 0 THEN <<>>
                ELSE IF s[n] \in S THEN Append(upTo[n - 1], s[n]) ELSE upTo[n - 1]]
  BY <1>7
<1> HIDE DEF upTo
<1>8a. \A n \in 0..N : upTo[n] =
         IF n = 0 THEN <<>>
         ELSE IF s[n] \in S THEN Append(upTo[n - 1], s[n]) ELSE upTo[n - 1]
  BY <1>8, Zenon
<1>9. \A k \in 0..N : upTo[k] = g[k]
  <2> DEFINE G == {k \in 0..N : upTo[k] = g[k]}
  <2>1. 0 \in G
    BY <1>n, <1>8, <1>5 DEF Sifting
  <2>2. ASSUME NEW k \in 0..N, k # N, k \in G PROVE k + 1 \in G
    <3>1. k + 1 \in 1..N /\ k + 1 \in 0..N /\ (k + 1) - 1 = k
      BY <1>n, <2>2
    <3>2. upTo[k + 1] = IF s[k + 1] \in S THEN Append(upTo[k], s[k + 1]) ELSE upTo[k]
      BY <1>8a, <3>1
    <3>3. g[k + 1] = IF s[k + 1] \in S THEN Append(g[k], s[k + 1]) ELSE g[k]
      BY <1>4, <3>1
    <3> QED BY <2>2, <3>1, <3>2, <3>3
  <2> HIDE DEF G
  <2>3. \A k \in 0..N : k \in G
    BY <1>n, <2>1, <2>2, UpTo
  <2> QED BY <2>3 DEF G
<1> QED BY <1>n, <1>5, <1>6, <1>9

\* Two sequences that begin alike, sifted alike, go alike as far.
\* t goes on from s, and S keeps of s what T keeps of it.
KeepAlike(s, S, t, T) ==
  /\ Len(s) \in Nat /\ Len(t) \in Nat /\ Len(s) <= Len(t)
  /\ \A k \in 1..Len(s) : s[k] = t[k] /\ (s[k] \in S <=> t[k] \in T)

LEMMA SiftingAlike ==
  ASSUME NEW s, NEW t, NEW S, NEW T, NEW g, NEW h,
         Sifting(g, s, S), Sifting(h, t, T), KeepAlike(s, S, t, T)
  PROVE  \A k \in 0..Len(s) : g[k] = h[k]
<1>0. /\ Len(s) \in Nat /\ Len(t) \in Nat /\ Len(s) <= Len(t)
      /\ \A k \in 1..Len(s) : s[k] = t[k] /\ (s[k] \in S <=> t[k] \in T)
  BY DEF KeepAlike
<1> DEFINE n == Len(s)
<1> DEFINE G == {k \in 0..n : g[k] = h[k]}
<1>1. 0 \in G
  BY DEF Sifting
<1>2. ASSUME NEW k \in 0..n, k # n, k \in G PROVE k + 1 \in G
  <2>1. k + 1 \in 1..n /\ k + 1 \in 1..Len(s) /\ k + 1 \in 1..Len(t) /\ (k + 1) - 1 = k
    BY <1>0, <1>2
  <2>2. g[k + 1] = IF s[k + 1] \in S THEN Append(g[k], s[k + 1]) ELSE g[k]
    BY <2>1 DEF Sifting
  <2>3. h[k + 1] = IF t[k + 1] \in T THEN Append(h[k], t[k + 1]) ELSE h[k]
    BY <2>1 DEF Sifting
  <2> QED BY <1>0, <1>2, <2>1, <2>2, <2>3
<1> HIDE DEF G
<1>3. \A k \in 0..n : k \in G
  BY <1>0, <1>1, <1>2, UpTo
<1> QED BY <1>3 DEF G

LEMMA SiftedAppend ==
  ASSUME NEW X, NEW s \in Seq(X), NEW e \in X, NEW S
  PROVE  Sifted(Append(s, e), S) =
           IF e \in S THEN Append(Sifted(s, S), e) ELSE Sifted(s, S)
<1> DEFINE t == Append(s, e)
<1>1. t \in Seq(X) /\ Len(t) = Len(s) + 1 /\ Len(s) \in Nat /\ t[Len(t)] = e
      /\ \A k \in 1..Len(s) : t[k] = s[k]
  OBVIOUS
<1> HIDE DEF t
<1>2. PICK g \in [0..Len(s) -> Seq(X)] : Sifting(g, s, S) /\ Sifted(s, S) = g[Len(s)]
  BY SiftedSteps
<1>3. PICK h \in [0..Len(t) -> Seq(X)] : Sifting(h, t, S) /\ Sifted(t, S) = h[Len(t)]
  BY <1>1, SiftedSteps
<1>4. \A k \in 0..Len(s) : g[k] = h[k]
  <2>1. KeepAlike(s, S, t, S)
    BY <1>1 DEF KeepAlike
  <2> QED BY <1>2, <1>3, <2>1, SiftingAlike
<1>5. h[Len(t)] = IF e \in S THEN Append(h[Len(s)], e) ELSE h[Len(s)]
  <2>1. Len(t) \in 1..Len(t) /\ Len(t) - 1 = Len(s)
    BY <1>1
  <2> QED BY <1>1, <1>3, <2>1 DEF Sifting
<1>6. g[Len(s)] = h[Len(s)]
  BY <1>1, <1>4
<1> QED BY <1>2, <1>3, <1>5, <1>6 DEF t

LEMMA SiftedSame ==
  ASSUME NEW X, NEW s \in Seq(X), NEW S, NEW T, \A k \in 1..Len(s) : s[k] \in S <=> s[k] \in T
  PROVE  Sifted(s, S) = Sifted(s, T)
<1>1. Len(s) \in Nat
  OBVIOUS
<1>2. PICK g \in [0..Len(s) -> Seq(X)] : Sifting(g, s, S) /\ Sifted(s, S) = g[Len(s)]
  BY SiftedSteps
<1>3. PICK h \in [0..Len(s) -> Seq(X)] : Sifting(h, s, T) /\ Sifted(s, T) = h[Len(s)]
  BY SiftedSteps
<1>4. \A k \in 0..Len(s) : g[k] = h[k]
  <2>1. KeepAlike(s, S, s, T)
    BY <1>1 DEF KeepAlike
  <2> QED BY <1>2, <1>3, <2>1, SiftingAlike
<1> QED BY <1>1, <1>2, <1>3, <1>4

\* The members of t are those of the first k of s that are in S, at positions that grow.
Picks(p, t, s, S, k) ==
  /\ p \in [1..Len(t) -> 1..k]
  /\ \A i, j \in 1..Len(t) : i < j => p[i] < p[j]
  /\ \A i \in 1..Len(t) : t[i] = s[p[i]] /\ t[i] \in S
  /\ \A m \in 1..k : s[m] \in S => \E i \in 1..Len(t) : p[i] = m

LEMMA SiftedPicks ==
  ASSUME NEW X, NEW s \in Seq(X), NEW S
  PROVE  Sifted(s, S) \in Seq(X) /\ \E p : Picks(p, Sifted(s, S), s, S, Len(s))
<1>n. Len(s) \in Nat
  OBVIOUS
<1>1. PICK g \in [0..Len(s) -> Seq(X)] : Sifting(g, s, S) /\ Sifted(s, S) = g[Len(s)]
  BY SiftedSteps
<1> DEFINE G == {k \in 0..Len(s) : \E p : Picks(p, g[k], s, S, k)}
<1>2. 0 \in G
  <2>1. Picks(<<>>, <<>>, s, S, 0)
    BY DEF Picks
  <2> QED BY <1>n, <1>1, <2>1 DEF Sifting
<1>3. ASSUME NEW k \in 0..Len(s), k # Len(s), k \in G PROVE k + 1 \in G
  <2>1. k + 1 \in 1..Len(s) /\ k + 1 \in 0..Len(s) /\ (k + 1) - 1 = k
    BY <1>n, <1>3
  <2>2. PICK p : Picks(p, g[k], s, S, k)
    BY <1>3
  <2>3. g[k] \in Seq(X) /\ s[k + 1] \in X
    BY <2>1
  <2>4. CASE s[k + 1] \notin S
    <3>1. g[k + 1] = g[k]
      BY <1>1, <2>1, <2>4 DEF Sifting
    <3>2. Picks(p, g[k], s, S, k + 1)
      <4>1. p \in [1..Len(g[k]) -> 1..(k + 1)]
        BY <2>2, <2>1 DEF Picks
      <4>2. \A m \in 1..(k + 1) : m \in 1..k \/ m = k + 1
        BY <2>1
      <4> QED BY <2>2, <2>4, <4>1, <4>2 DEF Picks
    <3> QED BY <2>1, <3>1, <3>2
  <2>5. CASE s[k + 1] \in S
    <3> DEFINE t == Append(g[k], s[k + 1])
               q == [i \in 1..Len(t) |-> IF i = Len(t) THEN k + 1 ELSE p[i]]
    <3>1. g[k + 1] = t
      BY <1>1, <2>1, <2>5 DEF Sifting
    <3>2. /\ Len(t) = Len(g[k]) + 1 /\ Len(g[k]) \in Nat /\ t[Len(t)] = s[k + 1]
          /\ \A i \in 1..Len(g[k]) : t[i] = g[k][i]
      BY <2>3
    <3>2q. \A i \in 1..Len(t) : q[i] = IF i = Len(t) THEN k + 1 ELSE p[i]
      OBVIOUS
    <3>2d. q = [i \in 1..Len(t) |-> q[i]]
      OBVIOUS
    <3> HIDE DEF t, q
    <3>3. \A i \in 1..Len(t) : i = Len(t) \/ i \in 1..Len(g[k])
      BY <3>2
    <3>4a. \A i \in 1..Len(g[k]) : i \in 1..Len(t) /\ i # Len(t)
      BY <3>2
    <3>4b. \A i \in 1..Len(g[k]) : p[i] \in 1..k
      BY <2>2 DEF Picks
    <3>4. \A i \in 1..Len(g[k]) : p[i] \in 1..k /\ q[i] = p[i] /\ i # Len(t)
      BY <3>4a, <3>4b, <3>2q
    <3>5. q[Len(t)] = k + 1
      <4>1. Len(t) \in 1..Len(t)
        BY <3>2
      <4> QED BY <4>1, <3>2q
    <3>6. q \in [1..Len(t) -> 1..(k + 1)]
      <4>1. \A i \in 1..Len(t) : q[i] \in 1..(k + 1)
        BY <2>1, <3>3, <3>4, <3>5
      <4> QED BY <4>1, <3>2d
    <3>7. ASSUME NEW i \in 1..Len(t), NEW j \in 1..Len(t), i < j PROVE q[i] < q[j]
      <4>1. i \in 1..Len(g[k])
        BY <3>7, <3>2, <3>3
      <4>2. CASE j = Len(t)
        BY <2>1, <4>1, <4>2, <3>4, <3>5
      <4>3. CASE j \in 1..Len(g[k])
        BY <2>2, <3>4, <3>7, <4>1, <4>3 DEF Picks
      <4> QED BY <3>3, <4>2, <4>3
    <3>8. \A i \in 1..Len(t) : t[i] = s[q[i]] /\ t[i] \in S
      BY <2>2, <2>5, <3>2, <3>3, <3>4, <3>5 DEF Picks
    <3>9. ASSUME NEW m \in 1..(k + 1), s[m] \in S PROVE \E i \in 1..Len(t) : q[i] = m
      <4>1. CASE m = k + 1
        BY <3>2, <3>5, <4>1
      <4>2. CASE m # k + 1
        <5>1. m \in 1..k
          BY <2>1, <4>2
        <5>2. PICK i \in 1..Len(g[k]) : p[i] = m
          BY <2>2, <3>9, <5>1 DEF Picks
        <5> QED BY <3>2, <3>4, <5>2
      <4> QED BY <4>1, <4>2
    <3>10. Picks(q, t, s, S, k + 1)
      BY <3>6, <3>7, <3>8, <3>9 DEF Picks
    <3> QED BY <2>1, <3>1, <3>10
  <2> QED BY <2>4, <2>5
<1> HIDE DEF G
<1>4. \A k \in 0..Len(s) : k \in G
  BY <1>n, <1>2, <1>3, UpTo
<1>5. Len(s) \in G
  BY <1>n, <1>4
<1> QED BY <1>n, <1>1, <1>5 DEF G

LEMMA SiftedRange ==
  ASSUME NEW X, NEW s \in Seq(X), NEW S
  PROVE  /\ Sifted(s, S) \in Seq(X)
         /\ \A x : x \in Range(Sifted(s, S)) <=> x \in S /\ x \in Range(s)
<1> DEFINE t == Sifted(s, S)
<1>1. t \in Seq(X)
  BY SiftedPicks
<1>2. PICK p : Picks(p, t, s, S, Len(s))
  BY SiftedPicks
<1> HIDE DEF t
<1>3. DOMAIN t = 1..Len(t) /\ DOMAIN s = 1..Len(s)
  BY <1>1
<1>4. \A x : x \in Range(t) <=> \E i \in 1..Len(t) : t[i] = x
  BY <1>3 DEF Range
<1>5. \A x : x \in Range(s) <=> \E i \in 1..Len(s) : s[i] = x
  BY <1>3 DEF Range
<1>6. ASSUME NEW x, x \in Range(t) PROVE x \in S /\ x \in Range(s)
  BY <1>2, <1>4, <1>5, <1>6 DEF Picks
<1>7. ASSUME NEW x, x \in S, x \in Range(s) PROVE x \in Range(t)
  <2>1. PICK m \in 1..Len(s) : s[m] = x
    BY <1>5, <1>7
  <2>2. PICK i \in 1..Len(t) : p[i] = m
    BY <1>2, <1>7, <2>1 DEF Picks
  <2> QED BY <1>2, <1>4, <2>1, <2>2 DEF Picks
<1> QED BY <1>1, <1>6, <1>7 DEF t

-----------------------------------------------------------------------------
(* One sequence after another *)

LEMMA Chained ==
  ASSUME NEW X, NEW s \in Seq(X), NEW t \in Seq(X)
  PROVE  /\ s \o t \in Seq(X)
         /\ \A x : x \in Range(s \o t) <=> x \in Range(s) \/ x \in Range(t)
<1> DEFINE u == s \o t
<1>1. /\ u \in Seq(X) /\ DOMAIN u = 1..Len(u) /\ DOMAIN s = 1..Len(s) /\ DOMAIN t = 1..Len(t)
      /\ Len(u) = Len(s) + Len(t) /\ Len(s) \in Nat /\ Len(t) \in Nat
      /\ \A i \in 1..Len(s) : u[i] = s[i]
      /\ \A i \in 1..Len(u) : i > Len(s) => u[i] = t[i - Len(s)]
  OBVIOUS
<1> HIDE DEF u
<1>2. ASSUME NEW x, x \in Range(u) PROVE x \in Range(s) \/ x \in Range(t)
  <2>1. PICK i \in 1..Len(u) : u[i] = x
    BY <1>1, <1>2 DEF Range
  <2>2. CASE i <= Len(s)
    <3>1. i \in DOMAIN s /\ s[i] = x
      BY <1>1, <2>1, <2>2
    <3> QED BY <3>1 DEF Range
  <2>3. CASE i > Len(s)
    <3>1. i - Len(s) \in DOMAIN t /\ t[i - Len(s)] = x
      BY <1>1, <2>1, <2>3
    <3> QED BY <3>1 DEF Range
  <2> QED BY <1>1, <2>2, <2>3
<1>3. ASSUME NEW x, x \in Range(s) PROVE x \in Range(u)
  <2>1. PICK i \in 1..Len(s) : s[i] = x
    BY <1>1, <1>3 DEF Range
  <2>2. i \in DOMAIN u /\ u[i] = x
    BY <1>1, <2>1
  <2> QED BY <2>2 DEF Range
<1>4. ASSUME NEW x, x \in Range(t) PROVE x \in Range(u)
  <2>1. PICK i \in 1..Len(t) : t[i] = x
    BY <1>1, <1>4 DEF Range
  <2>2. PICK j : j = i + Len(s)
    OBVIOUS
  <2>3. j \in DOMAIN u /\ j > Len(s) /\ j - Len(s) = i
    BY <1>1, <2>2
  <2>4. u[j] = x
    BY <1>1, <2>1, <2>3
  <2> QED BY <2>3, <2>4 DEF Range
<1> QED BY <1>1, <1>2, <1>3, <1>4 DEF u

LEMMA FlattenedSteps ==
  ASSUME NEW X, NEW ss \in Seq(Seq(X))
  PROVE  \E g \in [0..Len(ss) -> Seq(X)] :
           /\ g[0] = <<>> /\ \A k \in 1..Len(ss) : g[k] = g[k - 1] \o ss[k]
           /\ Flattened(ss) = g[Len(ss)]
<1> DEFINE N == Len(ss)
           step == [k \in 1..N |-> [q \in Seq(X) |-> q \o ss[k]]]
<1>n. N \in Nat /\ \A k \in 1..N : ss[k] \in Seq(X)
  OBVIOUS
<1>1. step \in [1..N -> [Seq(X) -> Seq(X)]]
  <2>1. \A k \in 1..N : \A q \in Seq(X) : q \o ss[k] \in Seq(X)
    BY <1>n
  <2> QED BY <2>1
<1>2. <<>> \in Seq(X)
  OBVIOUS
<1>3. PICK g \in [0..N -> Seq(X)] : GoesOn(g, N, <<>>, step)
  <2> HIDE DEF step, N
  <2> QED BY <1>n, <1>1, <1>2, Recursion
<1>4. ASSUME NEW k \in 1..N PROVE g[k] = g[k - 1] \o ss[k]
  <2>1. k - 1 \in 0..N
    BY <1>n
  <2>2. g[k - 1] \in Seq(X)
    BY <2>1
  <2>3. g[k] = step[k][g[k - 1]]
    BY <1>3 DEF GoesOn
  <2> QED BY <2>2, <2>3
<1>5. g[0] = <<>>
  BY <1>3 DEF GoesOn
<1> HIDE DEF step
<1> DEFINE upTo[n \in 0..Len(ss)] == IF n = 0 THEN <<>> ELSE upTo[n - 1] \o ss[n]
<1>6. Flattened(ss) = upTo[N]
  BY DEF Flattened
<1>7. g = [n \in 0..Len(ss) |-> IF n = 0 THEN <<>> ELSE g[n - 1] \o ss[n]]
  <2> HIDE DEF upTo
  <2> DEFINE v(n) == IF n = 0 THEN <<>> ELSE g[n - 1] \o ss[n]
  <2>1. ASSUME NEW n \in 0..N PROVE g[n] = v(n)
    <3>1. CASE n = 0
      BY <1>5, <3>1
    <3>2. CASE n # 0
      <4>1. n \in 1..N
        BY <1>n, <3>2
      <4> QED BY <1>4, <3>2, <4>1
    <3> QED BY <3>1, <3>2
  <2>2. g = [n \in 0..N |-> g[n]]
    OBVIOUS
  <2> HIDE DEF v
  <2>3. g = [n \in 0..N |-> v(n)]
    BY <2>1, <2>2
  <2> QED BY <2>3 DEF v
<1>8. upTo = [n \in 0..Len(ss) |-> IF n = 0 THEN <<>> ELSE upTo[n - 1] \o ss[n]]
  BY <1>7
<1> HIDE DEF upTo
<1>8a. \A n \in 0..N : upTo[n] = IF n = 0 THEN <<>> ELSE upTo[n - 1] \o ss[n]
  BY <1>8, Zenon
<1>9. \A k \in 0..N : upTo[k] = g[k]
  <2> DEFINE G == {k \in 0..N : upTo[k] = g[k]}
  <2>1. 0 \in G
    BY <1>n, <1>8a, <1>5
  <2>2. ASSUME NEW k \in 0..N, k # N, k \in G PROVE k + 1 \in G
    <3>1. k + 1 \in 1..N /\ k + 1 \in 0..N /\ (k + 1) - 1 = k /\ k + 1 # 0
      BY <1>n, <2>2
    <3>2. upTo[k + 1] = upTo[k] \o ss[k + 1]
      BY <1>8a, <3>1
    <3>3. g[k + 1] = g[k] \o ss[k + 1]
      BY <1>4, <3>1
    <3> QED BY <2>2, <3>1, <3>2, <3>3
  <2> HIDE DEF G
  <2>3. \A k \in 0..N : k \in G
    BY <1>n, <2>1, <2>2, UpTo
  <2> QED BY <2>3 DEF G
<1>10. Flattened(ss) = g[N] /\ \A k \in 1..N : g[k] = g[k - 1] \o ss[k]
  <2>1. N \in 0..N
    BY <1>n
  <2> HIDE DEF N
  <2> QED BY <1>4, <1>6, <1>9, <2>1
<1> QED BY <1>5, <1>10

\* What is in one of the sequences, and nothing else.
LEMMA FlattenedRange ==
  ASSUME NEW X, NEW ss \in Seq(Seq(X))
  PROVE  /\ Flattened(ss) \in Seq(X)
         /\ \A x : x \in Range(Flattened(ss)) <=> \E k \in DOMAIN ss : x \in Range(ss[k])
<1> DEFINE N == Len(ss)
<1>n. N \in Nat /\ DOMAIN ss = 1..N /\ \A k \in 1..N : ss[k] \in Seq(X)
  OBVIOUS
<1>1. PICK g \in [0..N -> Seq(X)] :
        /\ g[0] = <<>> /\ \A k \in 1..N : g[k] = g[k - 1] \o ss[k]
        /\ Flattened(ss) = g[N]
  BY FlattenedSteps
<1> HIDE DEF N
<1> DEFINE G == {k \in 0..N : \A x : x \in Range(g[k]) <=> \E j \in 1..k : x \in Range(ss[j])}
<1>2. 0 \in G
  BY <1>n, <1>1 DEF Range
<1>3. ASSUME NEW k \in 0..N, k # N, k \in G PROVE k + 1 \in G
  <2>1. k + 1 \in 1..N /\ k + 1 \in 0..N /\ (k + 1) - 1 = k
        /\ \A j : j \in 1..(k + 1) <=> j \in 1..k \/ j = k + 1
    BY <1>n, <1>3
  <2>2. g[k + 1] = g[k] \o ss[k + 1] /\ g[k] \in Seq(X) /\ ss[k + 1] \in Seq(X)
    BY <1>n, <1>1, <2>1
  <2>3. \A x : x \in Range(g[k + 1]) <=> x \in Range(g[k]) \/ x \in Range(ss[k + 1])
    BY <2>2, Chained
  <2> QED BY <1>3, <2>1, <2>3
<1> HIDE DEF G
<1>4. \A k \in 0..N : k \in G
  BY <1>n, <1>2, <1>3, UpTo
<1>5. N \in G /\ N \in 0..N
  BY <1>n, <1>4
<1> QED BY <1>n, <1>1, <1>5 DEF G
=============================================================================
