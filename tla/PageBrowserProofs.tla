--------------------------- MODULE PageBrowserProofs ---------------------------
(***************************************************************************)
(* The page browser, for any server, any pages and any sizes: links belong *)
(* to the page they stand on, back leads to where the reader came from,    *)
(* no connection is left open, and the viewer shows the text it was given. *)
(* What the last one rests on comes first: what is picked from a sequence, *)
(* a text without its spaces, the lines of a gemtext, how a line of text   *)
(* is parted, and what the lines of the window tell.  Behind the viewer    *)
(* and the invariants stand the functions a page is read with: lines       *)
(* without their marks, addresses that are read back, and paths without    *)
(* dots.                                                                   *)
(***************************************************************************)
EXTENDS PageBrowser, SequenceTheorems, WellFoundedInduction, FiniteSetTheorems, TLAPS

--------------------------------------------------------------------------------
(* The smallest and the greatest of some numbers.                          *)

\* Min finds the smallest of some natural numbers.
LEMMA MinIsLeast ==
  ASSUME NEW S \in SUBSET Nat, S # {}
  PROVE  Min(S) \in S /\ \A k \in S : Min(S) <= k
<1> DEFINE Less == OpToRel(<, Nat)
<1>1. PICK x \in S : \A y \in S : <<y, x>> \notin Less
  BY NatLessThanWellFounded, WFMin
<1>2. \A y \in S : y < x => <<y, x>> \in Less
  BY DEF OpToRel
<1> HIDE DEF Less
<1>3. \A y \in S : ~(y < x)
  BY <1>1, <1>2, Zenon
<1>4. \A y \in S : x <= y
  BY <1>3
<1> QED
  BY <1>4 DEF Min

\* Max finds the greatest of some numbers between two bounds.
LEMMA MaxIsGreatest ==
  ASSUME NEW lo \in Int, NEW hi \in Int, NEW S \in SUBSET (lo .. hi), S # {}
  PROVE  Max(S) \in S /\ \A k \in S : k <= Max(S)
<1> DEFINE Distances == {hi - k : k \in S}
<1>1. Distances \in SUBSET Nat /\ Distances # {}
  <2>1. \A k \in S : hi - k \in Nat
    OBVIOUS
  <2>2. PICK k \in S : TRUE
    OBVIOUS
  <2>3. hi - k \in Distances
    BY <2>2
  <2> QED
    BY <2>1, <2>3
<1>2. PICK least \in Distances : \A other \in Distances : least <= other
  BY <1>1, MinIsLeast, Zenon
<1>3. PICK k \in S : least = hi - k
  BY <1>2
<1>4. \A other \in S : k >= other
  BY <1>2, <1>3
<1> QED
  BY <1>4 DEF Max

--------------------------------------------------------------------------------
(* Picking entries of a sequence.                                          *)

\* What the fold of Picked computes, for each part of K.
Picks(f, s, K) ==
  f = [S \in SUBSET K |-> IF S = {} THEN <<>> ELSE Append(f[S \ {Max(S)}], s[Max(S)])]

SameAt(s, t, K) == \A k \in K : s[k] = t[k]

\* The greatest of some places.
LEMMA GreatestPlace ==
  ASSUME NEW n \in Nat, NEW S \in SUBSET (1 .. n), S # {}
  PROVE  /\ Max(S) \in 1 .. n /\ Max(S) \in S /\ \A k \in S : k <= Max(S)
         /\ S \ {Max(S)} \in SUBSET (1 .. Max(S) - 1)
<1>1. 1 \in Int /\ n \in Int
  OBVIOUS
<1>2. Max(S) \in S /\ \A k \in S : k <= Max(S)
  BY <1>1, MaxIsGreatest, Zenon
<1> DEFINE m == Max(S)
<1> HIDE DEF m
<1>3. \A k \in S : k \in 1 .. n /\ k <= m
  BY <1>2 DEF m
<1>4. m \in 1 .. n
  BY <1>2 DEF m
<1>5. S \ {m} \in SUBSET (1 .. m - 1)
  BY <1>3, <1>4
<1> QED
  BY <1>2, <1>4, <1>5 DEF m

LEMMA PicksExist ==
  ASSUME NEW s, NEW n \in Nat
  PROVE  \E f : Picks(f, s, 1 .. n)
<1> DEFINE Lacking == {m \in 0 .. n : ~\E f : Picks(f, s, 1 .. m)}
           Rule(f, S) == IF S = {} THEN <<>> ELSE Append(f[S \ {Max(S)}], s[Max(S)])
<1>1. \E f : Picks(f, s, 1 .. 0)
  <2> DEFINE f == [S \in SUBSET (1 .. 0) |-> <<>>]
  <2>1. \A S \in SUBSET (1 .. 0) : S = {}
    OBVIOUS
  <2>2. f = [S \in SUBSET (1 .. 0) |-> Rule(f, S)]
    BY <2>1
  <2> QED
    BY <2>2 DEF Picks
<1>2. ASSUME NEW m \in 1 .. n, NEW f, Picks(f, s, 1 .. m - 1)
      PROVE  \E g : Picks(g, s, 1 .. m)
  <2> DEFINE g == [S \in SUBSET (1 .. m) |-> IF m \in S THEN Append(f[S \ {m}], s[m]) ELSE f[S]]
  <2>1. m \in Nat /\ \A k : k \in 1 .. m <=> k \in 1 .. m - 1 \/ k = m
    OBVIOUS
  <2>2. m \notin 1 .. m - 1
    OBVIOUS
  <2>3. \A S \in SUBSET (1 .. m) : m \notin S => S \in SUBSET (1 .. m - 1)
    BY <2>1
  <2>4. \A S \in SUBSET (1 .. m - 1) : f[S] = Rule(f, S) /\ g[S] = f[S]
    <3>1. \A S \in SUBSET (1 .. m - 1) : S \in SUBSET (1 .. m) /\ m \notin S
      BY <2>1, <2>2
    <3> QED
      BY <1>2, <3>1 DEF Picks
  <2>5. ASSUME NEW S \in SUBSET (1 .. m)
        PROVE  g[S] = Rule(g, S)
    <3>1. CASE m \in S
      <4>1. Max(S) = m
        <5>1. Max(S) \in S /\ \A k \in S : k <= Max(S)
          BY <2>1, <3>1, GreatestPlace
        <5>2. Max(S) \in 1 .. m /\ m <= Max(S)
          BY <3>1, <5>1
        <5> DEFINE x == Max(S)
        <5> HIDE DEF x
        <5>3. x = m
          BY <2>1, <5>2 DEF x
        <5> QED
          BY <5>3 DEF x
      <4>2. S \ {m} \in SUBSET (1 .. m - 1)
        BY <2>1
      <4>3. g[S \ {m}] = f[S \ {m}]
        BY <2>4, <4>2
      <4>4. g[S] = Append(f[S \ {m}], s[m])
        BY <3>1
      <4> QED
        BY <3>1, <4>1, <4>3, <4>4
    <3>2. CASE m \notin S
      <4>1. S \in SUBSET (1 .. m - 1)
        BY <2>3, <3>2
      <4>2. g[S] = Rule(f, S)
        BY <2>4, <4>1
      <4>3. S # {} => g[S \ {Max(S)}] = f[S \ {Max(S)}]
        <5>1. S \ {Max(S)} \in SUBSET (1 .. m - 1)
          BY <4>1
        <5> QED
          BY <2>4, <5>1
      <4> QED
        BY <4>2, <4>3
    <3> QED
      BY <3>1, <3>2
  <2>6. g = [S \in SUBSET (1 .. m) |-> g[S]]
    OBVIOUS
  <2> HIDE DEF g, Rule
  <2>7. g = [S \in SUBSET (1 .. m) |-> Rule(g, S)]
    BY <2>5, <2>6
  <2>8. Picks(g, s, 1 .. m)
    BY <2>7 DEF Picks, Rule
  <2> QED
    BY <2>8
<1>3. Lacking = {}
  <2> SUFFICES ASSUME Lacking # {} PROVE FALSE
    OBVIOUS
  <2>1. Lacking \in SUBSET Nat
    OBVIOUS
  <2> DEFINE m == Min(Lacking)
  <2> HIDE DEF Lacking
  <2>2. m \in Lacking /\ \A k \in Lacking : m <= k
    BY <2>1, MinIsLeast, Zenon
  <2> HIDE DEF m
  <2>3. m \in 0 .. n /\ ~\E f : Picks(f, s, 1 .. m)
    BY <2>2 DEF Lacking
  <2>4. m # 0
    BY <1>1, <2>3
  <2>5. m \in 1 .. n /\ m - 1 \in 0 .. n /\ m - 1 < m
    BY <2>3, <2>4
  <2>6. m - 1 \notin Lacking
    BY <2>2, <2>3, <2>5
  <2>7. PICK f : Picks(f, s, 1 .. m - 1)
    BY <2>5, <2>6 DEF Lacking
  <2> QED
    BY <1>2, <2>3, <2>5, <2>7
<1>4. n \in 0 .. n
  OBVIOUS
<1> QED
  BY <1>3, <1>4

\* What is picked depends on the places and on the entries there.
LEMMA PicksAgree ==
  ASSUME NEW n \in Nat, NEW K \in SUBSET (1 .. n), NEW L \in SUBSET (1 .. n),
         NEW s, NEW t, NEW f, NEW g, Picks(f, s, K), Picks(g, t, L),
         NEW J \in SUBSET K, J \in SUBSET L, SameAt(s, t, J)
  PROVE  f[J] = g[J]
<1> DEFINE Part(m) == {S \in SUBSET J : S \in SUBSET (1 .. m)}
           Agrees(m) == \A S \in Part(m) : f[S] = g[S]
           Wrong == {m \in 0 .. n : ~Agrees(m)}
<1>0. \A S \in SUBSET J : S \in SUBSET K /\ S \in SUBSET L
  OBVIOUS
<1>1. \A S \in SUBSET J :
        /\ f[S] = IF S = {} THEN <<>> ELSE Append(f[S \ {Max(S)}], s[Max(S)])
        /\ g[S] = IF S = {} THEN <<>> ELSE Append(g[S \ {Max(S)}], t[Max(S)])
  BY <1>0 DEF Picks
<1>2. ASSUME NEW m \in 0 .. n, \A k \in 0 .. m - 1 : Agrees(k)
      PROVE  Agrees(m)
  <2> SUFFICES ASSUME NEW S \in Part(m)
               PROVE  f[S] = g[S]
    OBVIOUS
  <2>1. CASE S = {}
    BY <1>1, <2>1
  <2>2. CASE S # {}
    <3> DEFINE x == Max(S)
    <3>1. x \in 1 .. m /\ x \in S /\ S \ {x} \in SUBSET (1 .. x - 1)
      <4>1. m \in Nat /\ S \in SUBSET (1 .. m)
        OBVIOUS
      <4> QED
        BY <2>2, <4>1, GreatestPlace, Zenon
    <3> HIDE DEF x
    <3>2. x - 1 \in 0 .. m - 1
      BY <3>1
    <3>3. S \ {x} \in Part(x - 1)
      BY <3>1
    <3>4. f[S \ {x}] = g[S \ {x}]
      BY <1>2, <3>2, <3>3
    <3>5. s[x] = t[x]
      BY <3>1 DEF SameAt
    <3>6. f[S] = Append(f[S \ {x}], s[x]) /\ g[S] = Append(g[S \ {x}], t[x])
      BY <1>1, <2>2 DEF x
    <3> QED
      BY <3>4, <3>5, <3>6
  <2> QED
    BY <2>1, <2>2
<1> HIDE DEF Agrees
<1>3. Wrong = {}
  <2> SUFFICES ASSUME Wrong # {} PROVE FALSE
    OBVIOUS
  <2>1. Wrong \in SUBSET Nat
    OBVIOUS
  <2> DEFINE m == Min(Wrong)
  <2> HIDE DEF Wrong
  <2>2. m \in Wrong /\ \A k \in Wrong : m <= k
    BY <2>1, MinIsLeast, Zenon
  <2> HIDE DEF m
  <2>3. m \in 0 .. n /\ ~Agrees(m)
    BY <2>2 DEF Wrong
  <2>4. \A k \in 0 .. m - 1 : k \in 0 .. n /\ ~(m <= k)
    BY <2>3
  <2>5. \A k \in 0 .. m - 1 : Agrees(k)
    BY <2>2, <2>4 DEF Wrong
  <2> QED
    BY <1>2, <2>3, <2>5
<1>4. n \in 0 .. n
  OBVIOUS
<1>5. Agrees(n)
  BY <1>3, <1>4
<1>6. J \in Part(n)
  OBVIOUS
<1> QED
  BY <1>5, <1>6 DEF Agrees

\* What Picked computes.
LEMMA PickedIs ==
  ASSUME NEW s, NEW n \in Nat, NEW K \in SUBSET (1 .. n)
  PROVE  \E f : Picks(f, s, K) /\ Picked(s, K) = f[K]
<1>1. PICK g : Picks(g, s, 1 .. n)
  BY PicksExist
<1> DEFINE h == [S \in SUBSET K |-> g[S]]
           f == CHOOSE f : Picks(f, s, K)
<1>2. Picks(h, s, K)
  <2>1. \A S \in SUBSET K : g[S] = IF S = {} THEN <<>> ELSE Append(g[S \ {Max(S)}], s[Max(S)])
    BY <1>1 DEF Picks
  <2>2. \A S \in SUBSET K : S \ {Max(S)} \in SUBSET K
    OBVIOUS
  <2>3. \A S \in SUBSET K : h[S] = IF S = {} THEN <<>> ELSE Append(h[S \ {Max(S)}], s[Max(S)])
    BY <2>1, <2>2
  <2>4. h = [S \in SUBSET K |-> h[S]]
    OBVIOUS
  <2> HIDE DEF h
  <2> QED
    BY <2>3, <2>4 DEF Picks
<1>3. Picks(f, s, K)
  BY <1>2, Zenon
<1>4. Picked(s, K) = f[K]
  BY Zenon DEF Picked, MapThenFoldSet, Picks
<1> QED
  BY <1>3, <1>4, Zenon

LEMMA PickedNone ==
  ASSUME NEW s
  PROVE  Picked(s, {}) = <<>>
<1>1. PICK f : Picks(f, s, {}) /\ Picked(s, {}) = f[{}]
  <2>1. 0 \in Nat /\ {} \in SUBSET (1 .. 0)
    OBVIOUS
  <2> QED
    BY <2>1, PickedIs, Zenon
<1> QED
  BY <1>1 DEF Picks

\* One more place behind the others.
LEMMA PickedMore ==
  ASSUME NEW s, NEW m \in Nat \ {0}, NEW K \in SUBSET (1 .. m - 1)
  PROVE  Picked(s, K \union {m}) = Append(Picked(s, K), s[m])
<1> DEFINE L == K \union {m}
<1>1. m \in Nat /\ K \in SUBSET (1 .. m) /\ L \in SUBSET (1 .. m) /\ L # {} /\ m \in L /\ L \ {m} = K
      /\ K \intersect L = K
  OBVIOUS
<1>2. PICK f : Picks(f, s, K) /\ Picked(s, K) = f[K]
  BY <1>1, PickedIs
<1>3. PICK g : Picks(g, s, L) /\ Picked(s, L) = g[L]
  BY <1>1, PickedIs
<1>4. Max(L) = m
  <2> DEFINE x == Max(L)
  <2>1. x \in 1 .. m /\ \A k \in L : k <= x
    BY <1>1, GreatestPlace
  <2> HIDE DEF x, L
  <2>2. x = m
    BY <1>1, <2>1
  <2> QED
    BY <2>2 DEF x
<1> HIDE DEF L
<1>5. g[L] = Append(g[K], s[m])
  <2>1. L \in SUBSET L
    OBVIOUS
  <2>2. g[L] = IF L = {} THEN <<>> ELSE Append(g[L \ {Max(L)}], s[Max(L)])
    BY <1>3, <2>1 DEF Picks
  <2> QED
    BY <1>1, <1>4, <2>2
<1>6. f[K] = g[K]
  <2>1. K \in SUBSET K /\ K \in SUBSET L /\ SameAt(s, s, K)
    BY <1>1 DEF SameAt
  <2>2. Picks(f, s, K) /\ Picks(g, s, L)
    BY <1>2, <1>3
  <2> QED
    BY ONLY <1>1, <2>1, <2>2, PicksAgree
<1> QED
  BY <1>2, <1>3, <1>5, <1>6 DEF L

\* Only the entries that are picked matter.
LEMMA PickedSame ==
  ASSUME NEW s, NEW t, NEW n \in Nat, NEW K \in SUBSET (1 .. n), \A k \in K : s[k] = t[k]
  PROVE  Picked(s, K) = Picked(t, K)
<1>1. PICK f : Picks(f, s, K) /\ Picked(s, K) = f[K]
  BY PickedIs
<1>2. PICK g : Picks(g, t, K) /\ Picked(t, K) = g[K]
  BY PickedIs
<1>3. K \in SUBSET K /\ SameAt(s, t, K)
  BY DEF SameAt
<1>4. f[K] = g[K]
  <2>1. Picks(f, s, K) /\ Picks(g, t, K)
    BY <1>1, <1>2
  <2> QED
    BY ONLY <1>3, <2>1, PicksAgree, n \in Nat, K \in SUBSET (1 .. n)
<1> QED
  BY <1>1, <1>2, <1>4

\* Places up to a number.
UpToPlace(K, m) == {k \in K : k <= m}

\* One place more.
LEMMA PlacesGrow ==
  ASSUME NEW n \in Nat, NEW K \in SUBSET (1 .. n), NEW m \in 1 .. n
  PROVE  /\ UpToPlace(K, m - 1) \in SUBSET (1 .. m - 1)
         /\ m \notin UpToPlace(K, m - 1)
         /\ UpToPlace(K, m) = IF m \in K THEN UpToPlace(K, m - 1) \union {m} ELSE UpToPlace(K, m - 1)
         /\ IsFiniteSet(UpToPlace(K, m - 1)) /\ Cardinality(UpToPlace(K, m - 1)) \in Nat
         /\ Cardinality(UpToPlace(K, m)) = Cardinality(UpToPlace(K, m - 1)) + (IF m \in K THEN 1 ELSE 0)
<1> DEFINE U == UpToPlace(K, m - 1)
<1>0. \A k \in K : k \in Nat /\ k >= 1
  OBVIOUS
<1>1. U \in SUBSET (1 .. m - 1) /\ m \notin U
  <2>1. \A k \in U : k \in Nat /\ k >= 1 /\ k <= m - 1
    BY <1>0 DEF UpToPlace
  <2> HIDE DEF U
  <2>2. \A k \in U : k \in 1 .. m - 1 /\ k # m
    BY <2>1
  <2> QED
    BY <2>2
<1>2. UpToPlace(K, m) = IF m \in K THEN U \union {m} ELSE U
  <2>1. \A k \in K : k <= m <=> k <= m - 1 \/ k = m
    OBVIOUS
  <2> QED
    BY <2>1 DEF UpToPlace
<1>3. IsFiniteSet(U) /\ Cardinality(U) \in Nat
  <2>1. IsFiniteSet(1 .. m - 1)
    BY FS_Interval
  <2> HIDE DEF U
  <2> QED
    BY <1>1, <2>1, FS_Subset, FS_CardinalityType
<1>4. Cardinality(U \union {m}) = Cardinality(U) + 1
  <2> HIDE DEF U
  <2> QED
    BY <1>1, <1>3, FS_AddElement
<1> QED
  BY <1>1, <1>2, <1>3, <1>4

\* Places up to none, and up to the last.
LEMMA PlacesAtEnds ==
  ASSUME NEW n \in Nat, NEW K \in SUBSET (1 .. n)
  PROVE  UpToPlace(K, 0) = {} /\ Cardinality(UpToPlace(K, 0)) = 0 /\ UpToPlace(K, n) = K
<1>0. \A k \in K : ~(k <= 0) /\ k <= n
  OBVIOUS
<1>1. UpToPlace(K, 0) = {} /\ UpToPlace(K, n) = K
  BY <1>0 DEF UpToPlace
<1> QED
  BY <1>1, FS_EmptySet

\* What is picked: as many entries as there are places, each under the number of
\* places up to its own.
ArePicked(p, s, K, T) ==
  /\ p \in Seq(T) /\ Len(p) = Cardinality(K)
  /\ \A k \in K : /\ Cardinality(UpToPlace(K, k)) \in 1 .. Len(p)
                  /\ p[Cardinality(UpToPlace(K, k))] = s[k]

LEMMA PickedAre ==
  ASSUME NEW n \in Nat, NEW K \in SUBSET (1 .. n), NEW T, NEW s, \A k \in K : s[k] \in T
  PROVE  ArePicked(Picked(s, K), s, K, T)
<1> DEFINE U(m) == UpToPlace(K, m)
           Right(m) == /\ Picked(s, U(m)) \in Seq(T)
                       /\ Len(Picked(s, U(m))) = Cardinality(U(m))
                       /\ \A k \in U(m) : /\ Cardinality(U(k)) \in 1 .. Cardinality(U(m))
                                          /\ Picked(s, U(m))[Cardinality(U(k))] = s[k]
           Wrong == {m \in 0 .. n : ~Right(m)}
<1>1. Right(0)
  <2>1. U(0) = {} /\ Cardinality(U(0)) = 0
    BY PlacesAtEnds
  <2>2. Picked(s, U(0)) = <<>>
    BY <2>1, PickedNone
  <2>3. <<>> \in Seq(T) /\ Len(<<>>) = 0
    OBVIOUS
  <2>4. \A k \in U(0) : FALSE
    BY <2>1
  <2>5. Picked(s, U(0)) \in Seq(T) /\ Len(Picked(s, U(0))) = Cardinality(U(0))
    BY <2>1, <2>2, <2>3, Zenon
  <2> QED
    BY <2>4, <2>5, Zenon
<1>2. ASSUME NEW m \in 1 .. n, Right(m - 1)
      PROVE  Right(m)
  <2> DEFINE p == Picked(s, U(m - 1))
             c == Cardinality(U(m - 1))
  <2>1. /\ U(m - 1) \in SUBSET (1 .. m - 1) /\ m \notin U(m - 1)
        /\ U(m) = (IF m \in K THEN U(m - 1) \union {m} ELSE U(m - 1))
        /\ Cardinality(U(m - 1)) \in Nat
        /\ Cardinality(U(m)) = Cardinality(U(m - 1)) + (IF m \in K THEN 1 ELSE 0)
    BY PlacesGrow
  <2>2. CASE m \notin K
    <3>1. U(m) = U(m - 1)
      BY <2>1, <2>2
    <3> HIDE DEF U
    <3> QED
      BY <1>2, <3>1
  <2>3. CASE m \in K
    <3>1. U(m) = U(m - 1) \union {m} /\ Cardinality(U(m)) = c + 1 /\ c \in Nat
      BY <2>1, <2>3
    <3>2. Picked(s, U(m)) = Append(p, s[m])
      <4>1. m \in Nat \ {0}
        OBVIOUS
      <4> HIDE DEF U
      <4> QED
        BY <2>1, <3>1, <4>1, PickedMore
    <3>3. /\ p \in Seq(T) /\ Len(p) = c
          /\ \A k \in U(m - 1) : Cardinality(U(k)) \in 1 .. c /\ p[Cardinality(U(k))] = s[k]
      BY <1>2
    <3>4. s[m] \in T
      BY <2>3
    <3> DEFINE q == Append(p, s[m])
    <3> HIDE DEF p, c, U
    <3>5. q \in Seq(T) /\ Len(q) = c + 1 /\ q[c + 1] = s[m] /\ \A i \in 1 .. c : q[i] = p[i]
      BY <3>1, <3>3, <3>4
    <3> HIDE DEF q
    <3>6. ASSUME NEW k \in U(m)
          PROVE  Cardinality(U(k)) \in 1 .. c + 1 /\ q[Cardinality(U(k))] = s[k]
      <4>1. CASE k = m
        <5>1. Cardinality(U(k)) = c + 1
          BY <3>1, <4>1
        <5> QED
          BY <3>1, <3>5, <4>1, <5>1
      <4>2. CASE k # m
        <5>1. k \in U(m - 1)
          BY <3>1, <4>2
        <5>2. Cardinality(U(k)) \in 1 .. c /\ p[Cardinality(U(k))] = s[k]
          BY <3>3, <5>1
        <5> QED
          BY <3>1, <3>5, <5>2
      <4> QED
        BY <4>1, <4>2
    <3>7. Picked(s, U(m)) = q
      BY <3>2 DEF q
    <3> QED
      BY <3>1, <3>5, <3>6, <3>7
  <2> QED
    BY <2>2, <2>3
<1> HIDE DEF Right
<1>3. Wrong = {}
  <2> SUFFICES ASSUME Wrong # {} PROVE FALSE
    OBVIOUS
  <2>1. Wrong \in SUBSET Nat
    OBVIOUS
  <2> DEFINE m == Min(Wrong)
  <2> HIDE DEF Wrong
  <2>2. m \in Wrong /\ \A k \in Wrong : m <= k
    BY <2>1, MinIsLeast, Zenon
  <2> HIDE DEF m
  <2>3. m \in 0 .. n /\ ~Right(m)
    BY <2>2 DEF Wrong
  <2>4. m # 0
    BY <1>1, <2>3
  <2>5. m \in 1 .. n /\ m - 1 \in 0 .. n /\ ~(m <= m - 1)
    BY <2>3, <2>4
  <2>6. Right(m - 1)
    BY <2>2, <2>5 DEF Wrong
  <2> QED
    BY <1>2, <2>3, <2>5, <2>6
<1>4. Right(n)
  <2>1. n \in 0 .. n
    OBVIOUS
  <2> QED
    BY <1>3, <2>1
<1>5. U(n) = K
  BY PlacesAtEnds
<1> QED
  BY <1>4, <1>5 DEF Right, ArePicked

--------------------------------------------------------------------------------
(* Texts without their spaces.                                             *)

\* The characters.
Letters == STRING \union {"=", ">", " ", "spartan", ":", "/", "."}
Chars == Seq(Letters)

LEMMA SolidIsText ==
  ASSUME NEW s \in Chars
  PROVE  Solid(s) \in Chars
<1> DEFINE K == {i \in DOMAIN s : s[i] # " "}
<1>1. Len(s) \in Nat /\ K \in SUBSET (1 .. Len(s)) /\ \A k \in K : s[k] \in Letters
  <2>1. Len(s) \in Nat /\ DOMAIN s = 1 .. Len(s) /\ \A k \in 1 .. Len(s) : s[k] \in Letters
    BY DEF Chars
  <2>2. \A k \in K : k \in DOMAIN s
    OBVIOUS
  <2> HIDE DEF K
  <2> QED
    BY <2>1, <2>2, Zenon
<1> HIDE DEF K
<1>2. ArePicked(Picked(s, K), s, K, Letters)
  BY <1>1, PickedAre
<1> QED
  BY <1>2 DEF ArePicked, Solid, K, Chars

LEMMA SolidOfSpaces ==
  ASSUME NEW s, \A i \in DOMAIN s : s[i] = " "
  PROVE  Solid(s) = <<>>
<1>1. {i \in DOMAIN s : s[i] # " "} = {}
  OBVIOUS
<1> QED
  BY <1>1, PickedNone DEF Solid

LEMMA SolidOfNothing == Solid(<<>>) = <<>>
<1>1. \A i \in DOMAIN <<>> : <<>>[i] = " "
  <2>1. DOMAIN <<>> = {}
    OBVIOUS
  <2> QED
    BY <2>1, Zenon
<1> QED
  BY <1>1, SolidOfSpaces, Zenon

LEMMA SolidAppend ==
  ASSUME NEW s \in Chars, NEW c \in Letters
  PROVE  Solid(Append(s, c)) = IF c = " " THEN Solid(s) ELSE Append(Solid(s), c)
<1> DEFINE n == Len(s)
           t == Append(s, c)
           K == {i \in DOMAIN s : s[i] # " "}
           L == {i \in DOMAIN t : t[i] # " "}
<1>1. /\ n \in Nat /\ DOMAIN s = 1 .. n /\ DOMAIN t = 1 .. n + 1
      /\ t[n + 1] = c /\ \A i \in 1 .. n : t[i] = s[i]
  BY DEF Chars
<1> HIDE DEF t
<1>2. /\ K \in SUBSET (1 .. n) /\ \A k \in K : s[k] = t[k]
      /\ L = IF c = " " THEN K ELSE K \union {n + 1}
  <2>1. \A i \in 1 .. n + 1 : i \in 1 .. n \/ i = n + 1
    BY <1>1
  <2>2. n + 1 \in 1 .. n + 1 /\ \A i \in 1 .. n : i \in 1 .. n + 1
    BY <1>1
  <2> QED
    BY <1>1, <2>1, <2>2
<1> HIDE DEF K, L, n
<1>3. Picked(t, K) = Picked(s, K)
  BY <1>1, <1>2, PickedSame
<1>4. Picked(t, K \union {n + 1}) = Append(Picked(t, K), c)
  <2>1. n + 1 \in Nat \ {0} /\ n + 1 - 1 = n
    BY <1>1
  <2>2. Picked(t, K \union {n + 1}) = Append(Picked(t, K), t[n + 1])
    <3> DEFINE m == n + 1
    <3>1. m \in Nat \ {0} /\ m - 1 = n
      BY <1>1, <2>1
    <3> HIDE DEF m
    <3>2. Picked(t, K \union {m}) = Append(Picked(t, K), t[m])
      BY <1>2, <3>1, PickedMore
    <3> QED
      BY <3>2 DEF m
  <2> QED
    BY <1>1, <2>2
<1>5. Solid(t) = Picked(t, L) /\ Solid(s) = Picked(s, K)
  BY DEF Solid, L, K
<1> QED
  BY <1>2, <1>3, <1>4, <1>5 DEF t

LEMMA ConcatAppend ==
  ASSUME NEW s \in Chars, NEW t \in Chars, NEW c \in Letters
  PROVE  s \o Append(t, c) = Append(s \o t, c) /\ s \o t \in Chars
BY DEF Chars

LEMMA SolidConcat ==
  ASSUME NEW s \in Chars, NEW t \in Chars
  PROVE  Solid(s \o t) = Solid(s) \o Solid(t)
<1> DEFINE n == Len(t)
           Front_(m) == SubSeq(t, 1, m)
           Right(m) == Solid(s \o Front_(m)) = Solid(s) \o Solid(Front_(m))
           Wrong == {m \in 0 .. n : ~Right(m)}
<1>0. n \in Nat /\ Solid(s) \in Chars
  BY SolidIsText DEF Chars
<1>1. Right(0)
  <2>1. Front_(0) = <<>>
    BY DEF Chars
  <2>2. s \o <<>> = s /\ Solid(s) \o <<>> = Solid(s)
    BY <1>0 DEF Chars
  <2> QED
    BY <2>1, <2>2, SolidOfNothing
<1>2. ASSUME NEW m \in 1 .. n, Right(m - 1)
      PROVE  Right(m)
  <2> DEFINE f == Front_(m - 1)
             c == t[m]
             a == s \o f
  <2>1. f \in Chars /\ c \in Letters /\ Front_(m) = Append(f, c)
    BY DEF Chars
  <2> HIDE DEF f, c
  <2>2. s \o Append(f, c) = Append(a, c) /\ a \in Chars
    BY <2>1, ConcatAppend
  <2>3. Solid(a) = Solid(s) \o Solid(f)
    BY <1>2 DEF f
  <2> HIDE DEF a
  <2>4. Solid(Append(a, c)) = IF c = " " THEN Solid(a) ELSE Append(Solid(a), c)
    BY <2>1, <2>2, SolidAppend
  <2>5. Solid(Append(f, c)) = IF c = " " THEN Solid(f) ELSE Append(Solid(f), c)
    BY <2>1, SolidAppend
  <2>6. Solid(f) \in Chars
    BY <2>1, SolidIsText
  <2>7. Append(Solid(s) \o Solid(f), c) = Solid(s) \o Append(Solid(f), c)
    BY <1>0, <2>1, <2>6, ConcatAppend
  <2>8. Solid(Append(a, c)) = Solid(s) \o Solid(Append(f, c))
    <3>1. CASE c = " "
      BY <2>3, <2>4, <2>5, <3>1, Zenon
    <3>2. CASE c # " "
      BY <2>3, <2>4, <2>5, <2>7, <3>2, Zenon
    <3> QED
      BY <3>1, <3>2, Zenon
  <2> QED
    BY <2>1, <2>2, <2>8
<1> HIDE DEF Right
<1>3. Wrong = {}
  <2> SUFFICES ASSUME Wrong # {} PROVE FALSE
    OBVIOUS
  <2>1. Wrong \in SUBSET Nat
    OBVIOUS
  <2> DEFINE m == Min(Wrong)
  <2> HIDE DEF Wrong
  <2>2. m \in Wrong /\ \A k \in Wrong : m <= k
    BY <2>1, MinIsLeast, Zenon
  <2> HIDE DEF m
  <2>3. m \in 0 .. n /\ ~Right(m)
    BY <2>2 DEF Wrong
  <2>4. m # 0
    BY <1>1, <2>3
  <2>5. m \in 1 .. n /\ m - 1 \in 0 .. n /\ ~(m <= m - 1)
    BY <1>0, <2>3, <2>4
  <2>6. Right(m - 1)
    BY <2>2, <2>5 DEF Wrong
  <2> QED
    BY <1>2, <2>3, <2>5, <2>6
<1>4. Right(n)
  <2>1. n \in 0 .. n
    BY <1>0
  <2> QED
    BY <1>3, <2>1
<1>5. Front_(n) = t
  BY DEF Chars
<1> QED
  BY <1>4, <1>5 DEF Right

LEMMA TextLength ==
  ASSUME NEW s \in Chars
  PROVE  Len(s) \in Nat /\ DOMAIN s = 1 .. Len(s) /\ \A i \in 1 .. Len(s) : s[i] \in Letters
BY DEF Chars

\* Skipping goes behind the spaces at p and no further.
LEMMA SkippedIs ==
  ASSUME NEW s \in Chars, NEW p \in 0 .. Len(s)
  PROVE  /\ Skipped(s, p) \in p .. Len(s)
         /\ \A i \in p + 1 .. Skipped(s, p) : s[i] = " "
         /\ Skipped(s, p) = Len(s) \/ s[Skipped(s, p) + 1] # " "
<1> DEFINE n == Len(s)
           S == {q \in p .. n : q = n \/ s[q + 1] # " "}
           m == Min(S)
<1>1. n \in Nat /\ p \in Nat /\ p <= n
  BY DEF Chars
<1> HIDE DEF n
<1>2. n \in S /\ S \in SUBSET Nat
  <2>1. n \in p .. n /\ \A q \in p .. n : q \in Nat
    BY <1>1
  <2> QED
    BY <2>1
<1>3. m \in S /\ \A k \in S : m <= k
  <2> HIDE DEF S
  <2> QED
    BY <1>2, MinIsLeast
<1> HIDE DEF m
<1>4. m \in p .. n
  BY <1>3
<1>7. m = n \/ s[m + 1] # " "
  BY <1>3
<1>5. ASSUME NEW i \in p + 1 .. m
      PROVE  s[i] = " "
  <2> DEFINE q == i - 1
  <2>0. i \in Int /\ m \in Int /\ p + 1 <= i /\ i <= m /\ m <= n
    BY <1>1, <1>4
  <2>1. q \in p .. n /\ q + 1 = i /\ ~(m <= q) /\ q # n
    BY <1>1, <2>0
  <2> HIDE DEF q
  <2>2. q \notin S
    BY <1>3, <2>1
  <2>3. ~(s[q + 1] # " ")
    BY <2>1, <2>2
  <2> QED
    BY <2>1, <2>3
<1>6. Skipped(s, p) = m
  BY DEF Skipped, m, S, n
<1> QED
  BY <1>4, <1>5, <1>6, <1>7 DEF n

\* The end of the text from p on up to the first space.
WordEndsAt(s, p) == Min({q \in p .. Len(s) : q = Len(s) \/ s[q + 1] = " "})

LEMMA WordEndsAtIs ==
  ASSUME NEW s \in Chars, NEW p \in 0 .. Len(s)
  PROVE  /\ WordEndsAt(s, p) \in p .. Len(s)
         /\ \A i \in p + 1 .. WordEndsAt(s, p) : s[i] # " "
<1> DEFINE n == Len(s)
           S == {q \in p .. n : q = n \/ s[q + 1] = " "}
           m == Min(S)
<1>1. n \in Nat /\ p \in Nat /\ p <= n
  BY DEF Chars
<1> HIDE DEF n
<1>2. n \in S /\ S \in SUBSET Nat
  <2>1. n \in p .. n /\ \A q \in p .. n : q \in Nat
    BY <1>1
  <2> QED
    BY <2>1
<1>3. m \in S /\ \A k \in S : m <= k
  <2> HIDE DEF S
  <2> QED
    BY <1>2, MinIsLeast
<1> HIDE DEF m
<1>4. m \in p .. n
  BY <1>3
<1>5. ASSUME NEW i \in p + 1 .. m
      PROVE  s[i] # " "
  <2> DEFINE q == i - 1
  <2>0. i \in Int /\ m \in Int /\ p + 1 <= i /\ i <= m /\ m <= n
    BY <1>1, <1>4
  <2>1. q \in p .. n /\ q + 1 = i /\ ~(m <= q) /\ q # n
    BY <1>1, <2>0
  <2> HIDE DEF q
  <2>2. q \notin S
    BY <1>3, <2>1
  <2>3. s[q + 1] # " "
    BY <2>1, <2>2
  <2> QED
    BY <2>1, <2>3
<1>6. WordEndsAt(s, p) = m
  BY DEF WordEndsAt, m, S, n
<1> QED
  BY <1>4, <1>5, <1>6 DEF n

\* A part of a text is a text.
LEMMA PartIsText ==
  ASSUME NEW s \in Chars, NEW p \in 0 .. Len(s), NEW q \in 0 .. Len(s)
  PROVE  SubSeq(s, p + 1, q) \in Chars
BY DEF Chars

\* Lines of a gemtext.
GemLineSet == [kind : Kinds, chars : Chars, url : Chars]

LEMMA PrefixLen ==
  ASSUME NEW s \in Chars, NEW T, NEW p \in Seq(T), NEW n \in Nat, Len(p) = n, IsPrefix(p, s)
  PROVE  n \in 0 .. Len(s) /\ \A i \in 1 .. n : s[i] = p[i]
<1>1. n <= Len(s) /\ Len(s) \in Nat /\ SubSeq(p, 1, n) = SubSeq(s, 1, n)
  BY DEF IsPrefix, Chars
<1>2. \A i \in 1 .. n : SubSeq(p, 1, n)[i] = p[i] /\ SubSeq(s, 1, n)[i] = s[i]
  BY <1>1 DEF Chars
<1> QED
  BY <1>1, <1>2

LEMMA LevelIs ==
  ASSUME NEW s \in Chars, Len(s) >= 1, s[1] = "#"
  PROVE  /\ Level(s) \in 1 .. 3 /\ Level(s) \in 0 .. Len(s)
         /\ \A i \in 1 .. Level(s) : s[i] = "#"
<1> DEFINE S == {n \in 1 .. 3 : n <= Len(s) /\ \A i \in 1 .. n : s[i] = "#"}
           m == Max(S)
<1>1. Len(s) \in Nat
  BY DEF Chars
<1>2. 1 \in S
  BY <1>1
<1>3. S \in SUBSET (1 .. 3) /\ 1 \in Int /\ 3 \in Int
  OBVIOUS
<1>4. m \in S
  <2> HIDE DEF S
  <2> QED
    BY <1>2, <1>3, MaxIsGreatest
<1> HIDE DEF m
<1>5. Level(s) = m
  BY DEF Level, m, S
<1> QED
  BY <1>1, <1>4, <1>5

LEMMA PrefixedIsLine ==
  ASSUME NEW s \in Chars, NEW kind \in Kinds, NEW n \in 0 .. Len(s)
  PROVE  Prefixed(kind, s, n) \in GemLineSet
<1>1. Skipped(s, n) \in n .. Len(s) /\ Len(s) \in Nat
  BY SkippedIs, TextLength
<1>2. Skipped(s, n) \in 0 .. Len(s) /\ Len(s) \in 0 .. Len(s)
  BY <1>1
<1>3. SubSeq(s, Skipped(s, n) + 1, Len(s)) \in Chars
  BY <1>2, PartIsText
<1>4. <<>> \in Chars
  BY DEF Chars
<1> QED
  BY <1>3, <1>4 DEF Prefixed, PlainLine, GemLine, GemLineSet

LEMMA LinkLineIsLine ==
  ASSUME NEW s \in Chars, 2 \in 0 .. Len(s)
  PROVE  LinkLine(s) \in GemLineSet
<1> DEFINE from == Skipped(s, 2)
           to == WordEndsAt(s, from)
<1>1. from \in 2 .. Len(s) /\ Len(s) \in Nat
  BY SkippedIs, TextLength
<1>2. from \in 0 .. Len(s) /\ Len(s) \in 0 .. Len(s)
  BY <1>1
<1>3. to \in from .. Len(s)
  BY <1>2, WordEndsAtIs
<1>4. to \in 0 .. Len(s)
  BY <1>2, <1>3
<1>5. Skipped(s, to) \in to .. Len(s)
  BY <1>4, SkippedIs
<1>6. Skipped(s, to) \in 0 .. Len(s)
  BY <1>4, <1>5
<1>7. SubSeq(s, Skipped(s, to) + 1, Len(s)) \in Chars /\ SubSeq(s, from + 1, to) \in Chars
  BY <1>2, <1>4, <1>6, PartIsText
<1>8. <<>> \in Chars
  BY DEF Chars
<1>9. LinkLine(s) = IF from = Len(s) THEN PlainLine("text", s)
                    ELSE GemLine("link", SubSeq(s, Skipped(s, to) + 1, Len(s)), SubSeq(s, from + 1, to))
  BY Zenon DEF LinkLine, WordEndsAt
<1>10. "text" \in Kinds /\ "link" \in Kinds
  BY DEF Kinds
<1> HIDE DEF from, to
<1>11. PlainLine("text", s) \in GemLineSet
  BY <1>8, <1>10 DEF PlainLine, GemLine, GemLineSet
<1>12. GemLine("link", SubSeq(s, Skipped(s, to) + 1, Len(s)), SubSeq(s, from + 1, to)) \in GemLineSet
  BY <1>7, <1>10 DEF GemLine, GemLineSet
<1> QED
  BY <1>9, <1>11, <1>12, Zenon

\* What the marks at the beginning of a line say of its characters.
LEMMA MarksOfLine ==
  ASSUME NEW s \in Chars
  PROVE  /\ IsPrefix(<<"=", ">">>, s) => 2 \in 0 .. Len(s) /\ s[1] = "=" /\ s[2] = ">"
         /\ IsPrefix(<<"#">>, s) => Len(s) >= 1 /\ s[1] = "#"
         /\ IsPrefix(<<"*", " ">>, s) => 2 \in 0 .. Len(s) /\ s[1] = "*" /\ s[2] = " "
         /\ IsPrefix(<<">">>, s) => 1 \in 0 .. Len(s) /\ s[1] = ">"
<1>1. ASSUME NEW a, NEW b, IsPrefix(<<a, b>>, s)
      PROVE  2 \in 0 .. Len(s) /\ s[1] = a /\ s[2] = b
  <2>1. <<a, b>> \in Seq({a, b}) /\ Len(<<a, b>>) = 2 /\ <<a, b>>[1] = a /\ <<a, b>>[2] = b /\ 2 \in Nat
    OBVIOUS
  <2> DEFINE p == <<a, b>>
  <2> HIDE DEF p
  <2>2. 2 \in 0 .. Len(s) /\ \A i \in 1 .. 2 : s[i] = p[i]
    BY <1>1, <2>1, PrefixLen DEF p
  <2> QED
    BY <2>1, <2>2 DEF p
<1>2. ASSUME NEW a, IsPrefix(<<a>>, s)
      PROVE  1 \in 0 .. Len(s) /\ s[1] = a
  <2>1. <<a>> \in Seq({a}) /\ Len(<<a>>) = 1 /\ <<a>>[1] = a /\ 1 \in Nat
    OBVIOUS
  <2> DEFINE p == <<a>>
  <2> HIDE DEF p
  <2>2. 1 \in 0 .. Len(s) /\ \A i \in 1 .. 1 : s[i] = p[i]
    BY <1>2, <2>1, PrefixLen DEF p
  <2> QED
    BY <2>1, <2>2 DEF p
<1>3. 1 \in 0 .. Len(s) => Len(s) >= 1
  BY DEF Chars
<1> QED
  BY <1>1, <1>2, <1>3

LEMMA ClassifiedIsLine ==
  ASSUME NEW s \in Chars
  PROVE  Classified(s) \in GemLineSet
<1>1. \A kind \in {"heading", "item", "quote", "text"} : kind \in Kinds
  BY DEF Kinds
<1>2. CASE IsPrefix(<<"=", ">">>, s)
  BY <1>2, LinkLineIsLine, MarksOfLine DEF Classified
<1>3. CASE ~IsPrefix(<<"=", ">">>, s) /\ IsPrefix(<<"#">>, s)
  <2>1. Level(s) \in 0 .. Len(s)
    BY <1>3, LevelIs, MarksOfLine
  <2>2. Prefixed("heading", s, Level(s)) \in GemLineSet
    BY <1>1, <2>1, PrefixedIsLine
  <2> QED
    BY <1>3, <2>2, MarksOfLine DEF Classified
<1>4. CASE ~IsPrefix(<<"=", ">">>, s) /\ ~IsPrefix(<<"#">>, s) /\ IsPrefix(<<"*", " ">>, s)
  <2>1. Prefixed("item", s, 2) \in GemLineSet
    BY <1>1, <1>4, PrefixedIsLine, MarksOfLine
  <2> QED
    BY <1>4, <2>1, MarksOfLine DEF Classified
<1>5. CASE /\ ~IsPrefix(<<"=", ">">>, s) /\ ~IsPrefix(<<"#">>, s) /\ ~IsPrefix(<<"*", " ">>, s)
           /\ IsPrefix(<<">">>, s)
  <2>1. Prefixed("quote", s, 1) \in GemLineSet
    BY <1>1, <1>5, PrefixedIsLine, MarksOfLine
  <2> QED
    BY <1>5, <2>1 DEF Classified
<1>6. CASE /\ ~IsPrefix(<<"=", ">">>, s) /\ ~IsPrefix(<<"#">>, s) /\ ~IsPrefix(<<"*", " ">>, s)
           /\ ~IsPrefix(<<">">>, s)
  <2>1. Classified(s) = PlainLine("text", s)
    BY <1>6 DEF Classified
  <2>2. <<>> \in Chars
    BY DEF Chars
  <2> QED
    BY <1>1, <2>1, <2>2 DEF PlainLine, GemLine, GemLineSet
<1> QED
  BY <1>2, <1>3, <1>4, <1>5, <1>6

\* A gemtext has lines of the kinds there are.
LEMMA GemLinesAreLines ==
  ASSUME NEW text \in Seq(Chars)
  PROVE  GemLines(text) \in Seq(GemLineSet)
<1> DEFINE lines == [i \in DOMAIN text |->
                       IF Preformatted(text, i) THEN PlainLine("pre", text[i])
                       ELSE Classified(text[i])]
           K == {i \in DOMAIN text : ~IsFence(text[i])}
<1>1. Len(text) \in Nat /\ DOMAIN text = 1 .. Len(text) /\ \A i \in 1 .. Len(text) : text[i] \in Chars
  OBVIOUS
<1>2. K \in SUBSET (1 .. Len(text))
  BY <1>1
<1>3. ASSUME NEW i \in K PROVE lines[i] \in GemLineSet
  <2>1. i \in 1 .. Len(text) /\ text[i] \in Chars
    BY <1>1, <1>2
  <2>2. lines[i] = IF Preformatted(text, i) THEN PlainLine("pre", text[i])
                   ELSE Classified(text[i])
    BY <1>1, <2>1
  <2>3. PlainLine("pre", text[i]) \in GemLineSet
    <3>1. "pre" \in Kinds /\ <<>> \in Chars
      BY DEF Kinds, Chars
    <3> QED
      BY <2>1, <3>1 DEF PlainLine, GemLine, GemLineSet
  <2>4. Classified(text[i]) \in GemLineSet
    BY <2>1, ClassifiedIsLine
  <2> HIDE DEF lines, K
  <2> QED
    BY <2>2, <2>3, <2>4, Zenon
<1>4. GemLines(text) = Picked(lines, K)
  BY DEF GemLines
<1> HIDE DEF lines, K
<1>5. ArePicked(Picked(lines, K), lines, K, GemLineSet)
  BY <1>1, <1>2, <1>3, PickedAre
<1> QED
  BY <1>4, <1>5 DEF ArePicked

--------------------------------------------------------------------------------
(* Breaking lines.                                                         *)

IsChain(f, lo, hi, head, then) ==
  f = [p \in lo .. hi |-> IF p = hi THEN <<>> ELSE head[p] \o f[then[p]]]

\* A function that is given at hi, and before hi by what it is further on, exists.
LEMMA ChainExists ==
  ASSUME NEW lo \in Int, NEW hi \in Int, lo <= hi, NEW head, NEW then,
         \A p \in lo .. hi - 1 : then[p] \in p + 1 .. hi
  PROVE  \E f : IsChain(f, lo, hi, head, then)
<1> DEFINE Rule(f, p) == IF p = hi THEN <<>> ELSE head[p] \o f[then[p]]
           Has(n) == \E f : f = [p \in hi - n .. hi |-> Rule(f, p)]
           Lacking == {n \in 0 .. hi - lo : ~Has(n)}
<1>1. Has(0)
  <2>1. [p \in hi - 0 .. hi |-> <<>>] = [p \in hi - 0 .. hi |-> Rule([q \in hi - 0 .. hi |-> <<>>], p)]
    OBVIOUS
  <2> QED
    BY <2>1
<1>2. ASSUME NEW n \in 1 .. hi - lo, Has(n - 1)
      PROVE  Has(n)
  <2>1. PICK f : f = [p \in hi - (n - 1) .. hi |-> Rule(f, p)]
    BY <1>2
  <2> DEFINE g == [p \in hi - n .. hi |-> IF p = hi - n THEN Rule(f, p) ELSE f[p]]
  <2>2. \A p \in hi - n .. hi : g[p] = Rule(f, p)
    <3>1. \A p \in hi - (n - 1) .. hi : f[p] = Rule(f, p)
      BY <2>1, Zenon
    <3> HIDE DEF Rule
    <3> QED
      BY <3>1
  <2>3. \A p \in hi - n .. hi - 1 : g[then[p]] = f[then[p]]
    <3> TAKE p \in hi - n .. hi - 1
    <3>1. p \in lo .. hi - 1
      OBVIOUS
    <3>2. then[p] \in p + 1 .. hi
      BY <3>1
    <3>3. then[p] \in hi - n .. hi /\ then[p] # hi - n
      BY <3>2
    <3> QED
      BY <3>3
  <2>4. \A p \in hi - n .. hi : Rule(f, p) = Rule(g, p)
    <3> TAKE p \in hi - n .. hi
    <3>1. p = hi \/ p \in hi - n .. hi - 1
      OBVIOUS
    <3> HIDE DEF g
    <3> QED
      BY <2>3, <3>1, Zenon
  <2>5. g = [p \in hi - n .. hi |-> g[p]]
    OBVIOUS
  <2> HIDE DEF g, Rule
  <2>6. g = [p \in hi - n .. hi |-> Rule(g, p)]
    BY <2>2, <2>4, <2>5
  <2> QED
    BY <2>6
<1>3. Lacking = {}
  <2>1. SUFFICES ASSUME Lacking # {} PROVE FALSE
    OBVIOUS
  <2>2. Lacking \in SUBSET Nat
    <3> HIDE DEF Has
    <3> QED
      OBVIOUS
  <2> DEFINE least == Min(Lacking)
  <2>3. least \in Lacking /\ \A k \in Lacking : least <= k
    BY <2>1, <2>2, MinIsLeast, Zenon
  <2>4. least \in 0 .. hi - lo /\ ~Has(least)
    BY <2>3
  <2> HIDE DEF Has, least
  <2>5. least \in 1 .. hi - lo
    BY <1>1, <2>4
  <2>6. least - 1 \notin Lacking
    BY <2>3, <2>5 DEF least
  <2>7. Has(least - 1)
    BY <2>5, <2>6
  <2> QED
    BY <1>2, <2>4, <2>5, <2>7
<1>4. Has(hi - lo)
  <2> HIDE DEF Has
  <2>1. hi - lo \in 0 .. hi - lo
    OBVIOUS
  <2> QED
    BY <1>3, <2>1
<1>5. hi - (hi - lo) = lo
  OBVIOUS
<1> QED
  BY <1>4, <1>5 DEF IsChain

\* At least one character is cut off, and no more than there is room for.
LEMMA CutAtIs ==
  ASSUME NEW s \in Chars, NEW from \in Nat, from < Len(s), NEW avail \in Nat \ {0}
  PROVE  CutAt(s, from, avail) \in 1 .. avail /\ CutAt(s, from, avail) \in 1 .. Len(s) - from
<1> DEFINE n == Len(s)
           take == IF n - from < avail THEN n - from ELSE avail
           spaces == {i \in 1 .. take - 1 : s[from + i + 1] = " "}
<1>1. n \in Nat /\ from < n
  BY TextLength
<1> HIDE DEF n
<1>2. take \in Nat /\ take >= 1 /\ take <= avail /\ take <= n - from
  BY <1>1
<1> HIDE DEF take
<1>3. spaces # {} => Max(spaces) \in 1 .. take - 1
  <2>0. spaces \in SUBSET (1 .. take - 1)
    BY Zenon
  <2> HIDE DEF spaces
  <2>1. spaces \in SUBSET (1 .. take - 1) /\ 1 \in Int /\ take - 1 \in Int
    BY <1>2, <2>0
  <2>2. spaces # {} => Max(spaces) \in spaces
    BY <2>1, MaxIsGreatest
  <2> QED
    BY <2>1, <2>2
<1>4. CutAt(s, from, avail) = IF from + take < n /\ spaces # {} THEN Max(spaces) ELSE take
  BY DEF CutAt, n, take, spaces
<1> HIDE DEF spaces
<1>5. CASE from + take < n /\ spaces # {}
  <2>1. CutAt(s, from, avail) \in 1 .. take - 1
    BY <1>3, <1>4, <1>5
  <2> QED
    BY <1>1, <1>2, <2>1 DEF n
<1>6. CASE ~(from + take < n /\ spaces # {})
  <2>1. CutAt(s, from, avail) = take
    BY <1>4, <1>6
  <2> QED
    BY <1>1, <1>2, <2>1 DEF n
<1> QED
  BY <1>5, <1>6

\* The pieces spell a text without spaces.
Spells(pieces, t) ==
  \E f \in [0 .. Len(pieces) -> Chars] :
    /\ f[0] = <<>> /\ f[Len(pieces)] = t
    /\ \A k \in 1 .. Len(pieces) : f[k] = f[k - 1] \o Solid(pieces[k])

LEMMA NothingSpelt == Spells(<<>>, <<>>)
<1> DEFINE f == [k \in 0 .. 0 |-> <<>>]
<1>1. f \in [0 .. 0 -> Chars] /\ f[0] = <<>>
  <2>1. <<>> \in Chars
    BY DEF Chars
  <2> QED
    BY <2>1
<1>2. Len(<<>>) = 0 /\ \A k \in 1 .. 0 : FALSE
  OBVIOUS
<1> HIDE DEF f
<1>3. f \in [0 .. Len(<<>>) -> Chars] /\ f[Len(<<>>)] = <<>>
  BY <1>1, <1>2, Zenon
<1>4. \A k \in 1 .. Len(<<>>) : f[k] = f[k - 1] \o Solid(<<>>[k])
  <2>1. \A k \in 1 .. Len(<<>>) : FALSE
    BY <1>2, Zenon
  <2> QED
    BY <2>1, Zenon
<1> QED
  BY <1>1, <1>3, <1>4, Zenon DEF Spells

\* Concatenation.
LEMMA ThreeTexts ==
  ASSUME NEW a \in Chars, NEW b \in Chars, NEW c \in Chars
  PROVE  /\ (a \o b) \o c = a \o (b \o c) /\ a \o b \in Chars
         /\ a \o <<>> = a /\ <<>> \o a = a
<1>1. (a \o b) \o c = a \o (b \o c)
  BY ConcatAssociative DEF Chars
<1>2. a \o b \in Chars /\ a \o <<>> = a /\ <<>> \o a = a
  BY DEF Chars
<1> QED
  BY <1>1, <1>2

LEMMA ConcatText ==
  \A a, b, c \in Chars : (a \o b) \o c = a \o (b \o c)
<1> TAKE a, b, c \in Chars
<1> QED
  BY ConcatAssociative DEF Chars

\* Two adjacent parts.
LEMMA AdjacentParts ==
  ASSUME NEW s \in Chars, NEW p \in Nat, NEW q \in Nat, NEW r \in Nat, p <= q, q <= r, r <= Len(s)
  PROVE  SubSeq(s, p + 1, r) = SubSeq(s, p + 1, q) \o SubSeq(s, q + 1, r)
<1> DEFINE m == p + 1
<1>1. Len(s) \in Nat
  BY TextLength
<1>2. m \in 1 .. Len(s) + 1 /\ q \in m - 1 .. Len(s) /\ r \in q .. Len(s)
  BY <1>1
<1>3. s \in Seq(Letters)
  BY DEF Chars
<1> HIDE DEF m
<1>4. SubSeq(s, m, q) \o SubSeq(s, q + 1, r) = SubSeq(s, m, r)
  BY ONLY <1>2, <1>3, ConcatAdjacentSubSeq, SMTT(30)
<1> QED
  BY <1>4, Zenon DEF m

\* One piece in front of others.
LEMMA SpelledOn ==
  ASSUME NEW x \in Chars, NEW pieces \in Seq(Chars), NEW t \in Chars, Spells(pieces, t)
  PROVE  Spells(<<x>> \o pieces, Solid(x) \o t)
<1> DEFINE n == Len(pieces)
           all == <<x>> \o pieces
<1>1. PICK f \in [0 .. n -> Chars] :
        /\ f[0] = <<>> /\ f[n] = t
        /\ \A k \in 1 .. n : f[k] = f[k - 1] \o Solid(pieces[k])
  BY DEF Spells
<1>2. /\ n \in Nat /\ Len(all) = n + 1 /\ all[1] = x
      /\ \A k \in 2 .. n + 1 : all[k] = pieces[k - 1] /\ pieces[k - 1] \in Chars
  OBVIOUS
<1> HIDE DEF n, all
<1> DEFINE y == Solid(x)
           g == [k \in 0 .. n + 1 |-> IF k = 0 THEN <<>> ELSE y \o f[k - 1]]
<1>3. y \in Chars
  BY SolidIsText
<1> HIDE DEF y
<1>4. \A k \in 0 .. n : y \o f[k] \in Chars
  BY <1>1, <1>3, ThreeTexts
<1>5. g \in [0 .. n + 1 -> Chars]
  <2>1. <<>> \in Chars
    BY DEF Chars
  <2>2. \A k \in 0 .. n + 1 : k # 0 => k - 1 \in 0 .. n
    BY <1>2
  <2> QED
    BY <1>4, <2>1, <2>2
<1>6. g[0] = <<>> /\ g[1] = y /\ g[n + 1] = y \o t
  <2>1. g[1] = y \o f[0]
    BY <1>2
  <2>2. y \o <<>> = y
    BY <1>3, ThreeTexts
  <2>3. n + 1 - 1 = n
    BY <1>2
  <2> QED
    BY <1>1, <1>2, <2>1, <2>2, <2>3
<1>7. ASSUME NEW k \in 1 .. n + 1
      PROVE  g[k] = g[k - 1] \o Solid(all[k])
  <2>1. CASE k = 1
    <3>1. g[1 - 1] = <<>> /\ <<>> \o y = y
      BY <1>3, <1>6, ThreeTexts
    <3> QED
      BY <1>2, <1>6, <2>1, <3>1 DEF y
  <2>2. CASE k # 1
    <3>1. k - 1 \in 1 .. n /\ k \in 2 .. n + 1 /\ k - 1 - 1 \in 0 .. n /\ k - 1 \in 0 .. n + 1 /\ k # 0
      BY <1>2, <2>2
    <3> DEFINE z == Solid(pieces[k - 1])
               e == f[k - 1 - 1]
    <3>2. z \in Chars /\ e \in Chars /\ Solid(all[k]) = z
      BY <1>1, <1>2, <3>1, SolidIsText
    <3>3. f[k - 1] = e \o z
      BY <1>1, <3>1
    <3>4. g[k] = y \o f[k - 1] /\ g[k - 1] = y \o e
      BY <3>1
    <3> HIDE DEF z, e, g
    <3>5. (y \o e) \o z = y \o (e \o z)
      <4>1. z \in Chars /\ e \in Chars
        BY <3>2
      <4> QED
        BY <1>3, <4>1, ConcatText, Zenon
    <3> QED
      BY <3>2, <3>3, <3>4, <3>5, Zenon
  <2> QED
    BY <2>1, <2>2
<1> HIDE DEF g
<1> QED
  BY <1>2, <1>5, <1>6, <1>7 DEF Spells, all, y

Parted(pieces, t, avail) ==
  /\ pieces \in Seq(Chars)
  /\ \A k \in 1 .. Len(pieces) : Len(pieces[k]) <= avail
  /\ Spells(pieces, t)

\* One piece in front of others that are parted.
LEMMA PartedOn ==
  ASSUME NEW x \in Chars, NEW avail \in Nat, Len(x) <= avail, NEW t \in Chars, NEW pieces,
         Parted(pieces, t, avail)
  PROVE  Parted(<<x>> \o pieces, Solid(x) \o t, avail)
<1> DEFINE n == Len(pieces)
           all == <<x>> \o pieces
<1>1. pieces \in Seq(Chars) /\ Spells(pieces, t)
      /\ \A k \in 1 .. Len(pieces) : Len(pieces[k]) <= avail
  BY DEF Parted
<1>2. /\ n \in Nat /\ Len(all) = n + 1 /\ all[1] = x /\ all \in Seq(Chars)
      /\ \A k \in 2 .. n + 1 : all[k] = pieces[k - 1]
  BY <1>1
<1>3. Spells(all, Solid(x) \o t)
  BY <1>1, SpelledOn
<1> HIDE DEF all
<1>4. ASSUME NEW k \in 1 .. n + 1
      PROVE  Len(all[k]) <= avail
  <2>1. CASE k = 1
    BY <1>2, <2>1
  <2>2. CASE k # 1
    <3>1. k \in 2 .. n + 1 /\ k - 1 \in 1 .. n
      BY <1>2, <2>2
    <3> QED
      BY <1>1, <1>2, <3>1
  <2> QED
    BY <2>1, <2>2
<1>5. Parted(all, Solid(x) \o t, avail)
  BY <1>2, <1>3, <1>4 DEF Parted
<1> QED
  BY <1>5 DEF all

OnlySpaces(s, lo, hi) == \A i \in lo .. hi : s[i] = " "

\* Nothing of spaces is solid.
LEMMA SolidOfOnlySpaces ==
  ASSUME NEW s \in Chars, NEW lo \in Nat, NEW hi \in Nat, lo >= 1, hi <= Len(s), OnlySpaces(s, lo, hi)
  PROVE  Solid(SubSeq(s, lo, hi)) = <<>>
<1> DEFINE b == SubSeq(s, lo, hi)
<1>1. ASSUME NEW i \in DOMAIN b
      PROVE  i + lo - 1 \in lo .. hi /\ b[i] = s[i + lo - 1]
  <2>1. lo \in Int /\ hi \in Int /\ \A j \in lo .. hi : s[j] \in Letters
    BY DEF Chars
  <2>2. /\ Len(b) = (IF lo <= hi THEN hi - lo + 1 ELSE 0) /\ b \in Seq(Letters)
        /\ \A j \in 1 .. hi - lo + 1 : b[j] = s[lo + j - 1]
    BY <2>1, SubSeqProperties
  <2> HIDE DEF b
  <2>3. i \in 1 .. hi - lo + 1
    BY <2>2
  <2>4. i + lo - 1 \in lo .. hi /\ lo + i - 1 = i + lo - 1
    BY <2>3
  <2> QED
    BY <2>2, <2>3, <2>4
<1> HIDE DEF b
<1>2. \A i \in DOMAIN b : b[i] = " "
  BY <1>1, Zenon DEF OnlySpaces
<1>3. Solid(b) = <<>>
  BY <1>2, SolidOfSpaces
<1> QED
  BY <1>3 DEF b

\* The text from a place on is the piece up to another, and what is behind the
\* spaces there.
LEMMA SolidFrom ==
  ASSUME NEW s \in Chars, NEW p \in Nat, NEW to \in Nat, NEW beyond \in Nat,
         p <= to, to <= beyond, beyond <= Len(s), OnlySpaces(s, to + 1, beyond)
  PROVE  Solid(SubSeq(s, p + 1, Len(s)))
           = Solid(SubSeq(s, p + 1, to)) \o Solid(SubSeq(s, beyond + 1, Len(s)))
<1> DEFINE n == Len(s)
           a == SubSeq(s, p + 1, to)
           b == SubSeq(s, to + 1, beyond)
           c == SubSeq(s, beyond + 1, n)
<1>1. n \in Nat /\ s \in Seq(Letters)
  BY TextLength DEF Chars
<1>2. a \in Chars /\ b \in Chars /\ c \in Chars
  <2>1. p \in 0 .. Len(s) /\ to \in 0 .. Len(s) /\ beyond \in 0 .. Len(s) /\ n \in 0 .. Len(s)
    BY <1>1
  <2> QED
    BY <2>1, PartIsText, Zenon
<1>0. p <= n /\ to <= n /\ p <= to /\ n <= Len(s)
  BY <1>1
<1>3. SubSeq(s, p + 1, n) = a \o SubSeq(s, to + 1, n)
  BY <1>0, <1>1, AdjacentParts, ZenonT(40)
<1>4. SubSeq(s, to + 1, n) = b \o c
  BY <1>0, <1>1, AdjacentParts, ZenonT(40) DEF n
<1>5. Solid(b) = <<>>
  <2>1. to + 1 \in Nat /\ to + 1 >= 1 /\ beyond <= n
    BY <1>1
  <2> QED
    BY <2>1, SolidOfOnlySpaces DEF n
<1> HIDE DEF a, b, c
<1>6. Solid(b \o c) = Solid(c)
  <2>1. Solid(b \o c) = Solid(b) \o Solid(c) /\ Solid(c) \in Chars
    BY <1>2, SolidConcat, SolidIsText
  <2>2. <<>> \o Solid(c) = Solid(c)
    BY <2>1, ThreeTexts
  <2> QED
    BY <1>5, <2>1, <2>2, Zenon
<1>7. b \o c \in Chars
  BY <1>2, ThreeTexts
<1>8. Solid(a \o (b \o c)) = Solid(a) \o Solid(c)
  BY <1>2, <1>6, <1>7, SolidConcat, ZenonT(40)
<1> QED
  BY <1>3, <1>4, <1>8 DEF a, c, n

LEMMA NothingParted ==
  ASSUME NEW avail \in Nat
  PROVE  Parted(<<>>, <<>>, avail)
<1>1. <<>> \in Seq(Chars) /\ Len(<<>>) = 0
  OBVIOUS
<1>2. \A k \in 1 .. Len(<<>>) : FALSE
  BY <1>1
<1> QED
  BY <1>1, <1>2, NothingSpelt DEF Parted

\* A piece that is all there is.
LEMMA OnePieceParted ==
  ASSUME NEW x \in Chars, NEW avail \in Nat, Len(x) <= avail
  PROVE  Parted(<<x>>, Solid(x), avail)
<1>1. <<>> \in Chars
  BY DEF Chars
<1>2. Parted(<<x>> \o <<>>, Solid(x) \o <<>>, avail)
  BY <1>1, NothingParted, PartedOn
<1>3. <<x>> \o <<>> = <<x>>
  <2>1. <<x>> \in Seq(Chars)
    OBVIOUS
  <2> QED
    BY <2>1, ConcatEmptySeq
<1>4. Solid(x) \o <<>> = Solid(x)
  BY SolidIsText, ThreeTexts
<1> QED
  BY <1>2, <1>3, <1>4

\* The pieces of a line of text are no wider than there is room, and spell it.
LEMMA PiecesAre ==
  ASSUME NEW s \in Chars, NEW avail \in Nat \ {0}
  PROVE  Parted(PiecesOf(s, avail), Solid(s), avail)
<1>0. Len(s) \in Nat
  BY TextLength
<1>1. CASE s = <<>>
  <2>1. PiecesOf(s, avail) = <<s>> /\ Len(s) = 0
    BY <1>1 DEF PiecesOf
  <2>2. Len(s) <= avail
    BY <2>1
  <2> QED
    BY <2>1, <2>2, OnePieceParted
<1>2. CASE s # <<>>
  <2> DEFINE n == Len(s)
             To(p) == p + CutAt(s, p, avail)
             Behind(p) == Skipped(s, To(p))
             part(p) == SubSeq(s, p + 1, To(p))
             rest == CHOOSE f : f = [p \in 0 .. n |-> IF p = n THEN <<>> ELSE <<part(p)>> \o f[Behind(p)]]
             head == [p \in 0 .. n - 1 |-> <<part(p)>>]
             then == [p \in 0 .. n - 1 |-> Behind(p)]
  <2>1. PiecesOf(s, avail) = rest[0]
    BY <1>2 DEF PiecesOf
  <2>2. ASSUME NEW p \in 0 .. n - 1
        PROVE  /\ To(p) \in p + 1 .. n /\ To(p) - p <= avail /\ Behind(p) \in To(p) .. n
               /\ OnlySpaces(s, To(p) + 1, Behind(p))
    <3>1. p \in Nat /\ p < Len(s)
      BY <1>0
    <3>2. CutAt(s, p, avail) \in 1 .. avail /\ CutAt(s, p, avail) \in 1 .. Len(s) - p
      BY <3>1, CutAtIs
    <3> DEFINE c == CutAt(s, p, avail)
    <3>3. c \in Int /\ c >= 1 /\ c <= avail /\ c <= n - p
      BY <1>0, <3>1, <3>2
    <3>4. To(p) \in 0 .. Len(s) /\ To(p) \in p + 1 .. n /\ To(p) - p <= avail
      <4> HIDE DEF c, rest, head, then
      <4>1. To(p) = p + c
        BY DEF c
      <4> HIDE DEF To, n
      <4> QED
        BY <1>0, <3>1, <3>3, <4>1 DEF n
    <3>5. Skipped(s, To(p)) \in To(p) .. Len(s) /\ OnlySpaces(s, To(p) + 1, Skipped(s, To(p)))
      <4> HIDE DEF To, rest, head, then
      <4> QED
        BY <3>4, SkippedIs, Zenon DEF OnlySpaces
    <3> HIDE DEF To, rest, head, then
    <3> QED
      BY <3>4, <3>5
  <2> HIDE DEF To, Behind
  <2>3. \A p \in 0 .. n - 1 : then[p] \in p + 1 .. n
    BY <1>0, <2>2
  <2>4. PICK f : IsChain(f, 0, n, head, then)
    <3>1. 0 \in Int /\ n \in Int /\ 0 <= n
      BY <1>0
    <3> HIDE DEF head, then, rest
    <3> QED
      BY <2>3, <3>1, ChainExists
  <2>5. \A p \in 0 .. n : p = n \/ p \in 0 .. n - 1
    BY <1>0
  <2>6. \A p \in 0 .. n - 1 : head[p] \o f[then[p]] = <<part(p)>> \o f[Behind(p)]
    OBVIOUS
  <2> HIDE DEF head, then
  <2>7. f = [p \in 0 .. n |-> IF p = n THEN <<>> ELSE <<part(p)>> \o f[Behind(p)]]
    <3>1. \A p \in 0 .. n : (IF p = n THEN <<>> ELSE head[p] \o f[then[p]])
                                = (IF p = n THEN <<>> ELSE <<part(p)>> \o f[Behind(p)])
      BY <2>5, <2>6, Zenon
    <3> QED
      BY <2>4, <3>1, Zenon DEF IsChain
  <2>8. rest = [p \in 0 .. n |-> IF p = n THEN <<>> ELSE <<part(p)>> \o rest[Behind(p)]]
    BY <2>7, Zenon
  <2> HIDE DEF rest, part
  <2>9. rest[n] = <<>>
    BY <1>0, <2>8
  <2>10. \A p \in 0 .. n - 1 : rest[p] = <<part(p)>> \o rest[Behind(p)]
    <3>1. \A p \in 0 .. n - 1 : p \in 0 .. n /\ p # n
      BY <1>0
    <3> QED
      BY <2>8, <3>1, Zenon
  <2> DEFINE Right(p) == Parted(rest[p], Solid(SubSeq(s, p + 1, n)), avail)
             Missed == {k \in 0 .. n : ~Right(n - k)}
  <2>11. Right(n)
    <3>1. SubSeq(s, n + 1, n) = <<>>
      BY <1>0 DEF Chars
    <3> QED
      BY <2>9, <3>1, SolidOfNothing, NothingParted
  <2>12. ASSUME NEW p \in 0 .. n - 1, \A q \in p + 1 .. n : Right(q)
         PROVE  Right(p)
    <3>1. /\ To(p) \in p + 1 .. n /\ To(p) - p <= avail /\ Behind(p) \in To(p) .. n
          /\ OnlySpaces(s, To(p) + 1, Behind(p))
      BY <2>2
    <3> DEFINE to == To(p)
               q == Behind(p)
    <3>2. p \in Nat /\ to \in Nat /\ q \in Nat /\ p <= to /\ to <= q /\ q <= Len(s) /\ q \in p + 1 .. n
          /\ to <= n /\ to - p <= avail
      <4> HIDE DEF Right
      <4> QED
        BY <1>0, <3>1
    <3>3. Solid(SubSeq(s, p + 1, n)) = Solid(part(p)) \o Solid(SubSeq(s, q + 1, n))
      <4> HIDE DEF to, q, Right
      <4>1. Solid(SubSeq(s, p + 1, Len(s))) = Solid(SubSeq(s, p + 1, to)) \o Solid(SubSeq(s, q + 1, Len(s)))
        <5>1. /\ p \in Nat /\ to \in Nat /\ q \in Nat /\ p <= to /\ to <= q /\ q <= Len(s)
              /\ OnlySpaces(s, to + 1, q)
          BY <3>1, <3>2, Zenon DEF to, q
        <5> QED
          BY <5>1, SolidFrom, ZenonT(40)
      <4> QED
        BY <4>1 DEF to, q, part
    <3>4. part(p) \in Chars /\ Len(part(p)) <= avail
      <4>1. p \in 0 .. Len(s) /\ to \in 0 .. Len(s)
        BY <1>0, <3>2
      <4>2. SubSeq(s, p + 1, to) \in Chars
        BY <4>1, PartIsText
      <4>3. Len(SubSeq(s, p + 1, to)) = to - p
        <5> HIDE DEF to, q, Right
        <5>1. p + 1 \in Int /\ to \in Int /\ \A j \in p + 1 .. to : s[j] \in Letters
          BY <1>0, <3>2 DEF Chars
        <5>2. Len(SubSeq(s, p + 1, to)) = IF p + 1 <= to THEN to - (p + 1) + 1 ELSE 0
          BY <5>1, SubSeqProperties
        <5> QED
          BY <3>2, <5>2
      <4> HIDE DEF Right
      <4> QED
        BY <3>2, <4>2, <4>3 DEF part
    <3>5. SubSeq(s, q + 1, n) \in Chars
      <4>1. q \in 0 .. Len(s) /\ n \in 0 .. Len(s)
        BY <1>0, <3>2
      <4> HIDE DEF q
      <4> QED
        BY <4>1, PartIsText
    <3>6. Parted(rest[q], Solid(SubSeq(s, q + 1, n)), avail) /\ Solid(SubSeq(s, q + 1, n)) \in Chars
      BY <2>12, <3>2, <3>5, SolidIsText
    <3>7. Parted(<<part(p)>> \o rest[q], Solid(part(p)) \o Solid(SubSeq(s, q + 1, n)), avail)
      <4> HIDE DEF q, n
      <4> QED
        BY <3>4, <3>6, PartedOn
    <3> QED
      BY <2>10, <3>3, <3>7
  <2> HIDE DEF Right
  <2>13. Missed = {}
    <3> SUFFICES ASSUME Missed # {} PROVE FALSE
      OBVIOUS
    <3>1. Missed \in SUBSET Nat
      OBVIOUS
    <3> DEFINE m == Min(Missed)
    <3>2. m \in Missed /\ \A k \in Missed : m <= k
      BY <3>1, MinIsLeast, Zenon
    <3> HIDE DEF m
    <3>3. m \in 0 .. n /\ ~Right(n - m)
      BY <3>2
    <3>4. m # 0
      <4>1. n - 0 = n
        BY <1>0
      <4> QED
        BY <2>11, <3>3, <4>1
    <3>5. \A q \in n - m + 1 .. n : Right(q)
      <4> TAKE q \in n - m + 1 .. n
      <4>1. n - q \in 0 .. n /\ n - q < m /\ n - (n - q) = q
        BY <1>0, <3>3
      <4>2. n - q \notin Missed
        <5> HIDE DEF Missed
        <5> QED
          BY <3>2, <3>3, <4>1
      <4> QED
        BY <4>1, <4>2
    <3>6. n - m \in 0 .. n - 1
      BY <1>0, <3>3, <3>4
    <3> HIDE DEF Missed
    <3> QED
      BY <2>12, <3>3, <3>5, <3>6
  <2>14. n \in 0 .. n /\ n - n = 0
    BY <1>0
  <2>15. Right(0)
    BY <2>13, <2>14
  <2>16. SubSeq(s, 0 + 1, n) = s
    BY <1>0 DEF Chars
  <2> QED
    BY <2>1, <2>15, <2>16 DEF Right
<1> QED
  BY <1>1, <1>2

--------------------------------------------------------------------------------
(* The lines of the window.                                                *)

Parts == [chars : Chars, link : Nat, line : Nat]

\* What is told of line i of the text, piece by piece.
Telling(parts, i, f) ==
  /\ f \in [0 .. Len(parts) -> Chars]
  /\ f[0] = <<>>
  /\ \A k \in 1 .. Len(parts) :
       f[k] = IF parts[k].line = i THEN f[k - 1] \o Solid(parts[k].chars) ELSE f[k - 1]

Tells(parts, i, t) == \E f : Telling(parts, i, f) /\ f[Len(parts)] = t

LEMMA NothingTold ==
  ASSUME NEW i
  PROVE  Tells(<<>>, i, <<>>)
<1> DEFINE f == [k \in 0 .. 0 |-> <<>>]
<1>1. f \in [0 .. 0 -> Chars] /\ f[0] = <<>>
  <2>1. <<>> \in Chars
    BY DEF Chars
  <2> QED
    BY <2>1
<1>2. Len(<<>>) = 0 /\ \A k \in 1 .. 0 : FALSE
  OBVIOUS
<1> HIDE DEF f
<1>3. f \in [0 .. Len(<<>>) -> Chars] /\ f[Len(<<>>)] = <<>>
  BY <1>1, <1>2, Zenon
<1>4. \A k \in 1 .. Len(<<>>) : FALSE
  BY <1>2, Zenon
<1>5. Telling(<<>>, i, f)
  BY <1>1, <1>3, <1>4, Zenon DEF Telling
<1> QED
  BY <1>3, <1>5, Zenon DEF Tells

LEMMA TypedAt ==
  \A T : \A s \in Seq(T) : \A k \in 1 .. Len(s) : s[k] \in T
<1> TAKE T
<1> TAKE s \in Seq(T)
<1> QED
  OBVIOUS

\* Some lines behind others.
LEMMA ToldOn ==
  ASSUME NEW parts \in Seq(Parts), NEW more \in Seq(Parts), NEW i, NEW t \in Chars, NEW u \in Chars,
         Tells(parts, i, t), Tells(more, i, u)
  PROVE  Tells(parts \o more, i, t \o u)
<1> DEFINE n == Len(parts)
           m == Len(more)
           all == parts \o more
<1>1. PICK f : Telling(parts, i, f) /\ f[n] = t
  BY Zenon DEF Tells
<1>2. PICK h : Telling(more, i, h) /\ h[m] = u
  BY Zenon DEF Tells
<1>3. /\ n \in Nat /\ m \in Nat /\ Len(all) = n + m
      /\ \A k \in 1 .. n : all[k] = parts[k]
      /\ \A k \in n + 1 .. n + m : all[k] = more[k - n]
  OBVIOUS
<1>4. /\ f \in [0 .. n -> Chars] /\ f[0] = <<>>
      /\ \A k \in 1 .. n : f[k] = IF parts[k].line = i THEN f[k - 1] \o Solid(parts[k].chars) ELSE f[k - 1]
  BY <1>1, Zenon DEF Telling
<1>5. /\ h \in [0 .. m -> Chars] /\ h[0] = <<>>
      /\ \A k \in 1 .. m : h[k] = IF more[k].line = i THEN h[k - 1] \o Solid(more[k].chars) ELSE h[k - 1]
  BY <1>2, Zenon DEF Telling
<1>6. \A k \in 1 .. m : Solid(more[k].chars) \in Chars
  <2> TAKE k \in 1 .. m
  <2>1. more[k] \in Parts
    BY TypedAt, Zenon
  <2>2. more[k].chars \in Chars
    BY <2>1 DEF Parts
  <2> QED
    BY <2>2, SolidIsText
<1> HIDE DEF n, m, all
<1> DEFINE g == [k \in 0 .. n + m |-> IF k <= n THEN f[k] ELSE t \o h[k - n]]
<1>7. \A k \in 0 .. n : g[k] = f[k]
  BY <1>3
<1>8. \A k \in n .. n + m : g[k] = t \o h[k - n] /\ k - n \in 0 .. m
  <2> TAKE k \in n .. n + m
  <2>1. k - n \in 0 .. m /\ k \in 0 .. n + m /\ (k <= n => k = n) /\ n - n = 0
    BY <1>3
  <2>2. CASE k = n
    <3>1. t \o <<>> = t
      BY ThreeTexts
    <3> QED
      BY <1>1, <1>5, <2>1, <2>2, <3>1
  <2>3. CASE k # n
    BY <2>1, <2>3
  <2> QED
    BY <2>2, <2>3
<1>9. g \in [0 .. n + m -> Chars]
  <2>1. ASSUME NEW k \in 0 .. n + m PROVE g[k] \in Chars
    <3>1. k \in 0 .. n \/ k \in n .. n + m
      BY <1>3
    <3>2. CASE k \in 0 .. n
      BY <1>4, <1>7, <3>2
    <3>3. CASE k \in n .. n + m
      <4> HIDE DEF g
      <4>1. h[k - n] \in Chars
        BY <1>5, <1>8, <3>3
      <4>2. t \o h[k - n] \in Chars
        BY <4>1, ThreeTexts
      <4> QED
        BY <1>8, <3>3, <4>2
    <3> QED
      BY <3>1, <3>2, <3>3
  <2>2. g = [k \in 0 .. n + m |-> g[k]]
    OBVIOUS
  <2> HIDE DEF g
  <2> QED
    BY <2>1, <2>2
<1> HIDE DEF g
<1>10. ASSUME NEW k \in 1 .. n + m
       PROVE  g[k] = IF all[k].line = i THEN g[k - 1] \o Solid(all[k].chars) ELSE g[k - 1]
  <2>1. CASE k \in 1 .. n
    <3>1. k - 1 \in 0 .. n /\ k \in 0 .. n
      BY <1>3, <2>1
    <3> QED
      BY <1>3, <1>4, <1>7, <2>1, <3>1
  <2>2. CASE k \notin 1 .. n
    <3>1. k \in n + 1 .. n + m /\ k \in n .. n + m /\ k - 1 \in n .. n + m /\ k - n \in 1 .. m
          /\ k - 1 - n = k - n - 1 /\ k - n - 1 \in 0 .. m
      BY <1>3, <2>2
    <3> DEFINE j == k - n
               e == h[j - 1]
               z == Solid(more[j].chars)
    <3>2. /\ g[k] = t \o h[j] /\ g[k - 1] = t \o e /\ all[k] = more[j]
          /\ h[j] = IF more[j].line = i THEN e \o z ELSE e
      BY <1>3, <1>5, <1>8, <3>1
    <3>3. e \in Chars /\ z \in Chars
      BY <1>5, <1>6, <3>1
    <3>4. all[k] = more[j] => Solid(all[k].chars) = z
      OBVIOUS
    <3> HIDE DEF e, z, j
    <3>5. t \o (e \o z) = (t \o e) \o z
      BY <3>3, ConcatText, Zenon
    <3> QED
      BY <3>2, <3>4, <3>5, Zenon
  <2> QED
    BY <2>1, <2>2
<1>11. g[0] = <<>> /\ g[n + m] = t \o u
  <2>1. 0 \in 0 .. n /\ n + m \in n .. n + m /\ n + m - n = m
    BY <1>3
  <2>2. g[0] = f[0]
    BY <1>7, <2>1
  <2>3. g[n + m] = t \o h[m]
    <3> DEFINE e == n + m
    <3>1. e \in n .. n + m /\ e - n = m
      BY <1>3
    <3> HIDE DEF e
    <3>2. g[e] = t \o h[e - n]
      BY <1>8, <3>1
    <3> QED
      BY <3>1, <3>2 DEF e
  <2> QED
    BY <1>2, <1>4, <2>2, <2>3, Zenon
<1>12. Telling(all, i, g)
  BY <1>3, <1>9, <1>10, <1>11 DEF Telling
<1>13. Tells(all, i, t \o u)
  BY <1>3, <1>11, <1>12 DEF Tells
<1> QED
  BY <1>13 DEF all

\* The pieces of line j tell what they spell of it, and nothing of the others.
LEMMA PiecesTell ==
  ASSUME NEW pieces \in Seq(Chars), NEW t \in Chars, Spells(pieces, t), NEW link \in Nat, NEW j \in Nat, NEW i
  PROVE  LET parts == [k \in DOMAIN pieces |-> [chars |-> pieces[k], link |-> link, line |-> j]]
         IN /\ parts \in Seq(Parts) /\ Len(parts) = Len(pieces)
            /\ Tells(parts, i, IF j = i THEN t ELSE <<>>)
<1> DEFINE n == Len(pieces)
           parts == [k \in DOMAIN pieces |-> [chars |-> pieces[k], link |-> link, line |-> j]]
<1>1. /\ n \in Nat /\ DOMAIN pieces = 1 .. n /\ \A k \in 1 .. n : pieces[k] \in Chars
  OBVIOUS
<1>2. parts \in [1 .. n -> Parts]
  BY <1>1 DEF Parts
<1>3. parts \in Seq(Parts) /\ Len(parts) = n
  <2> HIDE DEF parts, n
  <2> QED
    BY <1>1, <1>2
<1>4. \A k \in 1 .. n : parts[k].line = j /\ parts[k].chars = pieces[k]
  BY <1>1
<1> HIDE DEF parts, n
<1>5. CASE j = i
  <2>1. PICK f \in [0 .. n -> Chars] :
          /\ f[0] = <<>> /\ f[n] = t
          /\ \A k \in 1 .. n : f[k] = f[k - 1] \o Solid(pieces[k])
    BY Zenon DEF Spells, n
  <2>2. Telling(parts, i, f)
    BY <1>3, <1>4, <1>5, <2>1 DEF Telling
  <2>3. Tells(parts, i, t)
    BY <1>3, <2>1, <2>2 DEF Tells
  <2> QED
    BY <1>3, <1>5, <2>3 DEF parts, n
<1>6. CASE j # i
  <2> DEFINE f == [k \in 0 .. n |-> <<>>]
  <2>1. <<>> \in Chars
    BY DEF Chars
  <2>2. f \in [0 .. n -> Chars] /\ f[0] = <<>> /\ f[n] = <<>> /\ \A k \in 1 .. n : f[k] = f[k - 1]
    BY <1>1, <2>1
  <2> HIDE DEF f
  <2>3. Telling(parts, i, f)
    BY <1>3, <1>4, <1>6, <2>2 DEF Telling
  <2>4. Tells(parts, i, <<>>)
    BY <1>3, <2>2, <2>3 DEF Tells
  <2> QED
    BY <1>3, <1>6, <2>4 DEF parts, n
<1> QED
  BY <1>5, <1>6

\* What LinesShowText gathers of line i.
Gathered(parts, i) ==
  LET upTo[k \in 0 .. Len(parts)] ==
        IF k = 0 THEN <<>>
        ELSE IF parts[k].line = i THEN upTo[k - 1] \o Solid(parts[k].chars)
        ELSE upTo[k - 1]
  IN upTo[Len(parts)]

LEMMA GatheredIs ==
  ASSUME NEW parts \in Seq(Parts), NEW i, NEW t, Tells(parts, i, t)
  PROVE  Gathered(parts, i) = t
<1> DEFINE n == Len(parts)
           Rule(f, k) == IF k = 0 THEN <<>>
                         ELSE IF parts[k].line = i THEN f[k - 1] \o Solid(parts[k].chars)
                         ELSE f[k - 1]
           upTo == CHOOSE f : f = [k \in 0 .. n |-> Rule(f, k)]
<1>0. n \in Nat
  OBVIOUS
<1>1. PICK f : Telling(parts, i, f) /\ f[n] = t
  BY Zenon DEF Tells
<1>2. Gathered(parts, i) = upTo[n]
  BY DEF Gathered
<1>3. f = [k \in 0 .. n |-> Rule(f, k)]
  <2>1. f = [k \in 0 .. n |-> f[k]]
    BY <1>1 DEF Telling
  <2>2. \A k \in 0 .. n : f[k] = Rule(f, k)
    <3> TAKE k \in 0 .. n
    <3>1. k = 0 \/ k \in 1 .. n
      BY <1>0
    <3> HIDE DEF n
    <3> QED
      BY <1>1, <3>1, Zenon DEF Telling, n
  <2> HIDE DEF Rule
  <2> QED
    BY <2>1, <2>2
<1>4. upTo = [k \in 0 .. n |-> Rule(upTo, k)]
  <2> HIDE DEF Rule
  <2> QED
    BY <1>3, Zenon
<1> HIDE DEF upTo
<1> DEFINE Wrong == {k \in 0 .. n : f[k] # upTo[k]}
<1>5. Wrong = {}
  <2> SUFFICES ASSUME Wrong # {} PROVE FALSE
    OBVIOUS
  <2>1. Wrong \in SUBSET Nat
    <3> HIDE DEF Rule
    <3> QED
      OBVIOUS
  <2> DEFINE m == Min(Wrong)
  <2>2. m \in Wrong /\ \A k \in Wrong : m <= k
    <3> HIDE DEF Wrong, Rule
    <3> QED
      BY <2>1, MinIsLeast, Zenon
  <2> HIDE DEF m
  <2>3. m \in 0 .. n /\ f[m] # upTo[m]
    BY <2>2
  <2>4. f[m] = Rule(f, m) /\ upTo[m] = Rule(upTo, m)
    <3> HIDE DEF Rule
    <3> QED
      BY <1>3, <1>4, <2>3, Zenon
  <2>5. m # 0
    BY <2>3, <2>4
  <2>6. m - 1 \in 0 .. n /\ ~(m <= m - 1)
    BY <1>0, <2>3, <2>5
  <2>7. m - 1 \notin Wrong
    <3> HIDE DEF Wrong
    <3> QED
      BY <2>2, <2>6
  <2>8. f[m - 1] = upTo[m - 1]
    BY <2>6, <2>7
  <2>9. Rule(f, m) = Rule(upTo, m)
    BY <2>8, Zenon
  <2> QED
    BY <2>3, <2>4, <2>9
<1>6. n \in 0 .. n
  BY <1>0
<1> QED
  BY <1>1, <1>2, <1>5, <1>6

\* The room a line has.
LEMMA AvailIs ==
  ASSUME NEW line \in GemLineSet, NEW width \in Int
  PROVE  Avail(line, width) \in Nat \ {0}
<1>1. line.kind \in Kinds
  BY DEF GemLineSet
<1>2. Indent[line.kind] \in Nat /\ WidthMin \in Nat \ {0}
  BY <1>1, ViewerAssumption
<1> QED
  BY <1>2 DEF Avail

\* A width that is below the least one makes no difference.
LEMMA AvailOfLeast ==
  ASSUME NEW line \in GemLineSet, NEW w \in Nat
  PROVE  Avail(line, IF w > WidthMin THEN w ELSE WidthMin) = Avail(line, w)
<1>1. line.kind \in Kinds
  BY DEF GemLineSet
<1>2. Indent[line.kind] \in Nat /\ WidthMin \in Nat \ {0}
  BY <1>1, ViewerAssumption
<1> QED
  BY <1>2 DEF Avail

Fits(lines, width, part) ==
  /\ part.line \in 1 .. Len(lines)
  /\ part.link = NumberOf(lines, part.line)
  /\ lines[part.line].kind # "pre" => Len(part.chars) <= Avail(lines[part.line], width)

LEMMA NumberIsNat ==
  ASSUME NEW lines, NEW i \in Nat
  PROVE  NumberOf(lines, i) \in Nat
<1> DEFINE K == {j \in 1 .. i : lines[j].kind = "link"}
<1>1. Cardinality(K) \in Nat
  <2>1. IsFiniteSet(1 .. i)
    BY FS_Interval
  <2>2. K \in SUBSET (1 .. i)
    OBVIOUS
  <2> HIDE DEF K
  <2> QED
    BY <2>1, <2>2, FS_Subset, FS_CardinalityType
<1>2. NumberOf(lines, i) = Cardinality(K) \/ NumberOf(lines, i) = 0
  BY DEF NumberOf
<1> QED
  BY <1>1, <1>2

\* What is shown of a line.
LEMMA ShownIsText ==
  ASSUME NEW line \in GemLineSet
  PROVE  ShownChars(line) \in Chars
BY DEF ShownChars, GemLineSet

\* The lines of the window that one line of the text makes.
LEMMA DisplayTells ==
  ASSUME NEW lines \in Seq(GemLineSet), NEW i \in 1 .. Len(lines), NEW width \in Int
  PROVE  LET d == DisplayOf(lines, i, width)
         IN /\ d \in Seq(Parts)
            /\ \A j : Tells(d, j, IF i = j THEN Solid(ShownChars(lines[i])) ELSE <<>>)
            /\ \A k \in 1 .. Len(d) : Fits(lines, width, d[k])
<1> DEFINE line == lines[i]
           avail == Avail(line, width)
           pieces == IF line.kind = "pre" THEN <<line.chars>> ELSE PiecesOf(ShownChars(line), avail)
           d == DisplayOf(lines, i, width)
           t == Solid(ShownChars(line))
<1>1. line \in GemLineSet /\ i \in Nat
  BY TypedAt
<1> HIDE DEF line
<1>2. avail \in Nat \ {0} /\ ShownChars(line) \in Chars
  BY <1>1, AvailIs, ShownIsText
<1> HIDE DEF avail
<1>3. t \in Chars
  BY <1>2, SolidIsText
<1>4. /\ pieces \in Seq(Chars) /\ Spells(pieces, t)
      /\ line.kind # "pre" => \A k \in 1 .. Len(pieces) : Len(pieces[k]) <= avail
  <2>1. CASE line.kind = "pre"
    <3>1. ShownChars(line) = line.chars
      BY <2>1 DEF ShownChars
    <3>2. Len(line.chars) \in Nat /\ Len(line.chars) <= Len(line.chars)
      BY <1>2, <3>1, TextLength
    <3>3. Parted(<<line.chars>>, t, Len(line.chars))
      BY <1>2, <3>1, <3>2, OnePieceParted
    <3>4. <<line.chars>> \in Seq(Chars) /\ Spells(<<line.chars>>, t)
      BY <3>3, Zenon DEF Parted
    <3> HIDE DEF t
    <3> QED
      BY <2>1, <3>4
  <2>2. CASE line.kind # "pre"
    <3>1. Parted(PiecesOf(ShownChars(line), avail), t, avail)
      BY <1>2, PiecesAre
    <3>2. pieces = PiecesOf(ShownChars(line), avail)
      BY <2>2
    <3> HIDE DEF t, pieces
    <3> QED
      BY <3>1, <3>2 DEF Parted
  <2> QED
    BY <2>1, <2>2
<1>5. d = [k \in DOMAIN pieces |-> [chars |-> pieces[k], link |-> NumberOf(lines, i), line |-> i]]
  BY Zenon DEF DisplayOf, line, avail
<1>6. NumberOf(lines, i) \in Nat
  BY <1>1, NumberIsNat
<1> HIDE DEF pieces, d, t
<1>7. d \in Seq(Parts) /\ Len(d) = Len(pieces) /\ \A j : Tells(d, j, IF i = j THEN t ELSE <<>>)
  <2>1. ASSUME NEW j
        PROVE  d \in Seq(Parts) /\ Len(d) = Len(pieces) /\ Tells(d, j, IF i = j THEN t ELSE <<>>)
    <3>1. i \in Nat
      BY <1>1
    <3> QED
      BY <3>1, <1>3, <1>4, <1>5, <1>6, PiecesTell, ZenonT(40)
  <2> QED
    BY <2>1
<1>8. ASSUME NEW k \in 1 .. Len(d)
      PROVE  Fits(lines, width, d[k])
  <2>1. k \in DOMAIN pieces /\ k \in 1 .. Len(pieces)
    BY <1>4, <1>7
  <2>2. d[k] = [chars |-> pieces[k], link |-> NumberOf(lines, i), line |-> i]
    BY <1>5, <2>1, Zenon
  <2>3. d[k].line = i /\ d[k].link = NumberOf(lines, i) /\ d[k].chars = pieces[k]
    BY <2>2
  <2>4. line.kind # "pre" => Len(d[k].chars) <= avail
    BY <1>4, <2>1, <2>3
  <2> QED
    BY <2>3, <2>4, Zenon DEF Fits, line, avail
<1> QED
  BY <1>7, <1>8, Zenon DEF d, t, line

--------------------------------------------------------------------------------
IsGathering(f, n, d) ==
  f = [i \in 0 .. n |-> IF i = 0 THEN <<>> ELSE f[i - 1] \o d[i]]

\* A function that gathers what is given for 1 to n exists.
LEMMA GatheringExists ==
  ASSUME NEW n \in Nat, NEW d
  PROVE  \E f : IsGathering(f, n, d)
<1> DEFINE Rule(f, i) == IF i = 0 THEN <<>> ELSE f[i - 1] \o d[i]
           Has(m) == \E f : f = [i \in 0 .. m |-> Rule(f, i)]
           Lacking == {m \in Nat : ~Has(m)}
<1>1. Has(0)
  <2>1. [i \in 0 .. 0 |-> <<>>] = [i \in 0 .. 0 |-> Rule([j \in 0 .. 0 |-> <<>>], i)]
    OBVIOUS
  <2> QED
    BY <2>1
<1>2. ASSUME NEW m \in Nat \ {0}, Has(m - 1)
      PROVE  Has(m)
  <2>1. PICK f : f = [i \in 0 .. m - 1 |-> Rule(f, i)]
    BY <1>2
  <2> DEFINE g == [i \in 0 .. m |-> IF i = m THEN Rule(f, i) ELSE f[i]]
  <2>2. \A i \in 0 .. m : g[i] = Rule(f, i)
    <3>1. \A i \in 0 .. m - 1 : f[i] = Rule(f, i)
      BY <2>1, Zenon
    <3> HIDE DEF Rule
    <3> QED
      BY <3>1
  <2>3. \A i \in 0 .. m : i = 0 \/ g[i - 1] = f[i - 1]
    <3> HIDE DEF Rule
    <3> QED
      OBVIOUS
  <2>4. \A i \in 0 .. m : Rule(f, i) = Rule(g, i)
    <3> HIDE DEF g
    <3> QED
      BY <2>3, Zenon
  <2>5. g = [i \in 0 .. m |-> g[i]]
    OBVIOUS
  <2> HIDE DEF g, Rule
  <2>6. g = [i \in 0 .. m |-> Rule(g, i)]
    BY <2>2, <2>4, <2>5
  <2> QED
    BY <2>6
<1>3. Lacking = {}
  <2>1. SUFFICES ASSUME Lacking # {} PROVE FALSE
    OBVIOUS
  <2>2. Lacking \in SUBSET Nat
    <3> HIDE DEF Has
    <3> QED
      OBVIOUS
  <2> DEFINE least == Min(Lacking)
  <2>3. least \in Lacking /\ \A k \in Lacking : least <= k
    BY <2>1, <2>2, MinIsLeast, Zenon
  <2>4. least \in Nat /\ ~Has(least)
    BY <2>3
  <2> HIDE DEF Has, least
  <2>5. least \in Nat \ {0} /\ least - 1 \in Nat /\ ~(least <= least - 1)
    BY <1>1, <2>4
  <2>6. Has(least - 1)
    BY <2>3, <2>5
  <2> QED
    BY <1>2, <2>4, <2>5, <2>6
<1>4. Has(n)
  <2> HIDE DEF Has
  <2> QED
    BY <1>3
<1> QED
  BY <1>4 DEF IsGathering

\* Up to line i of the text the lines of the window tell these lines.
TellsUpTo(parts, lines, width, i) ==
  /\ parts \in Seq(Parts)
  /\ \A k \in 1 .. Len(parts) : Fits(lines, width, parts[k])
  /\ \A j \in 1 .. Len(lines) :
       Tells(parts, j, IF j <= i THEN Solid(ShownChars(lines[j])) ELSE <<>>)

LEMMA OneLineMore ==
  ASSUME NEW lines \in Seq(GemLineSet), NEW i \in 1 .. Len(lines), NEW width \in Int, NEW parts,
         TellsUpTo(parts, lines, width, i - 1)
  PROVE  TellsUpTo(parts \o DisplayOf(lines, i, width), lines, width, i)
<1> DEFINE d == DisplayOf(lines, i, width)
           all == parts \o d
           n == Len(parts)
           m == Len(d)
           t(j) == Solid(ShownChars(lines[j]))
<1>1. /\ d \in Seq(Parts) /\ \A j : Tells(d, j, IF i = j THEN t(i) ELSE <<>>)
      /\ \A k \in 1 .. m : Fits(lines, width, d[k])
  BY DisplayTells, Zenon
<1>2. /\ parts \in Seq(Parts) /\ \A k \in 1 .. n : Fits(lines, width, parts[k])
      /\ \A j \in 1 .. Len(lines) : Tells(parts, j, IF j <= i - 1 THEN t(j) ELSE <<>>)
  BY Zenon DEF TellsUpTo
<1>3. \A j \in 1 .. Len(lines) : t(j) \in Chars
  <2> TAKE j \in 1 .. Len(lines)
  <2>1. lines[j] \in GemLineSet
    BY TypedAt
  <2> QED
    BY <2>1, ShownIsText, SolidIsText
<1> HIDE DEF d, t
<1>4. /\ n \in Nat /\ m \in Nat /\ Len(all) = n + m /\ all \in Seq(Parts)
      /\ \A k \in 1 .. n : all[k] = parts[k]
      /\ \A k \in n + 1 .. n + m : all[k] = d[k - n]
  BY <1>1, <1>2
<1> HIDE DEF all, n, m
<1>5. ASSUME NEW k \in 1 .. Len(all)
      PROVE  Fits(lines, width, all[k])
  <2>1. k \in 1 .. n \/ (k \in n + 1 .. n + m /\ k - n \in 1 .. m)
    BY <1>4
  <2> QED
    BY <1>1, <1>2, <1>4, <2>1, Zenon
<1>6. ASSUME NEW j \in 1 .. Len(lines)
      PROVE  Tells(all, j, IF j <= i THEN t(j) ELSE <<>>)
  <2>0. <<>> \in Chars /\ t(j) \in Chars
    BY <1>3 DEF Chars
  <2> DEFINE a == IF j <= i - 1 THEN t(j) ELSE <<>>
             b == IF i = j THEN t(i) ELSE <<>>
             c == IF j <= i THEN t(j) ELSE <<>>
  <2>1. Tells(parts, j, a) /\ Tells(d, j, b)
    BY <1>1, <1>2, Zenon
  <2>2. a \in Chars /\ b \in Chars
    BY <2>0
  <2>3. Tells(all, j, a \o b)
    <3> HIDE DEF a, b
    <3> QED
      BY <1>1, <1>2, <2>1, <2>2, ToldOn DEF all
  <2>4. t(j) \o <<>> = t(j) /\ <<>> \o t(j) = t(j) /\ <<>> \o <<>> = <<>>
    BY <2>0, ThreeTexts
  <2>5. \/ j <= i - 1 /\ j <= i /\ i # j
        \/ i = j /\ j <= i /\ ~(j <= i - 1)
        \/ ~(j <= i) /\ ~(j <= i - 1) /\ i # j
    OBVIOUS
  <2>6. a \o b = c
    BY <2>4, <2>5, Zenon
  <2> QED
    BY <2>3, <2>6, Zenon
<1>7. TellsUpTo(all, lines, width, i)
  BY <1>4, <1>5, <1>6, Zenon DEF TellsUpTo, t
<1> QED
  BY <1>7, Zenon DEF all, d

\* The lines of the window show the text, as far as there is room for lines.
LEMMA WrappedShows ==
  ASSUME NEW text \in Seq(Chars), NEW width \in Int
  PROVE  LET lines == GemLines(text)
             w == Wrapped(text, width)
         IN /\ w \in Seq(Parts)
            /\ \A k \in 1 .. Len(w) : Fits(lines, width, w[k])
            /\ Len(w) < LinesMax =>
                 \A i \in 1 .. Len(lines) : Gathered(w, i) = Solid(ShownChars(lines[i]))
<1> DEFINE lines == GemLines(text)
           n == Len(lines)
           D(i) == DisplayOf(lines, i, width)
           upTo == CHOOSE f : f = [i \in 0 .. n |-> IF i = 0 THEN <<>> ELSE f[i - 1] \o D(i)]
           all == upTo[n]
           d == [i \in 1 .. n |-> D(i)]
           Told(i) == TellsUpTo(upTo[i], lines, width, i)
           Wrong == {i \in 0 .. n : ~Told(i)}
<1>1. Wrapped(text, width) = IF Len(all) <= LinesMax THEN all ELSE SubSeq(all, 1, LinesMax)
  BY DEF Wrapped
<1>2. lines \in Seq(GemLineSet)
  BY GemLinesAreLines
<1> HIDE DEF lines
<1>3. n \in Nat
  BY <1>2
<1>4. PICK f : IsGathering(f, n, d)
  <2> HIDE DEF n, d
  <2> QED
    BY <1>3, GatheringExists
<1>5. f = [i \in 0 .. n |-> IF i = 0 THEN <<>> ELSE f[i - 1] \o D(i)]
  <2>1. \A i \in 0 .. n : i = 0 \/ d[i] = D(i)
    <3> HIDE DEF D
    <3> QED
      BY <1>3
  <2> HIDE DEF d, D, n
  <2>2. \A i \in 0 .. n : (IF i = 0 THEN <<>> ELSE f[i - 1] \o d[i])
                          = (IF i = 0 THEN <<>> ELSE f[i - 1] \o D(i))
    BY <2>1, Zenon
  <2> QED
    BY <1>4, <2>2, Zenon DEF IsGathering
<1>6. upTo = [i \in 0 .. n |-> IF i = 0 THEN <<>> ELSE upTo[i - 1] \o D(i)]
  BY <1>5, Zenon
<1> HIDE DEF upTo, d
<1>7. upTo[0] = <<>> /\ \A i \in 1 .. n : upTo[i] = upTo[i - 1] \o D(i)
  <2> HIDE DEF D
  <2>1. 0 \in 0 .. n /\ \A i \in 1 .. n : i \in 0 .. n /\ i # 0
    BY <1>3
  <2> HIDE DEF n
  <2>2. upTo[0] = <<>>
    BY <1>6, <2>1, Zenon
  <2>3. \A i \in 1 .. n : upTo[i] = upTo[i - 1] \o D(i)
    BY <1>6, <2>1, Zenon
  <2> QED
    BY <2>2, <2>3
<1>8. Told(0)
  <2>1. <<>> \in Seq(Parts) /\ Len(<<>>) = 0
    OBVIOUS
  <2>2. \A k \in 1 .. Len(<<>>) : FALSE
    BY <2>1
  <2>3. \A j \in 1 .. Len(lines) : ~(j <= 0)
    BY <1>3
  <2>4. TellsUpTo(<<>>, lines, width, 0)
    BY <2>1, <2>2, <2>3, NothingTold, Zenon DEF TellsUpTo
  <2> QED
    BY <1>7, <2>4
<1>9. ASSUME NEW i \in 1 .. n, Told(i - 1)
      PROVE  Told(i)
  <2>1. TellsUpTo(upTo[i - 1] \o D(i), lines, width, i)
    BY <1>2, <1>9, OneLineMore
  <2> QED
    BY <1>7, <2>1
<1>10. Wrong = {}
  <2> SUFFICES ASSUME Wrong # {} PROVE FALSE
    OBVIOUS
  <2>1. Wrong \in SUBSET Nat
    <3> HIDE DEF Told
    <3> QED
      OBVIOUS
  <2> DEFINE m == Min(Wrong)
  <2>2. m \in Wrong /\ \A k \in Wrong : m <= k
    <3> HIDE DEF Wrong
    <3> QED
      BY <2>1, MinIsLeast, Zenon
  <2> HIDE DEF m, Told
  <2>3. m \in 0 .. n /\ ~Told(m)
    BY <2>2
  <2>4. m # 0
    BY <1>8, <2>3
  <2>5. m - 1 \in 0 .. n /\ ~(m <= m - 1) /\ m \in 1 .. n
    BY <1>3, <2>3, <2>4
  <2>6. Told(m - 1)
    BY <2>2, <2>5
  <2> QED
    BY <1>9, <2>3, <2>5, <2>6
<1>11. Told(n)
  <2> HIDE DEF Told
  <2>1. n \in 0 .. n
    BY <1>3
  <2> QED
    BY <1>10, <2>1
<1>12. /\ all \in Seq(Parts) /\ \A k \in 1 .. Len(all) : Fits(lines, width, all[k])
       /\ \A j \in 1 .. n : Tells(all, j, Solid(ShownChars(lines[j])))
  <2> DEFINE t(j) == Solid(ShownChars(lines[j]))
  <2>1. \A j \in 1 .. n : j <= n
    BY <1>3
  <2> HIDE DEF t
  <2>2. /\ all \in Seq(Parts) /\ \A k \in 1 .. Len(all) : Fits(lines, width, all[k])
        /\ \A j \in 1 .. n : Tells(all, j, IF j <= n THEN t(j) ELSE <<>>)
    BY <1>11, Zenon DEF TellsUpTo, t
  <2> QED
    BY <2>1, <2>2, Zenon DEF t
<1> DEFINE w == Wrapped(text, width)
<1> HIDE DEF all, n
<1>13. LinesMax \in Nat /\ Len(all) \in Nat
  BY <1>12, ViewerAssumption
<1>14. CASE Len(all) <= LinesMax
  <2>1. w = all
    BY <1>1, <1>14
  <2>2. \A i \in 1 .. n : Gathered(all, i) = Solid(ShownChars(lines[i]))
    BY <1>12, GatheredIs, Zenon
  <2> HIDE DEF w
  <2> QED
    BY <1>12, <2>1, <2>2, Zenon DEF w, lines, n
<1>15. CASE ~(Len(all) <= LinesMax)
  <2>1. w = SubSeq(all, 1, LinesMax)
    BY <1>1, <1>15
  <2>2. \A k \in 1 .. LinesMax : all[k] \in Parts /\ k \in 1 .. Len(all)
    BY <1>12, <1>13, <1>15
  <2>3. /\ Len(SubSeq(all, 1, LinesMax)) = LinesMax /\ SubSeq(all, 1, LinesMax) \in Seq(Parts)
        /\ \A k \in 1 .. LinesMax : SubSeq(all, 1, LinesMax)[k] = all[k]
    BY <1>12, <1>13, <1>15, <2>2
  <2> HIDE DEF w
  <2>4. w \in Seq(Parts) /\ Len(w) = LinesMax /\ ~(Len(w) < LinesMax)
    BY <1>13, <2>1, <2>3
  <2>5. \A k \in 1 .. Len(w) : Fits(lines, width, w[k])
    BY <2>4, <1>12, <2>1, <2>2, <2>3, Zenon
  <2> QED
    BY <2>4, <2>5, Zenon DEF w, lines
<1> QED
  BY <1>14, <1>15

\* A number beside a line leads to its address.
LEMMA LinksAre ==
  ASSUME NEW text \in Seq(Chars)
  PROVE  LET lines == GemLines(text)
         IN /\ LinksOf(text) \in Seq(Chars)
            /\ \A i \in 1 .. Len(lines) :
                 NumberOf(lines, i) # 0 => LinksOf(text)[NumberOf(lines, i)] = lines[i].url
<1> DEFINE lines == GemLines(text)
           n == Len(lines)
           K == {i \in DOMAIN lines : lines[i].kind = "link"}
           links == Picked(lines, K)
           count == IF Len(links) < LinksMax THEN Len(links) ELSE LinksMax
<1>1. lines \in Seq(GemLineSet)
  BY GemLinesAreLines
<1>2. LinksOf(text) = [i \in 1 .. count |-> links[i].url]
  BY Zenon DEF LinksOf, LinkLines
<1> HIDE DEF lines
<1>3. n \in Nat /\ DOMAIN lines = 1 .. n /\ \A k \in 1 .. n : lines[k] \in GemLineSet
  BY <1>1
<1>4. K \in SUBSET (1 .. n) /\ \A k \in K : lines[k] \in GemLineSet
  BY <1>3
<1>5. \A i \in 1 .. n : {j \in 1 .. i : lines[j].kind = "link"} = UpToPlace(K, i)
  <2> TAKE i \in 1 .. n
  <2>1. \A j : j \in 1 .. i <=> j \in 1 .. n /\ j <= i
    BY <1>3
  <2> HIDE DEF n
  <2>2. \A j : j \in {l \in 1 .. i : lines[l].kind = "link"} <=> j \in UpToPlace(K, i)
    BY <1>3, <2>1, Zenon DEF UpToPlace
  <2> QED
    BY <2>2
<1>6. \A i \in 1 .. n : i \in K <=> lines[i].kind = "link"
  BY <1>3
<1> HIDE DEF K, n
<1>7. ArePicked(links, lines, K, GemLineSet)
  BY <1>3, <1>4, PickedAre
<1> HIDE DEF links
<1>8. /\ links \in Seq(GemLineSet)
      /\ \A k \in K : /\ Cardinality(UpToPlace(K, k)) \in 1 .. Len(links)
                      /\ links[Cardinality(UpToPlace(K, k))] = lines[k]
  BY <1>7 DEF ArePicked
<1>9. count \in Nat /\ count <= Len(links) /\ LinksMax \in Nat /\ Len(links) \in Nat
      /\ \A c \in 1 .. Len(links) : c <= LinksMax => c \in 1 .. count
  BY <1>8, ViewerAssumption
<1> HIDE DEF count
<1>10. LinksOf(text) \in Seq(Chars)
  <2>1. \A i \in 1 .. count : links[i].url \in Chars
    <3> TAKE i \in 1 .. count
    <3>1. i \in 1 .. Len(links)
      BY <1>9
    <3>2. links[i] \in GemLineSet
      BY <1>8, <3>1, TypedAt, Zenon
    <3> QED
      BY <3>2 DEF GemLineSet
  <2>2. [i \in 1 .. count |-> links[i].url] \in [1 .. count -> Chars]
    BY <2>1
  <2> QED
    BY <1>2, <1>9, <2>2
<1>11. ASSUME NEW i \in 1 .. n, NumberOf(lines, i) # 0
       PROVE  LinksOf(text)[NumberOf(lines, i)] = lines[i].url
  <2> DEFINE c == Cardinality(UpToPlace(K, i))
  <2>1. NumberOf(lines, i) = c /\ lines[i].kind = "link" /\ c <= LinksMax
    BY <1>5, <1>11, Zenon DEF NumberOf
  <2>2. i \in K
    BY <1>6, <2>1
  <2>3. c \in 1 .. Len(links) /\ links[c] = lines[i]
    BY <1>8, <2>2
  <2> HIDE DEF c
  <2>4. c \in 1 .. count
    BY <1>9, <2>1, <2>3
  <2>5. LinksOf(text)[c] = links[c].url
    BY <1>2, <2>4
  <2> QED
    BY <2>1, <2>3, <2>5
<1> QED
  BY <1>10, <1>11 DEF lines, n

--------------------------------------------------------------------------------
(* The viewer.                                                             *)

IsModel(m) ==
  m \in [total : Nat, page : Nat, value : Nat] /\ m.value <= ScrollMax(m)

ViewSet ==
  [src : Seq(Chars), valid : BOOLEAN, width : Nat, lines : Seq(Parts), links : Seq(Chars),
   selected : Nat, opened : BOOLEAN, m : [total : Nat, page : Nat, value : Nat]]

\* A viewer whose lines are broken has the lines and the links of its text, and
\* the offset of its model exists, whether they are or not.
IsView(v) ==
  /\ v \in ViewSet /\ v.m.value <= ScrollMax(v.m)
  /\ v.valid => /\ v.lines = Wrapped(v.src, v.width) /\ v.links = LinksOf(v.src)
                /\ v.selected <= Len(v.links)

\* An event leaves the lines of the viewer u as they were.
ComesOf(v, u) == IsView(v) /\ v.valid = u.valid /\ v.width = u.width

LEMMA ScrollToKeeps ==
  ASSUME NEW m, m \in [total : Nat, page : Nat, value : Nat], NEW v \in Int
  PROVE  IsModel(ScrollTo(m, v))
<1> DEFINE top == ScrollMax(m)
           c == Clamped(v, 0, top)
           r == ScrollTo(m, v)
<1>1. m.total \in Nat /\ m.page \in Nat
  OBVIOUS
<1>2. top \in Nat
  BY <1>1 DEF ScrollMax
<1> HIDE DEF top
<1>3. c \in Nat /\ c <= top
  BY <1>2 DEF Clamped
<1>4. r = [m EXCEPT !.value = c]
  BY DEF ScrollTo, top
<1> HIDE DEF c, r
<1>5. r \in [total : Nat, page : Nat, value : Nat] /\ r.total = m.total /\ r.page = m.page /\ r.value = c
  BY <1>3, <1>4
<1>6. ScrollMax(r) = top
  BY <1>5, Zenon DEF ScrollMax, top
<1>7. IsModel(r)
  BY <1>3, <1>5, <1>6 DEF IsModel
<1> QED
  BY <1>7 DEF r

LEMMA ScrollSetKeeps ==
  ASSUME NEW m, m \in [total : Nat, page : Nat, value : Nat], NEW total \in Nat, NEW page \in Nat
  PROVE  IsModel(ScrollSet(m, total, page))
<1> DEFINE n == [m EXCEPT !.total = total, !.page = page]
<1>1. n \in [total : Nat, page : Nat, value : Nat]
  OBVIOUS
<1>2. ScrollSet(m, total, page) = ScrollTo(n, m.value) /\ m.value \in Int
  BY DEF ScrollSet
<1> HIDE DEF n
<1> QED
  BY <1>1, <1>2, ScrollToKeeps

LEMMA ScrollByKeeps ==
  ASSUME NEW m, m \in [total : Nat, page : Nat, value : Nat], NEW delta \in {-1, 1}
  PROVE  IsModel(ScrollBy(m, delta)) /\ IsModel(ScrollPages(m, delta))
<1>1. m.value + delta \in Int
  OBVIOUS
<1> DEFINE by == IF m.page > 0 THEN m.page ELSE 1
<1>2. by \in Int /\ m.value \in Int
  OBVIOUS
<1>3. m.value + delta * by \in Int
  <2> HIDE DEF by
  <2> DEFINE a == m.value
  <2> HIDE DEF a
  <2>1. delta * by = by \/ delta * by = -by
    BY <1>2
  <2> QED
    BY <1>2, <2>1 DEF a
<1>4. IsModel(ScrollTo(m, m.value + delta)) /\ IsModel(ScrollTo(m, m.value + delta * by))
  <2> HIDE DEF by
  <2> QED
    BY <1>1, <1>3, ScrollToKeeps
<1> QED
  BY <1>4, Zenon DEF ScrollBy, ScrollPages

LEMMA RevealKeeps ==
  ASSUME NEW m, IsModel(m), NEW index \in Int
  PROVE  IsModel(Reveal(m, index))
<1> DEFINE i == Clamped(index, 0, m.total - 1)
<1>1. m \in [total : Nat, page : Nat, value : Nat]
  BY DEF IsModel
<1>2. m.total \in Int /\ m.page \in Int /\ m.value \in Int
  BY <1>1
<1>3. i \in Int
  BY <1>2 DEF Clamped
<1>4. \/ Reveal(m, index) = m \/ Reveal(m, index) = ScrollTo(m, i)
      \/ Reveal(m, index) = ScrollTo(m, i - m.page + 1) \/ Reveal(m, index) = ScrollTo(m, m.value)
  <2> HIDE DEF i
  <2>1. Reveal(m, index) = IF m.total <= 0 THEN m
          ELSE IF i < m.value THEN ScrollTo(m, i)
          ELSE IF m.page > 0 /\ i >= m.value + m.page THEN ScrollTo(m, i - m.page + 1)
          ELSE ScrollTo(m, m.value)
    BY Zenon DEF Reveal, i
  <2> QED
    BY <2>1, Zenon
<1> HIDE DEF i
<1>5. i - m.page + 1 \in Int
  BY <1>2, <1>3
<1> QED
  BY <1>1, <1>2, <1>3, <1>4, <1>5, ScrollToKeeps

\* Scrolling leaves the rest of a viewer as it is.
LEMMA ScrolledView ==
  ASSUME NEW v, IsView(v), NEW m, IsModel(m)
  PROVE  ComesOf([v EXCEPT !.m = m], v)
<1> DEFINE u == [v EXCEPT !.m = m]
<1>1. v \in ViewSet /\ m \in [total : Nat, page : Nat, value : Nat] /\ m.value <= ScrollMax(m)
  BY DEF IsView, IsModel
<1>2. /\ u \in ViewSet /\ u.m = m
      /\ u.src = v.src /\ u.valid = v.valid /\ u.width = v.width /\ u.lines = v.lines
      /\ u.links = v.links /\ u.selected = v.selected
  BY <1>1 DEF ViewSet
<1> HIDE DEF u
<1>3. v.valid => /\ v.lines = Wrapped(v.src, v.width) /\ v.links = LinksOf(v.src)
                 /\ v.selected <= Len(v.links)
  BY DEF IsView
<1>4. ComesOf(u, v)
  BY <1>1, <1>2, <1>3, Zenon DEF ComesOf, IsView
<1> QED
  BY <1>4 DEF u

LEMMA ModelOfView ==
  ASSUME NEW v, IsView(v)
  PROVE  IsModel(v.m) /\ v.m \in [total : Nat, page : Nat, value : Nat]
<1>1. v.m \in [total : Nat, page : Nat, value : Nat]
  BY DEF IsView, ViewSet
<1> QED
  BY <1>1 DEF IsView, IsModel

--------------------------------------------------------------------------------
Broad(w) == IF w > WidthMin THEN w ELSE WidthMin

\* ensure_wrap leaves a viewer whose lines are broken to the width it has now.
LEMMA EnsuredIs ==
  ASSUME NEW v, IsView(v), NEW f \in [w : Nat, h : Nat]
  PROVE  /\ IsView(Ensured(v, f)) /\ Ensured(v, f).valid /\ Ensured(v, f).width = Broad(f.w)
<1> DEFINE width == Broad(f.w)
           links == LinksOf(v.src)
           lines == Wrapped(v.src, width)
           chosen == IF v.selected > Len(links) THEN 0 ELSE v.selected
           fresh == [v EXCEPT !.lines = lines, !.links = links, !.valid = TRUE, !.width = width,
                              !.selected = chosen]
           u == IF v.valid /\ v.width = width THEN v ELSE fresh
           m == ScrollSet(u.m, Len(u.lines), f.h)
<1>1. Ensured(v, f) = [u EXCEPT !.m = m]
  BY DEF Ensured, Broad
<1>2. width \in Nat /\ f.h \in Nat
  BY ViewerAssumption DEF Broad
<1>3. v \in ViewSet /\ v.src \in Seq(Chars) /\ v.selected \in Nat
  BY DEF IsView, ViewSet
<1> HIDE DEF width
<1>4. links \in Seq(Chars) /\ lines \in Seq(Parts)
  BY <1>2, <1>3, LinksAre, WrappedShows
<1> HIDE DEF links, lines
<1>5. chosen \in Nat /\ chosen <= Len(links)
  <2>1. Len(links) \in Nat
    BY <1>4
  <2> QED
    BY <1>3, <2>1
<1> HIDE DEF chosen
<1>6. /\ fresh \in ViewSet /\ fresh.src = v.src /\ fresh.valid = TRUE /\ fresh.width = width
      /\ fresh.lines = lines /\ fresh.links = links /\ fresh.selected = chosen /\ fresh.m = v.m
  BY <1>2, <1>3, <1>4, <1>5 DEF ViewSet
<1> HIDE DEF fresh
<1>7. IsView(fresh) /\ fresh.valid /\ fresh.width = width
  BY <1>5, <1>6, Zenon DEF IsView, links, lines
<1>8. IsView(u) /\ u.valid /\ u.width = width
  BY <1>7
<1> HIDE DEF u
<1>9. IsModel(m)
  <2>1. u.m \in [total : Nat, page : Nat, value : Nat]
    BY <1>8, ModelOfView
  <2>2. Len(u.lines) \in Nat
    BY <1>8 DEF IsView, ViewSet
  <2> QED
    BY <1>2, <2>1, <2>2, ScrollSetKeeps
<1> HIDE DEF m
<1>10. ComesOf([u EXCEPT !.m = m], u)
  BY <1>8, <1>9, ScrolledView
<1> QED
  BY <1>1, <1>8, <1>10 DEF ComesOf, width

\* gemview_set_text.
LEMMA TextSetIs ==
  ASSUME NEW v, IsView(v), NEW text \in Seq(Chars)
  PROVE  IsView(TextSet(v, text)) /\ ~TextSet(v, text).valid
<1> DEFINE u == TextSet(v, text)
           m == [v.m EXCEPT !.value = 0]
<1>1. v \in ViewSet /\ v.m \in [total : Nat, page : Nat, value : Nat]
  BY ModelOfView DEF IsView
<1>2. m \in [total : Nat, page : Nat, value : Nat] /\ m.value = 0
  BY <1>1
<1>3. ScrollMax(m) \in Nat
  BY <1>2 DEF ScrollMax
<1>4. u = [v EXCEPT !.src = text, !.valid = FALSE, !.selected = 0, !.m = m]
  BY DEF TextSet
<1> HIDE DEF m, u
<1>5. u \in ViewSet /\ u.valid = FALSE /\ u.m = m
  BY <1>1, <1>2, <1>4 DEF ViewSet
<1>6. IsView(u) /\ ~u.valid
  <2>1. m.value <= ScrollMax(m)
    BY <1>2, <1>3
  <2> QED
    BY <1>5, <2>1, Zenon DEF IsView
<1> QED
  BY <1>6 DEF u

\* gemview_select_link.
LEMMA LinkSelectedIs ==
  ASSUME NEW v, IsView(v), v.valid, NEW number \in Nat
  PROVE  ComesOf(LinkSelected(v, number), v)
<1> DEFINE ofNumber == {i \in DOMAIN v.lines : v.lines[i].link = number}
           m == IF ofNumber = {} THEN v.m ELSE Reveal(v.m, Min(ofNumber) - 1)
           s == [v EXCEPT !.selected = number]
<1>1. v \in ViewSet
  BY DEF IsView
<1>2. CASE number > Len(v.links)
  BY <1>2 DEF LinkSelected, ComesOf
<1>3. CASE ~(number > Len(v.links))
  <2>1. IsModel(m)
    <3>1. DOMAIN v.lines \in SUBSET Nat
      BY <1>1 DEF ViewSet
    <3>2. ofNumber \in SUBSET Nat
      BY <3>1
    <3> HIDE DEF ofNumber
    <3>3. ofNumber # {} => Min(ofNumber) - 1 \in Int
      <4>1. ofNumber # {} => Min(ofNumber) \in Nat
        BY <3>2, MinIsLeast
      <4> QED
        BY <4>1
    <3> QED
      BY <3>3, ModelOfView, RevealKeeps
  <2>2. LinkSelected(v, number) = [s EXCEPT !.m = m]
    <3>1. LinkSelected(v, number) = [v EXCEPT !.selected = number, !.m = m]
      BY <1>3 DEF LinkSelected
    <3> HIDE DEF m
    <3>2. [v EXCEPT !.selected = number, !.m = m] = [s EXCEPT !.m = m]
      BY <1>1 DEF ViewSet
    <3> QED
      BY <3>1, <3>2
  <2>3. IsView(s) /\ s.valid = v.valid /\ s.width = v.width
    <3>1. number <= Len(v.links)
      BY <1>1, <1>3 DEF ViewSet
    <3>2. /\ s \in ViewSet /\ s.m = v.m /\ s.selected = number
          /\ s.src = v.src /\ s.valid = v.valid /\ s.width = v.width /\ s.lines = v.lines /\ s.links = v.links
      BY <1>1 DEF ViewSet
    <3> HIDE DEF s
    <3> QED
      BY <3>1, <3>2, Zenon DEF IsView
  <2> HIDE DEF m, s
  <2>4. ComesOf([s EXCEPT !.m = m], s)
    BY <2>1, <2>3, ScrolledView
  <2> QED
    BY <2>2, <2>3, <2>4, Zenon DEF ComesOf
<1> QED
  BY <1>2, <1>3

\* A press and a digit select a link at most.
LEMMA PressedIs ==
  ASSUME NEW v, IsView(v), v.valid, NEW row \in Nat, NEW clicks \in 1 .. 2, NEW opened \in BOOLEAN
  PROVE  ComesOf([Pressed(v, row, clicks) EXCEPT !.opened = opened], v)
<1> DEFINE i == v.m.value + row + 1
           p == Pressed(v, row, clicks)
           number == v.lines[i].link
           l == LinkSelected(v, number)
<1>1. v \in ViewSet
  BY DEF IsView
<1>2. ASSUME NEW u, ComesOf(u, v), NEW b \in BOOLEAN
      PROVE  ComesOf([u EXCEPT !.opened = b], v)
  <2> DEFINE o == [u EXCEPT !.opened = b]
  <2>1. u \in ViewSet
    BY <1>2 DEF ComesOf, IsView
  <2>2. /\ o \in ViewSet /\ o.m = u.m /\ o.selected = u.selected
        /\ o.src = u.src /\ o.valid = u.valid /\ o.width = u.width /\ o.lines = u.lines /\ o.links = u.links
    BY <2>1 DEF ViewSet
  <2> HIDE DEF o
  <2>3. ComesOf(o, v)
    BY <1>2, <2>2, Zenon DEF ComesOf, IsView
  <2> QED
    BY <2>3 DEF o
<1>3. CASE i \notin DOMAIN v.lines \/ number = 0
  <2>1. p = v
    BY <1>3, Zenon DEF Pressed
  <2>2. ComesOf(v, v)
    BY DEF ComesOf
  <2> HIDE DEF p
  <2> QED
    BY <1>2, <2>1, <2>2 DEF p
<1>4. CASE ~(i \notin DOMAIN v.lines \/ number = 0)
  <2>1. number \in Nat
    <3>1. v.lines \in Seq(Parts)
      BY <1>1 DEF ViewSet
    <3> HIDE DEF i
    <3>2. v.lines[i] \in Parts
      BY <1>4, <3>1
    <3> QED
      BY <3>2 DEF Parts
  <2> HIDE DEF number
  <2>2. ComesOf(l, v)
    BY <2>1, LinkSelectedIs
  <2> DEFINE q == l.opened \/ clicks >= 2
  <2>3. p = [l EXCEPT !.opened = q]
    BY <1>4, Zenon DEF Pressed, number
  <2> HIDE DEF l, q
  <2>4. [p EXCEPT !.opened = opened] = [l EXCEPT !.opened = opened]
    <3>1. l \in ViewSet
      BY <2>2 DEF ComesOf, IsView
    <3> HIDE DEF p
    <3> QED
      BY <2>3, <3>1 DEF ViewSet
  <2>5. ComesOf([l EXCEPT !.opened = opened], v)
    BY <1>2, <2>2
  <2> QED
    BY <2>4, <2>5
<1> QED
  BY <1>3, <1>4

LEMMA DigitTypedIs ==
  ASSUME NEW v, IsView(v), v.valid, NEW digit \in 0 .. 9
  PROVE  ComesOf(DigitTyped(v, digit), v)
<1> DEFINE wide == v.selected * 10 + digit
           number == IF wide >= 1 /\ wide <= Len(v.links) THEN wide
                     ELSE IF digit >= 1 /\ digit <= Len(v.links) THEN digit
                     ELSE 0
<1>1. wide \in Nat
  BY DEF IsView, ViewSet
<1> HIDE DEF wide
<1>2. number \in Nat
  BY <1>1
<1>3. DigitTyped(v, digit) = LinkSelected(v, number)
  BY Zenon DEF DigitTyped, wide
<1> HIDE DEF number
<1> QED
  BY <1>2, <1>3, LinkSelectedIs

\* The keys that scroll.
LEMMA KeyScrolledIs ==
  ASSUME NEW v, IsView(v), NEW key \in {"up", "down", "page_up", "page_down", "home", "end"}
  PROVE  ComesOf(KeyScrolled(v, key), v)
<1> DEFINE m == CASE key = "up"        -> ScrollBy(v.m, -1)
                  [] key = "down"      -> ScrollBy(v.m, 1)
                  [] key = "page_up"   -> ScrollPages(v.m, -1)
                  [] key = "page_down" -> ScrollPages(v.m, 1)
                  [] key = "home"      -> ScrollTo(v.m, 0)
                  [] key = "end"       -> ScrollTo(v.m, Len(v.lines))
<1>1. v.m \in [total : Nat, page : Nat, value : Nat]
  BY ModelOfView
<1>2. Len(v.lines) \in Int
  BY DEF IsView, ViewSet
<1>3. IsModel(m)
  <2> DEFINE a == v.m
             n == Len(v.lines)
  <2>1. -1 \in {-1, 1} /\ 1 \in {-1, 1} /\ 0 \in Int
    OBVIOUS
  <2>2. /\ IsModel(ScrollBy(a, -1)) /\ IsModel(ScrollBy(a, 1)) /\ IsModel(ScrollPages(a, -1))
        /\ IsModel(ScrollPages(a, 1)) /\ IsModel(ScrollTo(a, 0)) /\ IsModel(ScrollTo(a, n))
    BY <1>1, <1>2, <2>1, ScrollByKeeps, ScrollToKeeps
  <2> HIDE DEF a, n
  <2>3. \/ m = ScrollBy(a, -1) \/ m = ScrollBy(a, 1) \/ m = ScrollPages(a, -1)
        \/ m = ScrollPages(a, 1) \/ m = ScrollTo(a, 0) \/ m = ScrollTo(a, n)
    BY DEF a, n
  <2> HIDE DEF m
  <2> QED
    BY <2>2, <2>3
<1>4. KeyScrolled(v, key) = [v EXCEPT !.m = m]
  BY DEF KeyScrolled
<1> HIDE DEF m
<1> QED
  BY <1>3, <1>4, ScrolledView

--------------------------------------------------------------------------------
(* Lists.                                                                  *)

IsList(s) == \E S : s \in Seq(S)

LEMMA EmptyIsList == IsList(<<>>)
<1>1. <<>> \in Seq({})
  OBVIOUS
<1> QED
  BY <1>1 DEF IsList

\* What is appended to a list is its last entry.
LEMMA AppendedIsLast ==
  ASSUME NEW s, IsList(s), NEW x
  PROVE  IsList(Append(s, x)) /\ Append(s, x) # <<>> /\ Last(Append(s, x)) = x
<1>1. PICK S : s \in Seq(S)
  BY DEF IsList
<1> DEFINE T == S \union {x}
<1>2. s \in Seq(T) /\ x \in T
  BY <1>1
<1> HIDE DEF T
<1>3. /\ Append(s, x) \in Seq(T) /\ Len(Append(s, x)) = Len(s) + 1
      /\ Append(s, x)[Len(s) + 1] = x /\ Len(s) \in Nat
  BY <1>2
<1> QED
  BY <1>3 DEF IsList, Last

LEMMA FrontIsList ==
  ASSUME NEW s, IsList(s), s # <<>>
  PROVE  IsList(Front(s))
<1>1. PICK S : s \in Seq(S)
  BY DEF IsList
<1>2. Front(s) \in Seq(S)
  BY <1>1 DEF Front
<1> QED
  BY <1>2 DEF IsList

--------------------------------------------------------------------------------
(* The invariant.                                                          *)

\* A running fetch has all of its parts, and one that a link began knows the
\* page it began on.
FetchKnowsOrigin ==
  net # Idle =>
    /\ net = [phase |-> net.phase, url |-> net.url, parsed |-> net.parsed,
              remember |-> net.remember, from |-> net.from, n |-> net.n, reply |-> net.reply]
    /\ net.from # NoText => net.remember /\ address = net.from

\* While a page is shown and nobody typed at its address, this is where it was
\* fetched.
AddressIsOfPage == shown.kind = "page" /\ ~typed => address = shown.url

PageInv ==
  /\ IsList(history)
  /\ FetchKnowsOrigin
  /\ NoSocketLeftOpen
  /\ AddressIsOfPage
  /\ BackLeadsToOrigin

\* A fetch is no idle network.
LEMMA FetchIsNotIdle ==
  ASSUME NEW phase, NEW url, NEW parsed, NEW remember, NEW from, NEW n, NEW reply
  PROVE  [phase |-> phase, url |-> url, parsed |-> parsed, remember |-> remember,
          from |-> from, n |-> n, reply |-> reply] # Idle
<1> DEFINE fetch == [phase |-> phase, url |-> url, parsed |-> parsed, remember |-> remember,
                     from |-> from, n |-> n, reply |-> reply]
<1>1. "url" \in DOMAIN fetch /\ "url" \notin DOMAIN Idle
  BY DEF Idle
<1> QED
  BY <1>1

--------------------------------------------------------------------------------
LEMMA InitPages == Init => PageInv
BY EmptyIsList
DEF Init, PageInv, FetchKnowsOrigin, NoSocketLeftOpen, AddressIsOfPage, BackLeadsToOrigin

\* Nothing the invariant speaks of changes.
LEMMA StutterKeepsPages ==
  ASSUME PageInv, UNCHANGED <<address, history, net, sock, shown, origin, typed>>
  PROVE  PageInv'
BY DEF PageInv, IsList, FetchKnowsOrigin, NoSocketLeftOpen, AddressIsOfPage, BackLeadsToOrigin

\* The steps of a fetch before its end.
LEMMA ProgressKeepsPages ==
  ASSUME PageInv, Opens \/ Sends \/ Receives
  PROVE  PageInv'
<1>1. UNCHANGED <<address, history, shown, origin, typed>>
  BY DEF Opens, Sends, Receives, app, ghosts
<1>2. net # Idle
  <2>1. net.phase \in {"open", "send", "recv"}
    BY DEF Opens, Sends, Receives
  <2> QED
    BY <2>1 DEF Idle
<1>3. net = [phase |-> net.phase, url |-> net.url, parsed |-> net.parsed,
             remember |-> net.remember, from |-> net.from, n |-> net.n, reply |-> net.reply]
  BY <1>2 DEF PageInv, FetchKnowsOrigin
<1>4. PICK phase, n, reply :
        net' = [phase |-> phase, url |-> net.url, parsed |-> net.parsed,
                remember |-> net.remember, from |-> net.from, n |-> n, reply |-> reply]
  <2>1. CASE Opens
    <3>1. PICK reply : net' = [net EXCEPT !.phase = "send", !.reply = reply]
      BY <2>1 DEF Opens
    <3> QED
      BY <1>3, <3>1
  <2>2. CASE Sends
    <3>1. net' = [net EXCEPT !.phase = "recv"]
      BY <2>2 DEF Sends
    <3> QED
      BY <1>3, <3>1
  <2>3. CASE Receives
    <3>1. PICK got : net' = [net EXCEPT !.n = net.n + got]
      BY <2>3 DEF Receives
    <3> QED
      BY <1>3, <3>1
  <2> QED
    BY <2>1, <2>2, <2>3
<1>5. net' # Idle
  BY <1>4, FetchIsNotIdle
<1>6. FetchKnowsOrigin'
  BY <1>1, <1>2, <1>4 DEF PageInv, FetchKnowsOrigin
<1> QED
  BY <1>1, <1>5, <1>6
  DEF PageInv, IsList, NoSocketLeftOpen, AddressIsOfPage, BackLeadsToOrigin

\* A fetch that fails.
LEMMA FailKeepsPages ==
  ASSUME PageInv, Fail
  PROVE  PageInv'
BY DEF Fail, app, ghosts, PageInv, IsList, FetchKnowsOrigin, NoSocketLeftOpen,
       AddressIsOfPage, BackLeadsToOrigin

\* A fetch that comes to its end.
LEMMA FinishKeepsPages ==
  ASSUME PageInv, Finishes
  PROVE  PageInv'
<1>1. net' = Idle /\ ~sock' /\ net # Idle
  BY DEF Finishes, Finish, Idle
<1>2. FetchKnowsOrigin' /\ NoSocketLeftOpen'
  BY <1>1 DEF FetchKnowsOrigin, NoSocketLeftOpen
<1>3. CASE ~Understood
  <2>1. UNCHANGED <<address, history, shown, origin, typed>>
    BY <1>3 DEF Finishes, Finish, app, ghosts
  <2> QED
    BY <1>2, <2>1 DEF PageInv, IsList, AddressIsOfPage, BackLeadsToOrigin
<1>4. CASE Understood /\ net.reply.status # 2
  <2>1. ShowsOther
    BY <1>4 DEF Finishes, Finish
  <2>2. shown'.kind # "page" \/ UNCHANGED shown
    BY <2>1 DEF ShowsOther
  <2>3. origin' = NoText /\ UNCHANGED <<address, history, typed>>
    BY <2>1 DEF ShowsOther
  <2> QED
    BY <1>2, <2>2, <2>3 DEF PageInv, IsList, AddressIsOfPage, BackLeadsToOrigin
<1>5. CASE Understood /\ net.reply.status = 2
  <2>1. ShowsPage(TextOf(net.reply, net.n))
    BY <1>5 DEF Finishes, Finish
  <2>2. AddressIsOfPage'
    BY <2>1 DEF ShowsPage, AddressIsOfPage
  <2>3. CASE net.remember /\ address # net.url
    <3>1. history' = Append(history, address)
      BY <2>1, <2>3 DEF ShowsPage
    <3>2. IsList(history) /\ (net.from # NoText => address = net.from)
      BY <1>1 DEF PageInv, FetchKnowsOrigin
    <3>3. IsList(history)' /\ history' # <<>> /\ Last(history') = address
      BY <3>1, <3>2, AppendedIsLast, Zenon
    <3>4. origin' # NoText => origin' = net.from /\ net.from # NoText
      BY <2>1 DEF ShowsPage
    <3>5. BackLeadsToOrigin'
      BY <3>2, <3>3, <3>4 DEF BackLeadsToOrigin
    <3> QED
      BY <1>2, <2>2, <3>3, <3>5 DEF PageInv
  <2>4. CASE ~(net.remember /\ address # net.url)
    <3>1. history' = history
      BY <2>1, <2>4 DEF ShowsPage
    <3>2. net.from # NoText => net.remember
      BY <1>1 DEF PageInv, FetchKnowsOrigin
    <3>3. origin' = NoText
      BY <2>1, <2>4, <3>2 DEF ShowsPage
    <3> QED
      BY <1>2, <2>2, <3>1, <3>3 DEF PageInv, IsList, BackLeadsToOrigin
  <2> QED
    BY <2>3, <2>4
<1> QED
  BY <1>3, <1>4, <1>5

--------------------------------------------------------------------------------
(* Events.                                                                 *)

\* A fetch that is begun with the page it begins on, if any.
LEMMA GoBeginsFetch ==
  ASSUME net = Idle, UNCHANGED address, NEW url, NEW remember, NEW from, NEW left,
         Go(url, remember, from, left), from # NoText => remember /\ address = from
  PROVE  FetchKnowsOrigin' /\ history' = left
<1>1. history' = left
  BY DEF Go
<1>2. CASE ParseUrl(url).ok
  <2>1. net' = [phase |-> "open", url |-> url, parsed |-> ParseUrl(url),
                remember |-> remember, from |-> from, n |-> 0, reply |-> <<>>]
    BY <1>2 DEF Go
  <2>2. FetchKnowsOrigin'
    BY <2>1 DEF FetchKnowsOrigin
  <2> QED
    BY <1>1, <2>2
<1>3. CASE ~ParseUrl(url).ok
  <2>1. net' = Idle
    BY <1>3 DEF Go
  <2> QED
    BY <1>1, <2>1 DEF FetchKnowsOrigin
<1> QED
  BY <1>2, <1>3

\* Opening a link keeps the history and knows where it stands.
LEMMA OpenLinkBeginsFetch ==
  ASSUME PageInv, net = Idle, UNCHANGED address, NEW v, NEW number, OpenLink(v, number)
  PROVE  FetchKnowsOrigin' /\ history' = history
<1> DEFINE target == ResolveText(address, LinkUrl(v, number))
           from == IF shown.kind = "page" /\ ~typed THEN shown.url ELSE NoText
<1>1. CASE LinkUrl(v, number) # <<>> /\ target.ok
  <2>1. Go(target.url, TRUE, from, history)
    BY <1>1 DEF OpenLink
  <2>2. from # NoText => address = from
    BY DEF PageInv, AddressIsOfPage
  <2> HIDE DEF target, from
  <2> QED
    BY <2>1, <2>2, GoBeginsFetch
<1>2. CASE ~(LinkUrl(v, number) # <<>> /\ target.ok)
  <2>1. UNCHANGED <<net, history>>
    BY <1>2 DEF OpenLink
  <2> QED
    BY <2>1 DEF PageInv, FetchKnowsOrigin
<1> QED
  BY <1>1, <1>2

\* An event that begins a fetch at most: the page and its address stay.
LEMMA BeginningKeepsPages ==
  ASSUME PageInv, FetchKnowsOrigin', UNCHANGED <<address, history, shown, origin, typed>>,
         net = Idle, UNCHANGED sock
  PROVE  PageInv'
BY DEF PageInv, IsList, NoSocketLeftOpen, AddressIsOfPage, BackLeadsToOrigin

LEMMA EventKeepsPages ==
  ASSUME PageInv, Event
  PROVE  PageInv'
<1>0. net = Idle /\ UNCHANGED sock
  BY DEF Event
<1>1. CASE Plain /\ UNCHANGED net
  <2>1. CASE UNCHANGED <<address, history, shown, origin, typed>>
    BY <1>0, <1>1, <2>1, StutterKeepsPages
  <2>2. CASE typed' /\ UNCHANGED <<history, shown, origin>>
    BY <1>0, <1>1, <2>2
    DEF PageInv, IsList, FetchKnowsOrigin, NoSocketLeftOpen, AddressIsOfPage, BackLeadsToOrigin
  <2>3. \/ UNCHANGED <<address, history, shown, origin, typed>>
        \/ typed' /\ UNCHANGED <<history, shown, origin>>
    BY <1>1 DEF Plain, Draw, Wheel, ClickAddress, UseBar, TypeAddress, TypeDigit, EraseAddress,
                Escape, ScrollKey, app, ghosts, widgets
  <2> QED
    BY <2>1, <2>2, <2>3
<1>2. CASE \E row \in 0 .. LinesMax - 1, clicks \in 1 .. 2 : ClickView(row, clicks)
  <2>1. PICK row \in 0 .. LinesMax - 1, clicks \in 1 .. 2 : ClickView(row, clicks)
    BY <1>2
  <2> DEFINE v == Pressed(Now, row, clicks)
  <2>2. UNCHANGED <<address, shown, origin, typed>>
    BY <2>1 DEF ClickView, ghosts
  <2>3. OpenLink(v, v.selected) \/ UNCHANGED <<net, history>>
    BY <2>1 DEF ClickView
  <2> HIDE DEF v
  <2>4. FetchKnowsOrigin' /\ history' = history
    <3>1. CASE OpenLink(v, v.selected)
      BY <1>0, <2>2, <3>1, OpenLinkBeginsFetch
    <3>2. CASE UNCHANGED <<net, history>>
      BY <1>0, <3>2 DEF FetchKnowsOrigin
    <3> QED
      BY <2>3, <3>1, <3>2
  <2> QED
    BY <1>0, <2>2, <2>4, BeginningKeepsPages
<1>3. CASE Enter
  <2>1. UNCHANGED <<address, shown, origin, typed>>
    BY <1>3 DEF Enter, ghosts
  <2>2. OpenLink(Now, view.selected) \/ Go(address, TRUE, NoText, history)
    BY <1>3 DEF Enter
  <2>3. FetchKnowsOrigin' /\ history' = history
    BY <1>0, <2>1, <2>2, OpenLinkBeginsFetch, GoBeginsFetch
  <2> QED
    BY <1>0, <2>1, <2>3, BeginningKeepsPages
<1>4. CASE Back
  <2>1. /\ UNCHANGED <<address, shown, typed>> /\ origin' = NoText /\ history # <<>>
        /\ Go(Last(history), FALSE, NoText, Front(history))
    BY <1>4 DEF Back
  <2>2. FetchKnowsOrigin' /\ history' = Front(history)
    BY <1>0, <2>1, GoBeginsFetch
  <2>3. IsList(Front(history))
    BY <2>1, FrontIsList DEF PageInv
  <2>4. IsList(history)'
    BY <2>2, <2>3 DEF IsList
  <2> QED
    BY <1>0, <2>1, <2>2, <2>4
    DEF PageInv, NoSocketLeftOpen, AddressIsOfPage, BackLeadsToOrigin
<1> QED
  BY <1>1, <1>2, <1>3, <1>4 DEF Event

LEMMA NextKeepsPages == PageInv /\ [Next]_vars => PageInv'
<1> SUFFICES ASSUME PageInv, [Next]_vars
             PROVE  PageInv'
  OBVIOUS
<1>1. CASE Opens \/ Sends \/ Receives
  BY <1>1, ProgressKeepsPages
<1>2. CASE OpenFails \/ SendFails \/ ReceiveFails
  BY <1>2, FailKeepsPages DEF OpenFails, SendFails, ReceiveFails
<1>3. CASE Finishes
  BY <1>3, FinishKeepsPages
<1>4. CASE Event
  BY <1>4, EventKeepsPages
<1>5. CASE UNCHANGED vars
  BY <1>5, StutterKeepsPages DEF vars, app, ghosts
<1> QED
  BY <1>5, <1>1, <1>2, <1>3, <1>4 DEF Next, Fetch

LEMMA PagesAreSafe == Spec => []PageInv
BY InitPages, NextKeepsPages, PTL DEF Spec

--------------------------------------------------------------------------------
(* What the history holds can be opened.                                   *)

\* What a running fetch may put into the history could be opened when it began.
LeavesOpenable == net # Idle /\ net.remember /\ address # net.url => ParseUrl(address).ok

LEMMA AddedEntryOpens ==
  ASSUME NEW s, IsList(s), NEW x, ParseUrl(x).ok, \A i \in DOMAIN s : ParseUrl(s[i]).ok
  PROVE  \A i \in DOMAIN Append(s, x) : ParseUrl(Append(s, x)[i]).ok
<1>1. PICK S : s \in Seq(S)
  BY DEF IsList
<1> DEFINE T == S \union {x}
<1>2. s \in Seq(T) /\ x \in T
  BY <1>1
<1> HIDE DEF T
<1> SUFFICES ASSUME NEW i \in DOMAIN Append(s, x)
             PROVE  ParseUrl(Append(s, x)[i]).ok
  OBVIOUS
<1>3. CASE i \in DOMAIN s
  <2>1. Append(s, x)[i] = s[i]
    BY <1>2, <1>3
  <2> QED
    BY <1>3, <2>1
<1>4. CASE i \notin DOMAIN s
  <2>1. Append(s, x)[i] = x
    BY <1>2, <1>4
  <2> QED
    BY <2>1
<1> QED
  BY <1>3, <1>4

LEMMA FrontOpens ==
  ASSUME NEW s, IsList(s), s # <<>>, \A i \in DOMAIN s : ParseUrl(s[i]).ok
  PROVE  \A i \in DOMAIN Front(s) : ParseUrl(Front(s)[i]).ok
<1>1. PICK S : s \in Seq(S)
  BY DEF IsList
<1>2. \A i \in DOMAIN Front(s) : i \in DOMAIN s /\ Front(s)[i] = s[i]
  BY <1>1 DEF Front
<1> QED
  BY <1>2

\* Only a fetch from the address itself, or one the address could be parsed for,
\* is remembered.
LEMMA GoLeavesOpenable ==
  ASSUME net = Idle, UNCHANGED address, NEW url, NEW remember, NEW from, NEW left,
         Go(url, remember, from, left),
         remember => address = url \/ ParseUrl(address).ok
  PROVE  LeavesOpenable' /\ history' = left
<1>1. history' = left
  BY DEF Go
<1>2. CASE ParseUrl(url).ok
  <2>1. net' = [phase |-> "open", url |-> url, parsed |-> ParseUrl(url),
                remember |-> remember, from |-> from, n |-> 0, reply |-> <<>>]
    BY <1>2 DEF Go
  <2>2. net'.url = url /\ net'.remember = remember
    BY <2>1
  <2> QED
    BY <1>1, <2>2 DEF LeavesOpenable
<1>3. CASE ~ParseUrl(url).ok
  BY <1>1, <1>3 DEF Go, LeavesOpenable
<1> QED
  BY <1>2, <1>3

LEMMA LinkLeavesOpenable ==
  ASSUME net = Idle, UNCHANGED address, NEW v, NEW number, OpenLink(v, number)
  PROVE  LeavesOpenable' /\ history' = history
<1> DEFINE target == ResolveText(address, LinkUrl(v, number))
           from == IF shown.kind = "page" /\ ~typed THEN shown.url ELSE NoText
<1>1. CASE LinkUrl(v, number) # <<>> /\ target.ok
  <2>1. Go(target.url, TRUE, from, history)
    BY <1>1 DEF OpenLink
  <2>2. ParseUrl(address).ok
    <3>1. ~NoUrl.ok
      BY DEF NoUrl
    <3> QED
      BY <1>1, <3>1, Zenon DEF ResolveText
  <2> HIDE DEF target, from
  <2> QED
    BY <2>1, <2>2, GoLeavesOpenable
<1>2. CASE ~(LinkUrl(v, number) # <<>> /\ target.ok)
  <2>1. UNCHANGED <<net, history>>
    BY <1>2 DEF OpenLink
  <2> QED
    BY <2>1 DEF LeavesOpenable
<1> QED
  BY <1>1, <1>2

\* A fetch that comes to its end appends what it left, or nothing.
LEMMA FinishKeepsEntries ==
  ASSUME PageInv, LeavesOpenable, EveryEntryOpens, Finishes
  PROVE  LeavesOpenable' /\ EveryEntryOpens'
<1>1. net' = Idle /\ net # Idle
  BY DEF Finishes, Finish, Idle
<1>2. \/ UNCHANGED history
      \/ net.remember /\ address # net.url /\ history' = Append(history, address)
  BY DEF Finishes, Finish, ShowsPage, ShowsOther, app
<1>3. CASE UNCHANGED history
  BY <1>1, <1>3 DEF LeavesOpenable, EveryEntryOpens
<1>4. CASE net.remember /\ address # net.url /\ history' = Append(history, address)
  <2>1. ParseUrl(address).ok
    BY <1>1, <1>4 DEF LeavesOpenable
  <2>2. IsList(history)
    BY DEF PageInv
  <2>3. \A i \in DOMAIN Append(history, address) : ParseUrl(Append(history, address)[i]).ok
    BY <2>1, <2>2, AddedEntryOpens DEF EveryEntryOpens
  <2> QED
    BY <1>1, <1>4, <2>3 DEF LeavesOpenable, EveryEntryOpens
<1> QED
  BY <1>2, <1>3, <1>4

LEMMA EventKeepsEntries ==
  ASSUME PageInv, EveryEntryOpens, Event
  PROVE  LeavesOpenable' /\ EveryEntryOpens'
<1>0. net = Idle
  BY DEF Event
<1>1. CASE Plain /\ UNCHANGED net
  <2>1. UNCHANGED history
    BY <1>1 DEF Plain, Draw, Wheel, ClickAddress, UseBar, TypeAddress, TypeDigit, EraseAddress,
                Escape, ScrollKey, app, widgets
  <2> QED
    BY <1>0, <1>1, <2>1 DEF LeavesOpenable, EveryEntryOpens
<1>2. CASE \E row \in 0 .. LinesMax - 1, clicks \in 1 .. 2 : ClickView(row, clicks)
  <2>1. PICK row \in 0 .. LinesMax - 1, clicks \in 1 .. 2 : ClickView(row, clicks)
    BY <1>2
  <2> DEFINE v == Pressed(Now, row, clicks)
  <2>2. UNCHANGED address /\ (OpenLink(v, v.selected) \/ UNCHANGED <<net, history>>)
    BY <2>1 DEF ClickView
  <2> HIDE DEF v
  <2>3. LeavesOpenable' /\ history' = history
    <3>1. CASE OpenLink(v, v.selected)
      BY <1>0, <2>2, <3>1, LinkLeavesOpenable
    <3>2. CASE UNCHANGED <<net, history>>
      BY <1>0, <3>2 DEF LeavesOpenable
    <3> QED
      BY <2>2, <3>1, <3>2
  <2> QED
    BY <2>3 DEF EveryEntryOpens
<1>3. CASE Enter
  <2>1. UNCHANGED address /\ (OpenLink(Now, view.selected) \/ Go(address, TRUE, NoText, history))
    BY <1>3 DEF Enter
  <2>2. LeavesOpenable' /\ history' = history
    BY <1>0, <2>1, LinkLeavesOpenable, GoLeavesOpenable
  <2> QED
    BY <2>2 DEF EveryEntryOpens
<1>4. CASE Back
  <2>1. UNCHANGED address /\ history # <<>> /\ Go(Last(history), FALSE, NoText, Front(history))
    BY <1>4 DEF Back
  <2>2. LeavesOpenable' /\ history' = Front(history)
    BY <1>0, <2>1, GoLeavesOpenable
  <2>3. IsList(history)
    BY DEF PageInv
  <2>4. \A i \in DOMAIN Front(history) : ParseUrl(Front(history)[i]).ok
    BY <2>1, <2>3, FrontOpens DEF EveryEntryOpens
  <2> QED
    BY <2>2, <2>4 DEF EveryEntryOpens
<1> QED
  BY <1>1, <1>2, <1>3, <1>4 DEF Event

\* The steps of a fetch before its end.
LEMMA ProgressKeepsEntries ==
  ASSUME PageInv, LeavesOpenable, EveryEntryOpens, Opens \/ Sends \/ Receives
  PROVE  LeavesOpenable' /\ EveryEntryOpens'
<1>1. UNCHANGED <<address, history>>
  BY DEF Opens, Sends, Receives, app
<1>2. net # Idle
  <2>1. net.phase \in {"open", "send", "recv"}
    BY DEF Opens, Sends, Receives
  <2> QED
    BY <2>1 DEF Idle
<1>3. net'.url = net.url /\ net'.remember = net.remember
  <2>1. net = [phase |-> net.phase, url |-> net.url, parsed |-> net.parsed,
               remember |-> net.remember, from |-> net.from, n |-> net.n, reply |-> net.reply]
    BY <1>2 DEF PageInv, FetchKnowsOrigin
  <2>2. CASE Opens
    <3>1. PICK reply : net' = [net EXCEPT !.phase = "send", !.reply = reply]
      BY <2>2 DEF Opens
    <3> QED
      BY <2>1, <3>1
  <2>3. CASE Sends
    BY <2>1, <2>3 DEF Sends
  <2>4. CASE Receives
    <3>1. PICK got : net' = [net EXCEPT !.n = net.n + got]
      BY <2>4 DEF Receives
    <3> QED
      BY <2>1, <3>1
  <2> QED
    BY <2>2, <2>3, <2>4
<1> QED
  BY <1>1, <1>2, <1>3 DEF LeavesOpenable, EveryEntryOpens

\* Back finds only addresses that can be opened, whatever was typed and given up
\* (browser.go, browser.back, l_resolve).
THEOREM HistoryCanBeOpened == Spec => []EveryEntryOpens
<1>1. Init => LeavesOpenable /\ EveryEntryOpens
  BY DEF Init, LeavesOpenable, EveryEntryOpens
<1>2. PageInv /\ LeavesOpenable /\ EveryEntryOpens /\ [Next]_vars
        => LeavesOpenable' /\ EveryEntryOpens'
  <2> SUFFICES ASSUME PageInv, LeavesOpenable, EveryEntryOpens, [Next]_vars
               PROVE  LeavesOpenable' /\ EveryEntryOpens'
    OBVIOUS
  <2>1. CASE Opens \/ Sends \/ Receives
    BY <2>1, ProgressKeepsEntries
  <2>2. CASE OpenFails \/ SendFails \/ ReceiveFails
    BY <2>2 DEF OpenFails, SendFails, ReceiveFails, Fail, app, LeavesOpenable, EveryEntryOpens
  <2>3. CASE Finishes
    BY <2>3, FinishKeepsEntries
  <2>4. CASE Event
    BY <2>4, EventKeepsEntries
  <2>5. CASE UNCHANGED vars
    BY <2>5 DEF vars, app, LeavesOpenable, EveryEntryOpens
  <2> QED
    BY <2>5, <2>4, <2>2, <2>1, <2>3 DEF Fetch, Next
<1> QED
  BY <1>1, <1>2, PagesAreSafe, PTL DEF Spec

--------------------------------------------------------------------------------
(* The invariant of the viewer.                                            *)

\* A fetch that is connected has a reply, and no more of it has come than there is.
ReplyComes ==
  net # Idle =>
    /\ net.n \in Nat
    /\ net.phase = "open" => net.n = 0
    /\ net.phase # "open" => net.reply \in Replies /\ net.n <= HeadLen + Len(net.reply.body)

\* The viewer is a viewer, and broken lines are broken to the width of its frame.
ViewHolds ==
  /\ IsView(view)
  /\ frame \in [w : Nat, h : Nat]
  /\ view.valid => view.width = Broad(frame.w)

ViewInv == ReplyComes /\ ViewHolds

LEMMA ThreeLetters ==
  \A a, b, c \in Letters : <<a, b, c>> \in Seq(Letters)
OBVIOUS

LEMMA WiderSeq ==
  \A S, T : (\A c \in S : c \in T) => \A s \in Seq(S) : s \in Seq(T)
<1> TAKE S, T
<1> HAVE \A c \in S : c \in T
<1> TAKE s \in Seq(S)
<1>1. Len(s) \in Nat /\ s \in [1 .. Len(s) -> T]
  OBVIOUS
<1> QED
  BY <1>1, SeqDef

\* What the viewer is given is a text.
LEMMA TextOfIs ==
  ASSUME NEW reply \in Replies, NEW n \in Nat, n >= HeadLen, n <= HeadLen + Len(reply.body)
  PROVE  TextOf(reply, n) \in Seq(Chars)
<1>1. reply.meta \in Seq(STRING) /\ reply.body \in Seq(Seq(STRING))
  BY PagesAssumption
<1>2. \A s \in Seq(STRING) : s \in Chars
  <2> TAKE s \in Seq(STRING)
  <2>1. \A c \in STRING : c \in Letters
    BY DEF Letters
  <2> QED
    BY <2>1, WiderSeq, Zenon DEF Chars
<1>3. <<"=", ">", " ">> \in Chars
  <2>1. "=" \in Letters /\ ">" \in Letters /\ " " \in Letters
    BY Zenon DEF Letters
  <2> QED
    BY <2>1, ThreeLetters, Zenon DEF Chars
<1>4. CASE reply.status = 3
  <2> DEFINE mark == <<"=", ">", " ">>
             line == mark \o reply.meta
  <2>1. TextOf(reply, n) = <<line>>
    BY <1>4, Zenon DEF TextOf
  <2> HIDE DEF mark
  <2>2. line \in Chars
    BY <1>1, <1>2, <1>3, ThreeTexts DEF mark
  <2> HIDE DEF line
  <2> QED
    BY <2>1, <2>2
<1>5. CASE reply.status # 3
  <2> DEFINE m == n - HeadLen
  <2>1. m \in Nat /\ m <= Len(reply.body)
    BY <1>1, PagesAssumption
  <2>2. TextOf(reply, n) = SubSeq(reply.body, 1, m)
    BY <1>5, Zenon DEF TextOf
  <2>3. \A k \in 1 .. m : reply.body[k] \in Chars
    BY <1>1, <1>2, <2>1
  <2> HIDE DEF m
  <2>4. SubSeq(reply.body, 1, m) \in Seq(Chars)
    BY <1>1, <2>1, <2>3
  <2> QED
    BY <2>2, <2>4
<1> QED
  BY <1>4, <1>5

LEMMA InitViewer == Init => ViewInv
<1> SUFFICES ASSUME Init PROVE ViewInv
  OBVIOUS
<1>1. view = NewView /\ frame = [w |-> 0, h |-> 0] /\ net = Idle
  BY DEF Init
<1>2. IsView(NewView)
  <2>1. <<>> \in Seq(Chars) /\ <<>> \in Seq(Parts)
    OBVIOUS
  <2>2. NewView \in ViewSet /\ NewView.valid = FALSE
    BY <2>1 DEF NewView, ViewSet
  <2>3. NewView.m.value <= ScrollMax(NewView.m)
    BY DEF NewView, ScrollMax
  <2> QED
    BY <2>2, <2>3, Zenon DEF IsView
<1>3. NewView.valid = FALSE
  BY DEF NewView
<1> QED
  BY <1>1, <1>2, <1>3 DEF ViewInv, ReplyComes, ViewHolds

LEMMA StutterKeepsViewer ==
  ASSUME ViewInv, UNCHANGED <<widgets, net>>
  PROVE  ViewInv'
BY DEF ViewInv, ReplyComes, ViewHolds, widgets

\* A viewer that only comes of what was there.
LEMMA ComingKeepsViewer ==
  ASSUME ViewHolds, ComesOf(view', view), UNCHANGED frame
  PROVE  ViewHolds'
BY DEF ViewHolds, ComesOf

\* Up to date, and what comes of that.
LEMMA NowIs ==
  ASSUME ViewHolds
  PROVE  IsView(Now) /\ Now.valid /\ Now.width = Broad(frame.w)
BY EnsuredIs DEF ViewHolds, Now

LEMMA ComingOfNowKeepsViewer ==
  ASSUME ViewHolds, ComesOf(view', Now), UNCHANGED frame
  PROVE  ViewHolds'
<1>1. Now.valid /\ Now.width = Broad(frame.w)
  BY NowIs
<1> QED
  BY <1>1 DEF ViewHolds, ComesOf

--------------------------------------------------------------------------------
(* A fetch.                                                                *)

LEMMA ProgressKeepsViewer ==
  ASSUME PageInv, ViewInv, Opens \/ Sends \/ Receives
  PROVE  ViewInv'
<1>1. UNCHANGED widgets /\ net # Idle
  <2>1. net.phase \in {"open", "send", "recv"}
    BY DEF Opens, Sends, Receives
  <2>2. net # Idle
    BY <2>1 DEF Idle
  <2>3. UNCHANGED widgets
    BY DEF Opens, Sends, Receives
  <2> QED
    BY <2>2, <2>3
<1>2. ViewHolds'
  BY <1>1 DEF ViewInv, ViewHolds, widgets
<1>3. net = [phase |-> net.phase, url |-> net.url, parsed |-> net.parsed,
             remember |-> net.remember, from |-> net.from, n |-> net.n, reply |-> net.reply]
  BY <1>1 DEF PageInv, FetchKnowsOrigin
<1>4. ReplyComes'
  <2>1. CASE Opens
    <3>1. PICK reply \in Replies : net' = [net EXCEPT !.phase = "send", !.reply = reply]
      BY <2>1 DEF Opens
    <3>2. net'.phase = "send" /\ net'.reply = reply /\ net'.n = net.n
      BY <1>3, <3>1
    <3>3. net.n = 0
      BY <1>1, <2>1 DEF Opens, ViewInv, ReplyComes
    <3>4. 0 <= HeadLen + Len(reply.body)
      <4>1. reply.body \in Seq(Seq(STRING)) /\ HeadLen \in Nat
        BY PagesAssumption
      <4> QED
        BY <4>1
    <3> QED
      BY <3>2, <3>3, <3>4 DEF ReplyComes
  <2>2. CASE Sends
    <3>1. net' = [net EXCEPT !.phase = "recv"] /\ net.phase = "send"
      BY <2>2 DEF Sends
    <3>2. net'.phase = "recv" /\ net'.reply = net.reply /\ net'.n = net.n
      BY <1>3, <3>1
    <3> QED
      BY <1>1, <3>1, <3>2 DEF ViewInv, ReplyComes
  <2>3. CASE Receives
    <3>1. PICK got \in 1 .. PageMax - 1 - net.n :
            /\ net.n + got <= HeadLen + Len(net.reply.body)
            /\ net' = [net EXCEPT !.n = net.n + got]
      BY <2>3 DEF Receives
    <3>2. net'.phase = net.phase /\ net'.reply = net.reply /\ net'.n = net.n + got
      BY <1>3, <3>1
    <3>3. net.phase = "recv" /\ net.n \in Nat /\ net.reply \in Replies
      BY <1>1, <2>3 DEF Receives, ViewInv, ReplyComes
    <3>4. net.n + got \in Nat
      BY <3>1, <3>3
    <3> QED
      BY <3>1, <3>2, <3>3, <3>4 DEF ReplyComes
  <2> QED
    BY <2>1, <2>2, <2>3
<1> QED
  BY <1>2, <1>4 DEF ViewInv

LEMMA FailKeepsViewer ==
  ASSUME ViewInv, Fail
  PROVE  ViewInv'
BY DEF Fail, ViewInv, ReplyComes, ViewHolds, widgets

LEMMA FinishKeepsViewer ==
  ASSUME ViewInv, Finishes
  PROVE  ViewInv'
<1>1. net' = Idle /\ net # Idle /\ net.phase # "open"
  BY DEF Finishes, Finish, Idle
<1>2. ReplyComes'
  BY <1>1 DEF ReplyComes
<1>3. CASE ~Understood
  <2>1. UNCHANGED widgets
    BY <1>3 DEF Finishes, Finish
  <2> QED
    BY <1>2, <2>1 DEF ViewInv, ViewHolds, widgets
<1>4. CASE Understood
  <2> DEFINE text == TextOf(net.reply, net.n)
  <2>1. view' = TextSet(view, text) /\ UNCHANGED frame
    BY <1>4 DEF Finishes, Finish
  <2>2. text \in Seq(Chars)
    <3>1. net.n \in Nat /\ net.reply \in Replies /\ net.n <= HeadLen + Len(net.reply.body)
      BY <1>1 DEF ViewInv, ReplyComes
    <3>2. net.n >= HeadLen
      BY <1>4 DEF Understood
    <3> QED
      BY <3>1, <3>2, TextOfIs
  <2> HIDE DEF text
  <2>3. IsView(view') /\ ~view'.valid
    BY <2>1, <2>2, TextSetIs DEF ViewInv, ViewHolds
  <2> QED
    BY <1>2, <2>1, <2>3 DEF ViewInv, ViewHolds
<1> QED
  BY <1>3, <1>4

--------------------------------------------------------------------------------
(* Events.                                                                 *)

LEMMA GoKeepsReply ==
  ASSUME net = Idle, NEW url, NEW remember, NEW from, NEW left, Go(url, remember, from, left)
  PROVE  ReplyComes'
<1>1. CASE ParseUrl(url).ok
  <2>1. net' = [phase |-> "open", url |-> url, parsed |-> ParseUrl(url),
                remember |-> remember, from |-> from, n |-> 0, reply |-> <<>>]
    BY <1>1 DEF Go
  <2>2. net'.phase = "open" /\ net'.n = 0
    BY <2>1
  <2> QED
    BY <2>2 DEF ReplyComes
<1>2. CASE ~ParseUrl(url).ok
  <2>1. net' = Idle
    BY <1>2 DEF Go
  <2> QED
    BY <2>1 DEF ReplyComes
<1> QED
  BY <1>1, <1>2

LEMMA OpenLinkKeepsReply ==
  ASSUME net = Idle, NEW v, NEW number, OpenLink(v, number)
  PROVE  ReplyComes'
<1> DEFINE target == ResolveText(address, LinkUrl(v, number))
           from == IF shown.kind = "page" /\ ~typed THEN shown.url ELSE NoText
<1>1. CASE LinkUrl(v, number) # <<>> /\ target.ok
  <2>1. Go(target.url, TRUE, from, history)
    BY <1>1 DEF OpenLink
  <2> HIDE DEF target, from
  <2> QED
    BY <2>1, GoKeepsReply
<1>2. CASE ~(LinkUrl(v, number) # <<>> /\ target.ok)
  <2>1. net' = Idle
    BY <1>2 DEF OpenLink
  <2> QED
    BY <2>1 DEF ReplyComes
<1> QED
  BY <1>1, <1>2

LEMMA PlainKeepsViewer ==
  ASSUME ViewHolds, Plain
  PROVE  ViewHolds'
<1>0. IsView(view) /\ frame \in [w : Nat, h : Nat] /\ IsView(Now) /\ Now.valid
  BY NowIs DEF ViewHolds
<1>1. CASE \E size \in Frames : Draw(size)
  <2>1. PICK size \in Frames : Draw(size)
    BY <1>1
  <2>2. size \in [w : Nat, h : Nat]
    BY PagesAssumption
  <2>3. frame' = size /\ view' = Ensured(view, size)
    BY <2>1 DEF Draw
  <2>4. IsView(view') /\ view'.width = Broad(size.w)
    BY <1>0, <2>2, <2>3, EnsuredIs
  <2> QED
    BY <2>2, <2>3, <2>4 DEF ViewHolds
<1>2. CASE \E delta \in {-1, 1} : Wheel(delta)
  <2>1. PICK delta \in {-1, 1} : Wheel(delta)
    BY <1>2
  <2>2. IsModel(ScrollBy(view.m, delta))
    BY <1>0, ModelOfView, ScrollByKeeps
  <2>3. view' = [view EXCEPT !.m = ScrollBy(view.m, delta)] /\ UNCHANGED frame
    BY <2>1 DEF Wheel
  <2>4. ComesOf(view', view)
    BY <1>0, <2>2, <2>3, ScrolledView
  <2> QED
    BY <2>3, <2>4, ComingKeepsViewer
<1>3. CASE UseBar
  <2>1. PICK m : view' = [view EXCEPT !.m = m] /\ IsModel(m)
    <3> DEFINE a == view.m
    <3>1. a \in [total : Nat, page : Nat, value : Nat]
      BY <1>0, ModelOfView
    <3>2. \/ \E delta \in {-1, 1} : \/ view' = [view EXCEPT !.m = ScrollBy(a, delta)]
                                    \/ view' = [view EXCEPT !.m = ScrollPages(a, delta)]
          \/ \E value \in 0 .. ScrollMax(a) : view' = [view EXCEPT !.m = ScrollTo(a, value)]
      BY <1>3 DEF UseBar
    <3> HIDE DEF a
    <3>3. \A value \in 0 .. ScrollMax(a) : IsModel(ScrollTo(a, value))
      BY <3>1, ScrollToKeeps
    <3>4. \A delta \in {-1, 1} : IsModel(ScrollBy(a, delta)) /\ IsModel(ScrollPages(a, delta))
      BY <3>1, ScrollByKeeps
    <3> QED
      BY <3>2, <3>3, <3>4, Zenon
  <2>2. ComesOf(view', view)
    BY <1>0, <2>1, ScrolledView
  <2>3. UNCHANGED frame
    BY <1>3 DEF UseBar
  <2> QED
    BY <2>2, <2>3, ComingKeepsViewer
<1>4. CASE \E digit \in 0 .. 9 : TypeDigit(digit)
  <2>1. PICK digit \in 0 .. 9 : TypeDigit(digit)
    BY <1>4
  <2>2. view' = DigitTyped(Now, digit) /\ UNCHANGED frame
    BY <2>1 DEF TypeDigit
  <2>3. ComesOf(view', Now)
    BY <1>0, <2>2, DigitTypedIs
  <2> QED
    BY <2>2, <2>3, ComingOfNowKeepsViewer
<1>5. CASE \E key \in {"up", "down", "page_up", "page_down", "home", "end"} : ScrollKey(key)
  <2>1. PICK key \in {"up", "down", "page_up", "page_down", "home", "end"} : ScrollKey(key)
    BY <1>5
  <2>2. view' = KeyScrolled(Now, key) /\ UNCHANGED frame
    BY <2>1 DEF ScrollKey
  <2>3. ComesOf(view', Now)
    BY <1>0, <2>2, KeyScrolledIs
  <2> QED
    BY <2>2, <2>3, ComingOfNowKeepsViewer
<1>6. CASE UNCHANGED widgets
  BY <1>6 DEF ViewHolds, widgets
<1>7. CASE ClickAddress \/ EraseAddress \/ Escape \/ \E text \in Typed : TypeAddress(text)
  <2>1. UNCHANGED widgets
    BY <1>7 DEF ClickAddress, EraseAddress, Escape, TypeAddress
  <2> QED
    BY <1>6, <2>1
<1> QED
  BY <1>1, <1>2, <1>3, <1>4, <1>5, <1>7 DEF Plain

LEMMA EventKeepsViewer ==
  ASSUME ViewInv, Event
  PROVE  ViewInv'
<1>0. net = Idle /\ ViewHolds
  BY DEF Event, ViewInv
<1>1. CASE Plain /\ UNCHANGED net
  <2>1. ViewHolds'
    BY <1>0, <1>1, PlainKeepsViewer
  <2>2. ReplyComes'
    BY <1>0, <1>1 DEF ReplyComes
  <2> QED
    BY <2>1, <2>2 DEF ViewInv
<1>2. CASE \E row \in 0 .. LinesMax - 1, clicks \in 1 .. 2 : ClickView(row, clicks)
  <2>1. PICK row \in 0 .. LinesMax - 1, clicks \in 1 .. 2 : ClickView(row, clicks)
    BY <1>2
  <2> DEFINE v == Pressed(Now, row, clicks)
  <2>2. /\ view' = [v EXCEPT !.opened = FALSE] /\ UNCHANGED frame
        /\ OpenLink(v, v.selected) \/ UNCHANGED net
    BY <2>1 DEF ClickView
  <2>3. IsView(Now) /\ Now.valid /\ row \in Nat
    BY <1>0, NowIs
  <2>4. ComesOf(view', Now)
    BY <2>2, <2>3, PressedIs
  <2> HIDE DEF v
  <2>5. ReplyComes'
    <3>1. CASE OpenLink(v, v.selected)
      BY <1>0, <3>1, OpenLinkKeepsReply
    <3>2. CASE UNCHANGED net
      BY <1>0, <3>2 DEF ReplyComes
    <3> QED
      BY <2>2, <3>1, <3>2
  <2>6. ViewHolds'
    BY <1>0, <2>2, <2>4, ComingOfNowKeepsViewer
  <2> QED
    BY <2>5, <2>6 DEF ViewInv
<1>3. CASE Enter \/ Back
  <2>1. UNCHANGED widgets
    BY <1>3 DEF Enter, Back
  <2>2. OpenLink(Now, view.selected) \/ \E url, remember, left : Go(url, remember, NoText, left)
    BY <1>3 DEF Enter, Back
  <2>3. ReplyComes'
    BY <1>0, <2>2, OpenLinkKeepsReply, GoKeepsReply
  <2>4. ViewHolds'
    BY <1>0, <2>1 DEF ViewHolds, widgets
  <2> QED
    BY <2>3, <2>4 DEF ViewInv
<1> QED
  BY <1>1, <1>2, <1>3 DEF Event

LEMMA NextKeepsViewer == PageInv /\ ViewInv /\ [Next]_vars => ViewInv'
<1> SUFFICES ASSUME PageInv, ViewInv, [Next]_vars
             PROVE  ViewInv'
  OBVIOUS
<1>1. CASE Opens \/ Sends \/ Receives
  BY <1>1, ProgressKeepsViewer
<1>2. CASE OpenFails \/ SendFails \/ ReceiveFails
  BY <1>2, FailKeepsViewer DEF OpenFails, SendFails, ReceiveFails
<1>3. CASE Finishes
  BY <1>3, FinishKeepsViewer
<1>4. CASE Event
  BY <1>4, EventKeepsViewer
<1>5. CASE UNCHANGED vars
  BY <1>5, StutterKeepsViewer DEF vars
<1> QED
  BY <1>5, <1>1, <1>2, <1>3, <1>4 DEF Next, Fetch

\* What is drawn shows the text: the lines that were broken to the frame do.
LEMMA BrokenShowsText == ViewHolds => ViewShowsText
<1> SUFFICES ASSUME ViewHolds, view.valid
             PROVE  ViewShowsText
  BY DEF ViewShowsText
<1> DEFINE lines == GemLines(view.src)
           w == view.width
           parts == view.lines
<1>1. /\ view \in ViewSet /\ view.m.value <= ScrollMax(view.m) /\ w = Broad(frame.w)
      /\ parts = Wrapped(view.src, w) /\ view.links = LinksOf(view.src)
      /\ view.selected <= Len(view.links) /\ frame.w \in Nat
  BY DEF ViewHolds, IsView
<1>2. view.src \in Seq(Chars) /\ w \in Int
  BY <1>1 DEF ViewSet
<1>3. lines \in Seq(GemLineSet)
  BY <1>2, GemLinesAreLines
<1>4. /\ parts \in Seq(Parts)
      /\ \A k \in 1 .. Len(parts) : Fits(lines, w, parts[k])
      /\ Len(parts) < LinesMax =>
           \A i \in 1 .. Len(lines) : Gathered(parts, i) = Solid(ShownChars(lines[i]))
  BY <1>1, <1>2, WrappedShows, Zenon
<1>5. \A i \in 1 .. Len(lines) :
        NumberOf(lines, i) # 0 => view.links[NumberOf(lines, i)] = lines[i].url
  BY <1>1, <1>2, LinksAre, Zenon
<1> HIDE DEF lines, w, parts
<1>6. DOMAIN lines = 1 .. Len(lines) /\ DOMAIN parts = 1 .. Len(parts)
  BY <1>3, <1>4
<1>7. ASSUME NEW k \in DOMAIN parts
      PROVE  LET part == parts[k]
             IN /\ lines[part.line].kind # "pre" =>
                     Len(part.chars) <= Avail(lines[part.line], frame.w)
                /\ part.link # 0 => view.links[part.link] = lines[part.line].url
  <2> DEFINE part == parts[k]
  <2>1. Fits(lines, w, part)
    BY <1>4, <1>6, <1>7
  <2> HIDE DEF part
  <2>2. part.line \in 1 .. Len(lines) /\ part.link = NumberOf(lines, part.line)
        /\ (lines[part.line].kind # "pre" => Len(part.chars) <= Avail(lines[part.line], w))
    BY <2>1, Zenon DEF Fits
  <2>3. Avail(lines[part.line], w) = Avail(lines[part.line], frame.w)
    <3>1. lines[part.line] \in GemLineSet
      BY <1>3, <2>2, TypedAt, Zenon
    <3> QED
      BY <1>1, <3>1, AvailOfLeast, Zenon DEF Broad
  <2> QED
    BY <1>5, <2>2, <2>3, Zenon DEF part
<1>8. LinesShowText(view, frame.w)
  BY <1>4, <1>6, <1>7, Zenon DEF LinesShowText, Gathered, lines, parts
<1> QED
  BY <1>1, <1>8 DEF ViewShowsText

--------------------------------------------------------------------------------
(* Nothing of a line is lost.                                              *)

\* The tail of two texts one after the other.
LEMMA TailOfTwo ==
  ASSUME NEW a \in Chars, NEW b \in Chars
  PROVE  SubSeq(a \o b, Len(a) + 1, Len(a \o b)) = b
<1>1. Len(a) \in Nat /\ Len(b) \in Nat /\ Len(a \o b) = Len(a) + Len(b)
  BY DEF Chars
<1>2. a \o b \in Chars
  BY ThreeTexts
<1> DEFINE t == SubSeq(a \o b, Len(a) + 1, Len(a \o b))
<1>3. t \in Chars /\ Len(t) = Len(b)
  BY <1>1, <1>2 DEF Chars
<1>4. ASSUME NEW i \in 1 .. Len(b)
      PROVE  t[i] = b[i]
  BY <1>1, <1>2 DEF Chars
<1> HIDE DEF t
<1>5. t = b
  BY <1>3, <1>4 DEF Chars
<1> QED
  BY <1>5 DEF t

\* One more character adds to what is solid unless it is a space.
LEMMA SolidLonger ==
  ASSUME NEW s \in Chars, NEW k \in Nat, k + 1 <= Len(s)
  PROVE  /\ SubSeq(s, 1, k) \in Chars /\ SubSeq(s, 1, k + 1) \in Chars
         /\ Len(Solid(SubSeq(s, 1, k))) \in Nat
         /\ s[k + 1] = " " => Len(Solid(SubSeq(s, 1, k + 1))) = Len(Solid(SubSeq(s, 1, k)))
         /\ s[k + 1] # " " => Len(Solid(SubSeq(s, 1, k + 1))) = Len(Solid(SubSeq(s, 1, k))) + 1
<1>1. Len(s) \in Nat /\ s[k + 1] \in Letters
  BY DEF Chars
<1>2. SubSeq(s, 1, k) \in Chars
  BY <1>1 DEF Chars
<1>3. SubSeq(s, 1, k + 1) = Append(SubSeq(s, 1, k), s[k + 1])
  BY <1>1 DEF Chars
<1>4. Append(SubSeq(s, 1, k), s[k + 1]) \in Chars
  BY <1>1, <1>2 DEF Chars
<1>5. Solid(SubSeq(s, 1, k)) \in Chars
  BY <1>2, SolidIsText
<1>6. Solid(SubSeq(s, 1, k + 1)) =
        IF s[k + 1] = " " THEN Solid(SubSeq(s, 1, k))
        ELSE Append(Solid(SubSeq(s, 1, k)), s[k + 1])
  BY <1>1, <1>2, <1>3, SolidAppend
<1>7. Len(Append(Solid(SubSeq(s, 1, k)), s[k + 1])) = Len(Solid(SubSeq(s, 1, k))) + 1
  BY <1>1, <1>5 DEF Chars
<1>8. Len(Solid(SubSeq(s, 1, k))) \in Nat
  BY <1>5, TextLength
<1> HIDE DEF Chars
<1> QED
  BY <1>2, <1>3, <1>4, <1>6, <1>7, <1>8, Zenon

LEMMA SolidOfFirst ==
  ASSUME NEW s \in Chars
  PROVE  /\ Len(Solid(SubSeq(s, 1, 0))) = 0
         /\ Len(s) >= 1 /\ s[1] # " " => Len(Solid(SubSeq(s, 1, 1))) = 1
<1>1. SubSeq(s, 1, 0) = <<>>
  BY DEF Chars
<1>2. Len(Solid(SubSeq(s, 1, 0))) = 0
  <2>1. Len(<<>>) = 0
    OBVIOUS
  <2> QED
    BY <1>1, <2>1, SolidOfNothing, Zenon
<1>0. Len(s) >= 1 => 0 \in Nat /\ 0 + 1 <= Len(s) /\ 0 + 1 = 1
  BY TextLength
<1>3. ASSUME Len(s) >= 1, s[1] # " "
      PROVE  Len(Solid(SubSeq(s, 1, 1))) = 1
  <2>1. 0 \in Nat /\ 0 + 1 <= Len(s) /\ 0 + 1 = 1
    BY <1>0, <1>3, Zenon
  <2>2. Len(Solid(SubSeq(s, 1, 0 + 1))) = Len(Solid(SubSeq(s, 1, 0))) + 1
    BY <2>1, <1>3, SolidLonger, Zenon
  <2> QED
    BY <2>1, <2>2, <1>2, Zenon
<1> QED
  BY <1>2, <1>3, Zenon

\* What is shown of a line whose first n characters say what it is.
LEMMA PrefixedLosesMarks ==
  ASSUME NEW s \in Chars, NEW kind, NEW n \in Nat, n <= Len(s),
         NEW lost, Len(Solid(SubSeq(s, 1, n))) = lost
  PROVE  Solid(<<>> \o Prefixed(kind, s, n).chars) = SubSeq(Solid(s), lost + 1, Len(Solid(s)))
<1> DEFINE m == Len(s)
           from == Skipped(s, n)
           a == SubSeq(s, 1, n)
           c == SubSeq(s, from + 1, m)
<1>1. m \in Nat /\ n \in 0 .. m
  BY TextLength
<1>2. from \in n .. m /\ OnlySpaces(s, n + 1, from)
  BY <1>1, SkippedIs DEF OnlySpaces
<1>3. Prefixed(kind, s, n).chars = c
  BY DEF Prefixed, PlainLine, GemLine
<1>4. from \in Nat /\ n <= from /\ from <= m /\ 0 \in Nat /\ 0 <= n
  BY <1>1, <1>2
<1>5. Solid(SubSeq(s, 0 + 1, m)) = Solid(SubSeq(s, 0 + 1, n)) \o Solid(c)
  BY <1>2, <1>4, SolidFrom, Zenon
<1>6. SubSeq(s, 0 + 1, m) = s /\ SubSeq(s, 0 + 1, n) = a
  BY <1>1 DEF Chars
<1>7. Solid(s) = Solid(a) \o Solid(c)
  BY <1>5, <1>6, Zenon
<1>8. a \in Chars /\ c \in Chars
  <2>1. from \in 0 .. m /\ m \in 0 .. m /\ 0 \in 0 .. m
    BY <1>1, <1>4
  <2> QED
    BY <2>1, <1>1, <1>6, PartIsText, Zenon
<1>9. Solid(a) \in Chars /\ Solid(c) \in Chars /\ <<>> \o c = c
  BY <1>8, SolidIsText, ThreeTexts
<1> HIDE DEF a, c, m, from
<1>10. SubSeq(Solid(s), Len(Solid(a)) + 1, Len(Solid(s))) = Solid(c)
  <2>1. SubSeq(Solid(a) \o Solid(c), Len(Solid(a)) + 1, Len(Solid(a) \o Solid(c))) = Solid(c)
    BY <1>9, TailOfTwo, Zenon
  <2> QED
    BY <1>7, <2>1, Zenon
<1> QED
  BY <1>3, <1>9, <1>10, Zenon DEF a

LEMMA LinkLosesMarks ==
  ASSUME NEW s \in Chars, 2 \in 0 .. Len(s), s[1] = "=", s[2] = ">"
  PROVE  LET c == LinkLine(s)
             lost == IF c.kind = "text" THEN 0 ELSE 2
         IN /\ c.kind \in {"text", "link"}
            /\ Solid(c.url \o c.chars) = SubSeq(Solid(s), lost + 1, Len(Solid(s)))
            /\ c.kind = "link" => c.url # <<>>
<1> DEFINE m == Len(s)
           from == Skipped(s, 2)
           to == WordEndsAt(s, from)
           next == Skipped(s, to)
           a == SubSeq(s, 1, 2)
           u == SubSeq(s, from + 1, to)
           c == SubSeq(s, next + 1, m)
<1>1. m \in Nat
  BY TextLength
<1>2. from \in 2 .. m /\ OnlySpaces(s, 2 + 1, from)
  BY <1>1, SkippedIs DEF OnlySpaces
<1>6. from = m \/ s[from + 1] # " "
  BY <1>1, SkippedIs
<1>3. LinkLine(s) = IF from = m THEN PlainLine("text", s) ELSE GemLine("link", c, u)
  BY Zenon DEF LinkLine, WordEndsAt
<1>4. CASE from = m
  <2>1. LinkLine(s) = PlainLine("text", s)
    BY <1>3, <1>4, Zenon
  <2>2. LinkLine(s).kind = "text" /\ LinkLine(s).url = <<>> /\ LinkLine(s).chars = s
    BY <2>1 DEF PlainLine, GemLine
  <2>3. <<>> \o s = s /\ Solid(s) \in Chars
    BY ThreeTexts, SolidIsText
  <2>4. SubSeq(Solid(s), 1, Len(Solid(s))) = Solid(s)
    BY <2>3 DEF Chars
  <2> HIDE DEF from, m, to, next, a, u, c
  <2> QED
    BY <2>2, <2>3, <2>4
<1>5. CASE from # m
  <2>1. from \in 0 .. m /\ from \in Nat /\ from < m
    <3> HIDE DEF from, m
    <3> QED
      BY <1>1, <1>2, <1>5
  <2>2. to \in from .. m
    BY <2>1, WordEndsAtIs
  <2>3. to # from
    <3> DEFINE S == {q \in from .. m : q = m \/ s[q + 1] = " "}
    <3>1. m \in S /\ S \in SUBSET Nat /\ from \notin S
      <4>1. m \in from .. m /\ from \in from .. m /\ \A q \in from .. m : q \in Nat
        BY <1>1, <2>1
      <4> HIDE DEF from, m
      <4> QED
        BY <1>5, <1>6, <4>1, Zenon
    <3>2. Min(S) \in S
      <4> HIDE DEF S
      <4> QED
        BY <3>1, MinIsLeast
    <3>3. to = Min(S)
      BY DEF WordEndsAt
    <3> HIDE DEF S, to
    <3> QED
      BY <3>1, <3>2, <3>3
  <2>4. to \in 0 .. m /\ to \in Nat /\ from < to
    <3> HIDE DEF from, m, to
    <3> QED
      BY <1>1, <2>1, <2>2, <2>3
  <2>5. next \in to .. m /\ OnlySpaces(s, to + 1, next)
    BY <2>4, SkippedIs DEF OnlySpaces
  <2>6. next \in Nat /\ to <= next /\ next <= m /\ from <= to /\ 2 <= from /\ from <= m
        /\ 0 \in Nat /\ 2 \in Nat /\ 0 <= 2 /\ next \in 0 .. m /\ 2 \in 0 .. m /\ 0 \in 0 .. m
        /\ m \in 0 .. m
    <3> HIDE DEF from, m, to, next
    <3> QED
      BY <1>1, <1>2, <2>1, <2>4, <2>5
  <2>7. Solid(SubSeq(s, 0 + 1, m)) = Solid(SubSeq(s, 0 + 1, 2)) \o Solid(SubSeq(s, from + 1, m))
    <3>1. OnlySpaces(s, 2 + 1, from) /\ 0 \in Nat /\ 2 \in Nat /\ from \in Nat
          /\ 0 <= 2 /\ 2 <= from /\ from <= Len(s)
      BY <1>2, <2>1, <2>6, Zenon
    <3> HIDE DEF from
    <3> QED
      BY <3>1, SolidFrom, ZenonT(40)
  <2>8. Solid(SubSeq(s, from + 1, m)) = Solid(u) \o Solid(c)
    <3>1. OnlySpaces(s, to + 1, next) /\ from \in Nat /\ to \in Nat /\ next \in Nat
          /\ from <= to /\ to <= next /\ next <= Len(s)
      BY <2>1, <2>4, <2>5, <2>6, Zenon
    <3> HIDE DEF from, to, next
    <3> QED
      BY <3>1, SolidFrom, Zenon
  <2>9. SubSeq(s, 0 + 1, m) = s /\ SubSeq(s, 0 + 1, 2) = a
    BY <1>1 DEF Chars
  <2>10. a \in Chars /\ u \in Chars /\ c \in Chars
    BY <2>1, <2>4, <2>6, <2>9, PartIsText, Zenon
  <2>11. u # <<>>
    <3>1. Len(u) = to - from
      BY <2>1, <2>4, <2>6 DEF Chars
    <3>2. Len(u) # 0
      BY <2>1, <2>4, <3>1
    <3> HIDE DEF u
    <3> QED
      BY <3>2
  <2>12. Len(Solid(a)) = 2
    <3>1. 1 \in Nat /\ 1 + 1 <= Len(s) /\ 1 + 1 = 2 /\ Len(s) >= 1
      BY <1>1
    <3>2. Len(Solid(SubSeq(s, 1, 1))) = 1
      BY <3>1, SolidOfFirst
    <3>3. Len(Solid(SubSeq(s, 1, 1 + 1))) = Len(Solid(SubSeq(s, 1, 1))) + 1
      BY <3>1, SolidLonger, Zenon
    <3>4. Len(Solid(a)) = 1 + 1
      BY <3>1, <3>2, <3>3, Zenon
    <3> QED
      BY <3>4, <3>1, Zenon
  <2> HIDE DEF from, m, to, next, a, u, c
  <2>13. LinkLine(s) = GemLine("link", c, u)
    BY <1>3, <1>5, Zenon
  <2>14. LinkLine(s).kind = "link" /\ LinkLine(s).url = u /\ LinkLine(s).chars = c
    BY <2>13 DEF GemLine
  <2>15. Solid(u \o c) = Solid(u) \o Solid(c) /\ Solid(u \o c) \in Chars /\ Solid(a) \in Chars
    <3>1. u \o c \in Chars
      BY <2>10, ThreeTexts, Zenon
    <3> QED
      BY <3>1, <2>10, SolidConcat, SolidIsText, Zenon
  <2>16. Solid(s) = Solid(a) \o Solid(u \o c)
    BY <2>7, <2>8, <2>9, <2>15, Zenon
  <2>17. SubSeq(Solid(s), Len(Solid(a)) + 1, Len(Solid(s))) = Solid(u \o c)
    BY <2>15, <2>16, TailOfTwo, Zenon
  <2>18. SubSeq(Solid(s), 2 + 1, Len(Solid(s))) = Solid(u \o c)
    BY <2>12, <2>17, Zenon
  <2> QED
    BY <2>11, <2>14, <2>18
<1> QED
  BY <1>4, <1>5

LEMMA PlainLosesNothing ==
  ASSUME NEW s \in Chars
  PROVE  Solid(<<>> \o s) = SubSeq(Solid(s), 1, Len(Solid(s)))
<1>1. <<>> \o s = s /\ Solid(s) \in Chars
  BY ThreeTexts, SolidIsText
<1> QED
  BY <1>1 DEF Chars

\* Of any line the characters that say what it is are lost and nothing else.
LEMMA LinesLoseMarks ==
  ASSUME NEW s \in Chars
  PROVE  NothingIsLost(s)
<1> DEFINE c == Classified(s)
           Right(lost) == /\ Solid(c.url \o c.chars) = SubSeq(Solid(s), lost + 1, Len(Solid(s)))
                          /\ c.kind = "link" => c.url # <<>>
<1>0. Len(s) \in Nat
  BY TextLength
<1>1. CASE IsPrefix(<<"=", ">">>, s)
  <2>1. 2 \in 0 .. Len(s) /\ s[1] = "=" /\ s[2] = ">"
    BY <1>1, MarksOfLine
  <2>2. c = LinkLine(s)
    BY <1>1, MarksOfLine DEF Classified
  <2>3. c.kind \in {"text", "link"} /\ Right(IF c.kind = "text" THEN 0 ELSE 2)
    BY <2>1, <2>2, LinkLosesMarks, Zenon
  <2> HIDE DEF c
  <2> QED
    BY <2>3 DEF NothingIsLost, c
<1>2. CASE ~IsPrefix(<<"=", ">">>, s) /\ IsPrefix(<<"#">>, s)
  <2>1. Len(s) >= 1 /\ s[1] = "#"
    BY <1>2, MarksOfLine
  <2> DEFINE n == Level(s)
  <2>2. n \in 1 .. 3 /\ n \in 0 .. Len(s) /\ \A i \in 1 .. n : s[i] = "#"
    BY <2>1, LevelIs
  <2> DEFINE L(k) == Len(Solid(SubSeq(s, 1, k)))
  <2>3. \A k \in Nat : k + 1 <= n => L(k + 1) = L(k) + 1 /\ L(k) \in Nat
    <3> TAKE k \in Nat
    <3> HAVE k + 1 <= n
    <3>1. k + 1 <= Len(s) /\ s[k + 1] = "#"
      BY <2>2, <1>0
    <3>2. s[k + 1] # " "
      BY <3>1
    <3> QED
      BY <3>1, <3>2, SolidLonger, Zenon
  <2>4. L(0) = 0
    BY SolidOfFirst
  <2> HIDE DEF L
  <2>5. L(n) = n
    <3>1. 1 <= n => L(0 + 1) = L(0) + 1
      BY <2>3, <2>2
    <3>2. 2 <= n => L(1 + 1) = L(1) + 1
      BY <2>3, <2>2
    <3>3. 3 <= n => L(2 + 1) = L(2) + 1
      BY <2>3, <2>2
    <3> HIDE DEF n
    <3> QED
      BY <2>2, <2>4, <3>1, <3>2, <3>3
  <2>6. c = Prefixed("heading", s, n)
    BY <1>2, MarksOfLine DEF Classified
  <2>7. Solid(<<>> \o Prefixed("heading", s, n).chars) = SubSeq(Solid(s), n + 1, Len(Solid(s)))
    <3>1. n \in Nat /\ n <= Len(s)
      BY <2>2, <1>0
    <3> QED
      BY <2>5, <3>1, PrefixedLosesMarks, Zenon DEF L
  <2>8. c.kind = "heading" /\ c.url = <<>>
    BY <2>6 DEF Prefixed, PlainLine, GemLine
  <2>9. Right(n)
    <3> HIDE DEF n, c
    <3>1. Solid(c.url \o c.chars) = SubSeq(Solid(s), n + 1, Len(Solid(s)))
      BY <2>6, <2>7, <2>8, Zenon
    <3> QED
      BY <3>1, <2>8
  <2> HIDE DEF c
  <2> QED
    BY <2>8, <2>9 DEF NothingIsLost, c
<1>3. CASE /\ ~IsPrefix(<<"=", ">">>, s) /\ ~IsPrefix(<<"#">>, s)
           /\ IsPrefix(<<"*", " ">>, s)
  <2>0. 2 \in 0 .. Len(s)
    BY <1>3, MarksOfLine
  <2>1. s[1] = "*" /\ s[2] = " "
    BY <1>3, MarksOfLine
  <2>2. Len(Solid(SubSeq(s, 1, 2))) = 1
    <3>1. 1 \in Nat /\ 1 + 1 <= Len(s) /\ 1 + 1 = 2 /\ Len(s) >= 1
      BY <1>0, <2>0
    <3>2. Len(Solid(SubSeq(s, 1, 1))) = 1
      BY <2>1, <3>1, SolidOfFirst
    <3>3. Len(Solid(SubSeq(s, 1, 1 + 1))) = Len(Solid(SubSeq(s, 1, 1)))
      BY <2>1, <3>1, SolidLonger, Zenon
    <3> QED
      BY <3>1, <3>2, <3>3, Zenon
  <2>3. c = Prefixed("item", s, 2)
    BY <1>3, MarksOfLine DEF Classified
  <2>4. Solid(<<>> \o Prefixed("item", s, 2).chars) = SubSeq(Solid(s), 1 + 1, Len(Solid(s)))
    <3>1. 2 \in Nat /\ 2 <= Len(s)
      BY <2>0, <1>0
    <3> QED
      BY <2>2, <3>1, PrefixedLosesMarks, Zenon
  <2>5. c.kind = "item" /\ c.url = <<>>
    BY <2>3 DEF Prefixed, PlainLine, GemLine
  <2> HIDE DEF c
  <2>6. Right(1)
    <3>1. Solid(c.url \o c.chars) = SubSeq(Solid(s), 1 + 1, Len(Solid(s)))
      BY <2>3, <2>4, <2>5, Zenon
    <3> QED
      BY <3>1, <2>5
  <2> QED
    BY <2>5, <2>6 DEF NothingIsLost, c
<1>4. CASE /\ ~IsPrefix(<<"=", ">">>, s) /\ ~IsPrefix(<<"#">>, s)
           /\ ~IsPrefix(<<"*", " ">>, s) /\ IsPrefix(<<">">>, s)
  <2>1. 1 \in 0 .. Len(s) /\ s[1] = ">"
    BY <1>4, MarksOfLine
  <2>2. Len(Solid(SubSeq(s, 1, 1))) = 1
    <3>1. Len(s) >= 1
      BY <1>0, <2>1
    <3> QED
      BY <2>1, <3>1, SolidOfFirst
  <2>3. c = Prefixed("quote", s, 1)
    BY <1>4, MarksOfLine DEF Classified
  <2>4. Solid(<<>> \o Prefixed("quote", s, 1).chars) = SubSeq(Solid(s), 1 + 1, Len(Solid(s)))
    <3>1. 1 \in Nat /\ 1 <= Len(s)
      BY <2>1, <1>0
    <3> QED
      BY <2>2, <3>1, PrefixedLosesMarks, Zenon
  <2>5. c.kind = "quote" /\ c.url = <<>>
    BY <2>3 DEF Prefixed, PlainLine, GemLine
  <2> HIDE DEF c
  <2>6. Right(1)
    <3>1. Solid(c.url \o c.chars) = SubSeq(Solid(s), 1 + 1, Len(Solid(s)))
      BY <2>3, <2>4, <2>5, Zenon
    <3> QED
      BY <3>1, <2>5
  <2> QED
    BY <2>5, <2>6 DEF NothingIsLost, c
<1>5. CASE /\ ~IsPrefix(<<"=", ">">>, s) /\ ~IsPrefix(<<"#">>, s)
           /\ ~IsPrefix(<<"*", " ">>, s) /\ ~IsPrefix(<<">">>, s)
  <2>1. c = PlainLine("text", s)
    BY <1>5, MarksOfLine DEF Classified
  <2>2. c.kind = "text" /\ c.url = <<>> /\ c.chars = s
    BY <2>1 DEF PlainLine, GemLine
  <2> HIDE DEF c
  <2>3. Right(0)
    BY <2>2, PlainLosesNothing
  <2> QED
    BY <2>2, <2>3 DEF NothingIsLost, c
<1> QED
  BY <1>1, <1>2, <1>3, <1>4, <1>5, Zenon

--------------------------------------------------------------------------------
(* Recursive functions.                                                    *)

\* f starts with init, and each value comes from the one before.
IsRun(f, n, S, init, step) ==
  /\ f \in [0 .. n -> S]
  /\ f[0] = init
  /\ \A k \in 1 .. n : f[k] = step[<<k, f[k - 1]>>]

LEMMA RunExists ==
  ASSUME NEW n \in Nat, NEW S, NEW init \in S, NEW step,
         \A k \in 1 .. n : \A x \in S : step[<<k, x>>] \in S
  PROVE  \E f : IsRun(f, n, S, init, step)
<1> DEFINE Has(m) == \E f : IsRun(f, m, S, init, step)
           Lacking == {m \in 0 .. n : ~Has(m)}
<1>1. Has(0)
  <2> DEFINE f == [k \in 0 .. 0 |-> init]
  <2>1. f \in [0 .. 0 -> S] /\ f[0] = init /\ 1 .. 0 = {}
    OBVIOUS
  <2> HIDE DEF f
  <2>2. IsRun(f, 0, S, init, step)
    BY <2>1 DEF IsRun
  <2> QED
    BY <2>2
<1>2. ASSUME NEW m \in 1 .. n, Has(m - 1)
      PROVE  Has(m)
  <2>1. PICK f : IsRun(f, m - 1, S, init, step)
    BY <1>2
  <2>2. f \in [0 .. m - 1 -> S] /\ f[0] = init /\ \A k \in 1 .. m - 1 : f[k] = step[<<k, f[k - 1]>>]
    BY <2>1 DEF IsRun
  <2> DEFINE last == step[<<m, f[m - 1]>>]
             g == [k \in 0 .. m |-> IF k = m THEN last ELSE f[k]]
  <2>3. m - 1 \in 0 .. m - 1 /\ m \in Nat /\ m # 0
    OBVIOUS
  <2>4. last \in S
    BY <2>2, <2>3
  <2>5. \A k \in 0 .. m : k # m => k \in 0 .. m - 1
    OBVIOUS
  <2> HIDE DEF last
  <2>6. g \in [0 .. m -> S]
    BY <2>2, <2>4, <2>5
  <2>7. g[0] = init /\ g[m] = last /\ \A k \in 0 .. m - 1 : g[k] = f[k]
    BY <2>2, <2>3
  <2> HIDE DEF g
  <2>8. ASSUME NEW k \in 1 .. m
        PROVE  g[k] = step[<<k, g[k - 1]>>]
    <3>1. CASE k = m
      BY <2>3, <2>7, <3>1 DEF last
    <3>2. CASE k # m
      <4>1. k \in 1 .. m - 1 /\ k \in 0 .. m - 1 /\ k - 1 \in 0 .. m - 1
        BY <3>2
      <4>2. f[k] = step[<<k, f[k - 1]>>]
        BY <2>2, <4>1, Zenon
      <4> QED
        BY <2>7, <4>1, <4>2, Zenon
    <3> QED
      BY <3>1, <3>2
  <2>9. IsRun(g, m, S, init, step)
    BY <2>6, <2>7, <2>8 DEF IsRun
  <2> QED
    BY <2>9
<1> HIDE DEF Has
<1>3. Lacking = {}
  <2>1. SUFFICES ASSUME Lacking # {} PROVE FALSE
    OBVIOUS
  <2>2. Lacking \in SUBSET Nat
    OBVIOUS
  <2> DEFINE least == Min(Lacking)
  <2>3. least \in Lacking /\ \A k \in Lacking : least <= k
    BY <2>1, <2>2, MinIsLeast, Zenon
  <2> HIDE DEF least
  <2>4. least \in 1 .. n /\ ~Has(least)
    BY <1>1, <2>3
  <2>5. least - 1 \notin Lacking
    BY <2>3, <2>4
  <2>6. Has(least - 1)
    BY <2>4, <2>5
  <2> QED
    BY <1>2, <2>4, <2>6
<1>4. n \in 0 .. n
  OBVIOUS
<1> QED
  BY <1>3, <1>4 DEF Has

Follows(g, n, S, init, step) ==
  /\ g = [k \in 0 .. n |-> g[k]]
  /\ g[0] = init
  /\ \A k \in 1 .. n : g[k - 1] \in S => g[k] = step[<<k, g[k - 1]>>]

LEMMA RunIsOne ==
  ASSUME NEW n \in Nat, NEW S, NEW init \in S, NEW step, NEW f, IsRun(f, n, S, init, step),
         NEW g, Follows(g, n, S, init, step)
  PROVE  g = f
<1> DEFINE Wrong == {k \in 0 .. n : g[k] # f[k]}
<1>1. f \in [0 .. n -> S] /\ f[0] = init /\ \A k \in 1 .. n : f[k] = step[<<k, f[k - 1]>>]
  BY DEF IsRun
<1>2. Wrong = {}
  <2>1. SUFFICES ASSUME Wrong # {} PROVE FALSE
    OBVIOUS
  <2>2. Wrong \in SUBSET Nat
    OBVIOUS
  <2> DEFINE m == Min(Wrong)
  <2>3. m \in Wrong /\ \A k \in Wrong : m <= k
    <3> HIDE DEF Wrong
    <3> QED
      BY <2>1, <2>2, MinIsLeast, Zenon
  <2> HIDE DEF m
  <2>4. m \in 0 .. n /\ g[m] # f[m]
    BY <2>3
  <2>5. m \in 1 .. n /\ m - 1 \in 0 .. n /\ ~(m <= m - 1)
    BY <1>1, <2>4 DEF Follows
  <2>6. m - 1 \notin Wrong
    <3> HIDE DEF Wrong
    <3> QED
      BY <2>3, <2>5
  <2>7. g[m - 1] = f[m - 1] /\ f[m - 1] \in S
    BY <1>1, <2>5, <2>6
  <2> QED
    BY <1>1, <2>4, <2>5, <2>7, Zenon DEF Follows
<1>3. \A k \in 0 .. n : g[k] = f[k]
  BY <1>2
<1> QED
  BY <1>1, <1>3 DEF Follows

--------------------------------------------------------------------------------
(* Numbers out of digits.                                                  *)

ValueSteps(s) ==
  [x \in (1 .. Len(s)) \X Nat |->
     IF s[x[1]] \notin DOMAIN DigitValue \/ x[2] > PortMax THEN PortMax + 1
     ELSE x[2] * 10 + DigitValue[s[x[1]]]]

\* What is assumed of digits and bounds, apart from the characters.
LEMMA UrlBounds ==
  /\ PortMax \in Nat /\ DefaultPort \in 1 .. PortMax /\ HostMax \in Nat /\ PathMax \in Nat
  /\ \A ch \in DOMAIN DigitValue : DigitValue[ch] \in 0 .. 9
  /\ \A v \in 0 .. 9 : \E ch \in DOMAIN DigitValue : DigitValue[ch] = v
BY UrlsAssumption, Zenon

LEMMA ValueStepIs ==
  ASSUME NEW s, NEW k \in 1 .. Len(s), NEW v \in Nat
  PROVE  /\ ValueSteps(s)[<<k, v>>] =
              (IF s[k] \notin DOMAIN DigitValue \/ v > PortMax THEN PortMax + 1
               ELSE v * 10 + DigitValue[s[k]])
         /\ ValueSteps(s)[<<k, v>>] \in Nat
<1>1. <<k, v>> \in (1 .. Len(s)) \X Nat /\ <<k, v>>[1] = k /\ <<k, v>>[2] = v
  OBVIOUS
<1>2. ValueSteps(s)[<<k, v>>] =
        (IF s[k] \notin DOMAIN DigitValue \/ v > PortMax THEN PortMax + 1
         ELSE v * 10 + DigitValue[s[k]])
  BY <1>1, Zenon DEF ValueSteps
<1>3. PortMax + 1 \in Nat /\ (s[k] \in DOMAIN DigitValue => DigitValue[s[k]] \in 0 .. 9)
  BY UrlBounds
<1>4. s[k] \in DOMAIN DigitValue => v * 10 + DigitValue[s[k]] \in Nat
  BY <1>3
<1> QED
  BY <1>2, <1>3, <1>4, Zenon

\* What PortOf computes.
LEMMA PortRun ==
  ASSUME NEW s \in Chars
  PROVE  \E f : IsRun(f, Len(s), Nat, 0, ValueSteps(s)) /\ PortOf(s) = f[Len(s)]
<1> DEFINE n == Len(s)
           Rule(g, i) == IF i = 0 THEN 0
                         ELSE IF s[i] \notin DOMAIN DigitValue \/ g[i - 1] > PortMax THEN PortMax + 1
                         ELSE g[i - 1] * 10 + DigitValue[s[i]]
           value == CHOOSE g : g = [i \in 0 .. n |-> Rule(g, i)]
<1>1. n \in Nat
  BY TextLength
<1>2. \A k \in 1 .. n : \A x \in Nat : ValueSteps(s)[<<k, x>>] \in Nat
  BY ValueStepIs
<1>3. PICK f : IsRun(f, n, Nat, 0, ValueSteps(s))
  <2> HIDE DEF n
  <2>1. 0 \in Nat
    OBVIOUS
  <2> QED
    BY <1>1, <1>2, <2>1, RunExists, Zenon
<1>4. f \in [0 .. n -> Nat] /\ f[0] = 0 /\ \A k \in 1 .. n : f[k] = ValueSteps(s)[<<k, f[k - 1]>>]
  BY <1>3 DEF IsRun
<1>5. f = [i \in 0 .. n |-> Rule(f, i)]
  <2>1. ASSUME NEW i \in 0 .. n
        PROVE  f[i] = Rule(f, i)
    <3>1. CASE i = 0
      BY <1>4, <3>1
    <3>2. CASE i # 0
      <4>1. i \in 1 .. n /\ i - 1 \in 0 .. n
        BY <1>1, <3>2
      <4>2. f[i - 1] \in Nat
        BY <1>4, <4>1
      <4>3. f[i] = ValueSteps(s)[<<i, f[i - 1]>>]
        BY <1>4, <4>1, Zenon
      <4>4. ValueSteps(s)[<<i, f[i - 1]>>] =
              (IF s[i] \notin DOMAIN DigitValue \/ f[i - 1] > PortMax THEN PortMax + 1
               ELSE f[i - 1] * 10 + DigitValue[s[i]])
        BY <4>1, <4>2, ValueStepIs, Zenon
      <4> QED
        BY <3>2, <4>3, <4>4, Zenon
    <3> QED
      BY <3>1, <3>2
  <2> HIDE DEF Rule
  <2> QED
    BY <1>4, <2>1
<1>6. value = [i \in 0 .. n |-> Rule(value, i)]
  <2> HIDE DEF Rule
  <2> QED
    BY <1>5, Zenon
<1>7. PortOf(s) = value[n]
  BY DEF PortOf
<1> HIDE DEF value
<1>8. \A i \in 0 .. n : value[i] = Rule(value, i)
  <2> HIDE DEF Rule
  <2> QED
    BY <1>6, Zenon
<1>9. value = [k \in 0 .. n |-> value[k]]
  <2> HIDE DEF Rule
  <2> QED
    BY <1>6, <1>8
<1>10. value[0] = 0
  <2>1. 0 \in 0 .. n
    BY <1>1
  <2> QED
    BY <1>8, <2>1
<1>11. ASSUME NEW k \in 1 .. n, value[k - 1] \in Nat
       PROVE  value[k] = ValueSteps(s)[<<k, value[k - 1]>>]
  <2>1. k \in 0 .. n /\ k # 0
    BY <1>1
  <2>2. value[k] = Rule(value, k)
    BY <1>8, <2>1, Zenon
  <2>3. ValueSteps(s)[<<k, value[k - 1]>>] =
          (IF s[k] \notin DOMAIN DigitValue \/ value[k - 1] > PortMax THEN PortMax + 1
           ELSE value[k - 1] * 10 + DigitValue[s[k]])
    BY <1>11, ValueStepIs, Zenon
  <2>4. Rule(value, k) =
          (IF s[k] \notin DOMAIN DigitValue \/ value[k - 1] > PortMax THEN PortMax + 1
           ELSE value[k - 1] * 10 + DigitValue[s[k]])
    BY <2>1, Zenon
  <2> HIDE DEF Rule
  <2> QED
    BY <2>2, <2>3, <2>4, Zenon
<1>12. value = f
  <2> HIDE DEF n, Rule
  <2>1. 0 \in Nat
    OBVIOUS
  <2>2. \A k \in 1 .. n : value[k - 1] \in Nat => value[k] = ValueSteps(s)[<<k, value[k - 1]>>]
    BY <1>11, Zenon
  <2> DEFINE step == ValueSteps(s)
  <2>3. IsRun(f, n, Nat, 0, step)
    BY <1>3, Zenon
  <2>4. Follows(value, n, Nat, 0, step)
    BY <1>9, <1>10, <2>2, Zenon DEF Follows
  <2> HIDE DEF step
  <2> QED
    BY <1>1, <2>1, <2>3, <2>4, RunIsOne, Zenon
<1> QED
  BY <1>3, <1>7, <1>12, Zenon

LEMMA PortIsNumber ==
  ASSUME NEW s \in Chars
  PROVE  PortOf(s) \in Nat
<1>1. PICK f : IsRun(f, Len(s), Nat, 0, ValueSteps(s)) /\ PortOf(s) = f[Len(s)]
  BY PortRun
<1>2. Len(s) \in 0 .. Len(s)
  BY TextLength
<1> QED
  BY <1>1, <1>2 DEF IsRun

LEMMA PortOfNothing == PortOf(<<>>) = 0
<1>1. <<>> \in Chars /\ Len(<<>>) = 0
  BY DEF Chars
<1>2. PICK f : IsRun(f, Len(<<>>), Nat, 0, ValueSteps(<<>>)) /\ PortOf(<<>>) = f[Len(<<>>)]
  BY <1>1, PortRun, Zenon
<1> QED
  BY <1>1, <1>2, Zenon DEF IsRun

\* One more digit.
LEMMA PortOfMore ==
  ASSUME NEW s \in Chars, NEW c \in Letters
  PROVE  /\ Append(s, c) \in Chars
         /\ c \in DOMAIN DigitValue /\ PortOf(s) <= PortMax =>
              PortOf(Append(s, c)) = PortOf(s) * 10 + DigitValue[c]
<1> DEFINE t == Append(s, c)
           n == Len(s)
<1>1. n \in Nat /\ t \in Chars /\ Len(t) = n + 1 /\ t[n + 1] = c /\ \A i \in 1 .. n : t[i] = s[i]
  BY DEF Chars
<1>2. PICK f : IsRun(f, n, Nat, 0, ValueSteps(s)) /\ PortOf(s) = f[n]
  BY PortRun
<1>3. PICK g : IsRun(g, Len(t), Nat, 0, ValueSteps(t)) /\ PortOf(t) = g[Len(t)]
  BY <1>1, PortRun, Zenon
<1> DEFINE h == [k \in 0 .. n |-> g[k]]
<1> HIDE DEF t, n
<1>4. /\ g \in [0 .. n + 1 -> Nat] /\ g[0] = 0
      /\ \A k \in 1 .. n + 1 : g[k] = ValueSteps(t)[<<k, g[k - 1]>>]
  BY <1>1, <1>3 DEF IsRun
<1>5. Follows(h, n, Nat, 0, ValueSteps(s))
  <2>1. \A k \in 0 .. n : h[k] = g[k]
    OBVIOUS
  <2>2. h = [k \in 0 .. n |-> h[k]]
    OBVIOUS
  <2>3. 0 \in 0 .. n
    BY <1>1
  <2> HIDE DEF h
  <2>4. h[0] = 0
    BY <1>4, <2>1, <2>3
  <2>5. ASSUME NEW k \in 1 .. n
        PROVE  h[k] = ValueSteps(s)[<<k, h[k - 1]>>]
    <3>1. k \in 0 .. n /\ k - 1 \in 0 .. n /\ k \in 1 .. n + 1 /\ k - 1 \in 0 .. n + 1
      BY <1>1
    <3>2. g[k - 1] \in Nat
      BY <1>4, <3>1
    <3>3. ValueSteps(t)[<<k, g[k - 1]>>] =
            (IF t[k] \notin DOMAIN DigitValue \/ g[k - 1] > PortMax THEN PortMax + 1
             ELSE g[k - 1] * 10 + DigitValue[t[k]])
      <4>1. k \in 1 .. Len(t)
        BY <1>1, <3>1
      <4> QED
        BY <3>2, <4>1, ValueStepIs, Zenon
    <3>4. ValueSteps(s)[<<k, g[k - 1]>>] =
            (IF s[k] \notin DOMAIN DigitValue \/ g[k - 1] > PortMax THEN PortMax + 1
             ELSE g[k - 1] * 10 + DigitValue[s[k]])
      BY <3>2, ValueStepIs, Zenon DEF n
    <3>5. t[k] = s[k]
      BY <1>1
    <3>6. ValueSteps(t)[<<k, g[k - 1]>>] = ValueSteps(s)[<<k, g[k - 1]>>]
      BY <3>3, <3>4, <3>5
    <3>7. g[k] = ValueSteps(t)[<<k, g[k - 1]>>]
      BY <1>4, <3>1, Zenon
    <3> QED
      BY <2>1, <3>1, <3>6, <3>7, Zenon
  <2> QED
    BY <2>2, <2>4, <2>5, Zenon DEF Follows
<1>6. h = f
  <2> HIDE DEF h
  <2>1. 0 \in Nat
    OBVIOUS
  <2> QED
    BY <1>1, <1>2, <1>5, <2>1, RunIsOne, Zenon
<1>7. g[n] = PortOf(s)
  <2>1. n \in 0 .. n
    BY <1>1
  <2>2. h[n] = g[n]
    BY <2>1
  <2> QED
    BY <1>2, <1>6, <2>2, Zenon
<1>8. ASSUME c \in DOMAIN DigitValue, PortOf(s) <= PortMax
      PROVE  PortOf(t) = PortOf(s) * 10 + DigitValue[c]
  <2>1. n + 1 \in 1 .. Len(t) /\ n + 1 \in 1 .. n + 1 /\ (n + 1) - 1 = n
    BY <1>1
  <2>2. PortOf(s) \in Nat
    BY PortIsNumber
  <2>3. ~(PortOf(s) > PortMax)
    BY <1>8, <2>2, UrlBounds
  <2>4. ValueSteps(t)[<<n + 1, PortOf(s)>>] =
          (IF t[n + 1] \notin DOMAIN DigitValue \/ PortOf(s) > PortMax THEN PortMax + 1
           ELSE PortOf(s) * 10 + DigitValue[t[n + 1]])
    BY <2>1, <2>2, ValueStepIs, Zenon
  <2>5. ValueSteps(t)[<<n + 1, PortOf(s)>>] = PortOf(s) * 10 + DigitValue[c]
    BY <1>1, <1>8, <2>3, <2>4, Zenon
  <2>6. g[n + 1] = ValueSteps(t)[<<n + 1, g[(n + 1) - 1]>>]
    BY <1>4, <2>1, Zenon
  <2> QED
    BY <1>1, <1>3, <1>7, <2>1, <2>5, <2>6, Zenon
<1> QED
  BY <1>1, <1>8 DEF t

Digit(v) == CHOOSE ch \in DOMAIN DigitValue : DigitValue[ch] = v

LEMMA DigitIs ==
  ASSUME NEW v \in 0 .. 9
  PROVE  Digit(v) \in DOMAIN DigitValue /\ DigitValue[Digit(v)] = v
<1>1. \E ch \in DOMAIN DigitValue : DigitValue[ch] = v
  BY UrlBounds, Zenon
<1> QED
  BY <1>1, Zenon DEF Digit

\* The digits of the numbers up to m.
AreDigits(f, m) ==
  f = [v \in 0 .. m |-> IF v < 10 THEN <<Digit(v)>> ELSE f[v \div 10] \o <<Digit(v % 10)>>]

LEMMA DigitsExist ==
  ASSUME NEW n \in Nat
  PROVE  \E f : AreDigits(f, n)
<1> DEFINE Rule(f, v) == IF v < 10 THEN <<Digit(v)>> ELSE f[v \div 10] \o <<Digit(v % 10)>>
           Has(m) == \E f : AreDigits(f, m)
           Lacking == {m \in 0 .. n : ~Has(m)}
<1>1. Has(0)
  <2> DEFINE f == [v \in 0 .. 0 |-> <<Digit(v)>>]
  <2>1. \A v \in 0 .. 0 : Rule(f, v) = <<Digit(v)>>
    OBVIOUS
  <2>2. f = [v \in 0 .. 0 |-> Rule(f, v)]
    <3> HIDE DEF Rule
    <3> QED
      BY <2>1
  <2> QED
    BY <2>2, Zenon DEF AreDigits
<1>2. ASSUME NEW m \in 1 .. n, Has(m - 1)
      PROVE  Has(m)
  <2>1. PICK f : AreDigits(f, m - 1)
    BY <1>2
  <2>2. f = [v \in 0 .. m - 1 |-> Rule(f, v)]
    BY <2>1, Zenon DEF AreDigits
  <2> DEFINE g == [v \in 0 .. m |-> IF v = m THEN Rule(f, m) ELSE f[v]]
  <2>3. \A v \in 0 .. m : v # m => v \in 0 .. m - 1
    OBVIOUS
  <2>4. \A v \in 0 .. m : g[v] = Rule(f, v)
    <3>1. \A v \in 0 .. m - 1 : f[v] = Rule(f, v)
      <4> HIDE DEF Rule
      <4> QED
        BY <2>2, Zenon
    <3> HIDE DEF Rule
    <3> QED
      BY <2>3, <3>1
  <2>5. \A v \in 0 .. m - 1 : g[v] = f[v]
    <3> HIDE DEF Rule
    <3> QED
      OBVIOUS
  <2>6. ASSUME NEW v \in 0 .. m
        PROVE  Rule(f, v) = Rule(g, v)
    <3>1. CASE v < 10
      BY <3>1, Zenon
    <3>2. CASE ~(v < 10)
      <4>1. v \div 10 \in 0 .. m - 1
        BY <3>2
      <4>2. g[v \div 10] = f[v \div 10]
        BY <2>5, <4>1, Zenon
      <4> HIDE DEF g
      <4> QED
        BY <4>2, Zenon
    <3> QED
      BY <3>1, <3>2
  <2>7. g = [v \in 0 .. m |-> g[v]]
    <3> HIDE DEF Rule
    <3> QED
      OBVIOUS
  <2> HIDE DEF g, Rule
  <2>8. g = [v \in 0 .. m |-> Rule(g, v)]
    BY <2>4, <2>6, <2>7
  <2>9. AreDigits(g, m)
    BY <2>8, Zenon DEF AreDigits, Rule
  <2> QED
    BY <2>9
<1> HIDE DEF Has
<1>3. Lacking = {}
  <2>1. SUFFICES ASSUME Lacking # {} PROVE FALSE
    OBVIOUS
  <2>2. Lacking \in SUBSET Nat
    OBVIOUS
  <2> DEFINE least == Min(Lacking)
  <2>3. least \in Lacking /\ \A k \in Lacking : least <= k
    BY <2>1, <2>2, MinIsLeast, Zenon
  <2> HIDE DEF least
  <2>4. least \in 1 .. n /\ ~Has(least)
    BY <1>1, <2>3
  <2>5. least - 1 \notin Lacking
    BY <2>3, <2>4
  <2>6. Has(least - 1)
    BY <2>4, <2>5
  <2> QED
    BY <1>2, <2>4, <2>6
<1>4. n \in 0 .. n
  OBVIOUS
<1> QED
  BY <1>3, <1>4 DEF Has

\* A port is written in digits, and these are read as the port.
LEMMA DigitsReadBack ==
  ASSUME NEW port \in 0 .. PortMax
  PROVE  /\ DigitsOf(port) \in Seq(DOMAIN DigitValue) /\ DigitsOf(port) \in Chars
         /\ PortOf(DigitsOf(port)) = port
<1> DEFINE Rule(f, v) == IF v < 10 THEN <<Digit(v)>> ELSE f[v \div 10] \o <<Digit(v % 10)>>
           text == CHOOSE f : f = [v \in 0 .. PortMax |-> Rule(f, v)]
           D == DOMAIN DigitValue
           Right(v) == text[v] \in Seq(D) /\ text[v] \in Chars /\ PortOf(text[v]) = v
           Wrong == {v \in 0 .. PortMax : ~Right(v)}
<1>0. PortMax \in Nat
  BY UrlBounds
<1>1. text = [v \in 0 .. PortMax |-> Rule(text, v)]
  <2>1. PICK f : AreDigits(f, PortMax)
    BY <1>0, DigitsExist
  <2>2. f = [v \in 0 .. PortMax |-> Rule(f, v)]
    BY <2>1, Zenon DEF AreDigits
  <2> HIDE DEF Rule
  <2> QED
    BY <2>2, Zenon
<1>2. DigitsOf(port) = text[port]
  BY DEF DigitsOf, Digit
<1> HIDE DEF text
<1>3. \A v \in 0 .. PortMax : text[v] = Rule(text, v)
  <2> HIDE DEF Rule
  <2> QED
    BY <1>1, Zenon
<1>4. \A c \in D : c \in Letters
  <2>1. \A c \in D : c \in STRING
    BY UrlsAssumption, Zenon
  <2> QED
    BY <2>1, Zenon DEF Letters
<1>5. ASSUME NEW s \in Chars, s \in Seq(D), NEW d \in 0 .. 9, PortOf(s) \in 0 .. PortMax
      PROVE  LET t == s \o <<Digit(d)>>
             IN t \in Seq(D) /\ t \in Chars /\ PortOf(t) = PortOf(s) * 10 + d
  <2>1. Digit(d) \in D /\ DigitValue[Digit(d)] = d
    BY DigitIs
  <2>2. Digit(d) \in Letters
    BY <1>4, <2>1, Zenon
  <2> DEFINE c == Digit(d)
  <2> HIDE DEF c, D
  <2>3. s \o <<c>> = Append(s, c) /\ Append(s, c) \in Seq(D)
    BY <1>5, <2>1 DEF c
  <2>4. PortOf(s) <= PortMax
    BY <1>0, <1>5
  <2>5. Append(s, c) \in Chars /\ PortOf(Append(s, c)) = PortOf(s) * 10 + DigitValue[c]
    BY <2>1, <2>2, <2>4, PortOfMore, Zenon DEF c, D
  <2> QED
    BY <2>1, <2>3, <2>5, Zenon DEF c
<1> HIDE DEF D
<1>6. Wrong = {}
  <2>1. SUFFICES ASSUME Wrong # {} PROVE FALSE
    OBVIOUS
  <2>2. Wrong \in SUBSET Nat
    <3> HIDE DEF Right
    <3> QED
      BY <1>0
  <2> DEFINE m == Min(Wrong)
  <2>3. m \in Wrong /\ \A k \in Wrong : m <= k
    <3> HIDE DEF Wrong
    <3> QED
      BY <2>1, <2>2, MinIsLeast, Zenon
  <2> HIDE DEF m
  <2>4. m \in 0 .. PortMax /\ ~Right(m)
    BY <2>3
  <2>5. CASE m < 10
    <3>1. m \in 0 .. 9
      BY <2>4, <2>5
    <3>2. <<>> \in Chars /\ <<>> \in Seq(D) /\ <<>> \o <<Digit(m)>> = <<Digit(m)>>
      BY DEF Chars
    <3>3. 0 \in 0 .. PortMax /\ 0 * 10 + m = m
      BY <1>0, <3>1
    <3>4. text[m] = <<Digit(m)>>
      BY <1>3, <2>4, <2>5, Zenon
    <3>5. PortOf(<<>>) \in 0 .. PortMax
      BY <3>3, PortOfNothing, Zenon
    <3>6. /\ <<>> \o <<Digit(m)>> \in Seq(D) /\ <<>> \o <<Digit(m)>> \in Chars
          /\ PortOf(<<>> \o <<Digit(m)>>) = PortOf(<<>>) * 10 + m
      BY <1>5, <3>1, <3>2, <3>5, Zenon
    <3>7. PortOf(text[m]) = m
      BY <3>2, <3>3, <3>4, <3>6, PortOfNothing, Zenon
    <3> QED
      BY <2>4, <3>2, <3>4, <3>6, <3>7, Zenon
  <2>6. CASE ~(m < 10)
    <3> DEFINE q == m \div 10
               d == m % 10
    <3>1. q \in 0 .. PortMax /\ d \in 0 .. 9 /\ q * 10 + d = m /\ ~(m <= q)
      BY <1>0, <2>4, <2>6
    <3>2. text[m] = text[q] \o <<Digit(d)>>
      BY <1>3, <2>4, <2>6, Zenon
    <3> HIDE DEF q, d, Right
    <3>3. q \notin Wrong
      <4> HIDE DEF Wrong
      <4> QED
        BY <2>3, <3>1
    <3>4. Right(q)
      BY <3>1, <3>3
    <3>5. text[q] \in Seq(D) /\ text[q] \in Chars /\ PortOf(text[q]) = q
      BY <3>4 DEF Right
    <3>6. PortOf(text[q]) \in 0 .. PortMax
      BY <3>1, <3>5, Zenon
    <3>7. /\ text[q] \o <<Digit(d)>> \in Seq(D) /\ text[q] \o <<Digit(d)>> \in Chars
          /\ PortOf(text[q] \o <<Digit(d)>>) = PortOf(text[q]) * 10 + d
      BY <1>5, <3>1, <3>5, <3>6, Zenon
    <3>8. PortOf(text[m]) = m
      BY <3>1, <3>2, <3>5, <3>7, Zenon
    <3> QED
      BY <2>4, <3>2, <3>7, <3>8, Zenon DEF Right
  <2> QED
    BY <2>5, <2>6
<1>7. Right(port)
  <2> HIDE DEF Right
  <2> QED
    BY <1>6
<1> QED
  BY <1>2, <1>7, Zenon DEF D

--------------------------------------------------------------------------------
(* Parts of an address.                                                    *)

Lacks(s, c) == \A i \in 1 .. Len(s) : s[i] # c

LEMMA FirstOfIs ==
  ASSUME NEW s \in Chars, NEW c
  PROVE  /\ FirstOf(s, <<c>>) \in 1 .. Len(s) + 1
         /\ FirstOf(s, <<c>>) <= Len(s) => s[FirstOf(s, <<c>>)] = c
         /\ \A i \in 1 .. Len(s) : i < FirstOf(s, <<c>>) => s[i] # c
<1> DEFINE n == Len(s)
           S == {i \in DOMAIN s : OccursIn(s, <<c>>, i)} \union {Len(s) + 1}
           m == Min(S)
<1>1. n \in Nat /\ DOMAIN s = 1 .. n
  BY TextLength
<1>2. ASSUME NEW i \in 1 .. n
      PROVE  OccursIn(s, <<c>>, i) <=> s[i] = c
  <2>1. Len(<<c>>) = 1 /\ DOMAIN <<c>> = {1} /\ <<c>>[1] = c
    OBVIOUS
  <2>2. i + 1 - 1 <= n /\ i + 1 - 1 = i
    BY <1>1
  <2> QED
    BY <2>1, <2>2, Zenon DEF OccursIn
<1>3. \A i : i \in S <=> (i \in 1 .. n /\ s[i] = c) \/ i = n + 1
  BY <1>1, <1>2, Zenon
<1>4. FirstOf(s, <<c>>) = m
  BY DEF FirstOf
<1> HIDE DEF S
<1>5. S \in SUBSET Nat /\ S # {}
  <2>1. n + 1 \in Nat /\ \A i \in 1 .. n : i \in Nat
    BY <1>1
  <2>2. n + 1 \in S /\ \A i \in S : i \in Nat
    BY <1>3, <2>1, Zenon
  <2> QED
    BY <2>2, Zenon
<1>6. m \in S /\ \A k \in S : m <= k
  BY <1>5, MinIsLeast, Zenon
<1> HIDE DEF m, n
<1>7. m \in 1 .. n + 1 /\ (m <= n => s[m] = c)
  BY <1>1, <1>3, <1>6
<1>8. ASSUME NEW i \in 1 .. n, i < m
      PROVE  s[i] # c
  <2>1. ~(m <= i)
    BY <1>7, <1>8, <1>1
  <2> QED
    BY <1>3, <1>6, <2>1, Zenon
<1> QED
  BY <1>4, <1>7, <1>8, Zenon DEF n

\* Where c begins the second of two texts, and the first has none.
LEMMA FirstOfTwo ==
  ASSUME NEW a \in Chars, NEW b \in Chars, NEW c, Lacks(a, c), b = <<>> \/ b[1] = c
  PROVE  /\ FirstOf(a \o b, <<c>>) = Len(a) + 1
         /\ UpTo(a \o b, FirstOf(a \o b, <<c>>)) = a
         /\ From(a \o b, FirstOf(a \o b, <<c>>)) = b
<1> DEFINE s == a \o b
           m == FirstOf(s, <<c>>)
<1>1. /\ Len(a) \in Nat /\ Len(b) \in Nat /\ s \in Chars /\ Len(s) = Len(a) + Len(b)
      /\ \A i \in 1 .. Len(a) : s[i] = a[i]
      /\ b # <<>> => Len(b) >= 1 /\ s[Len(a) + 1] = b[1]
      /\ Len(<<>>) = 0
  BY DEF Chars
<1>2. /\ m \in 1 .. Len(s) + 1
      /\ m <= Len(s) => s[m] = c
      /\ \A i \in 1 .. Len(s) : i < m => s[i] # c
  BY <1>1, FirstOfIs, Zenon
<1>3. SubSeq(s, 1, Len(a)) = a
  BY DEF Chars
<1>4. SubSeq(s, Len(a) + 1, Len(s)) = b
  BY TailOfTwo
<1> HIDE DEF s, m
<1>5. ~(m <= Len(a))
  BY <1>1, <1>2 DEF Lacks
<1>6. m = Len(a) + 1
  <2>1. CASE b = <<>>
    BY <1>1, <1>2, <1>5, <2>1
  <2>2. CASE b # <<>>
    <3>1. b[1] = c
      BY <2>2, Zenon
    <3>2. Len(a) + 1 \in 1 .. Len(s) /\ s[Len(a) + 1] = c
      BY <1>1, <2>2, <3>1
    <3>3. ~(Len(a) + 1 < m)
      BY <1>2, <3>2, Zenon
    <3> QED
      BY <1>1, <1>2, <1>5, <3>3
  <2> QED
    BY <2>1, <2>2
<1>7. m - 1 = Len(a)
  BY <1>1, <1>6
<1>8. UpTo(s, m) = a
  BY <1>3, <1>7, Zenon DEF UpTo
<1>9. From(s, m) = b
  BY <1>4, <1>6, Zenon DEF From
<1> QED
  BY <1>6, <1>8, <1>9, Zenon DEF s, m

\* The parts of a text before and behind the first c.
LEMMA PartsOfFirst ==
  ASSUME NEW s \in Chars, NEW c
  PROVE  /\ UpTo(s, FirstOf(s, <<c>>)) \in Chars /\ Lacks(UpTo(s, FirstOf(s, <<c>>)), c)
         /\ \A d : Lacks(s, d) => Lacks(UpTo(s, FirstOf(s, <<c>>)), d)
         /\ From(s, FirstOf(s, <<c>>)) \in Chars
         /\ FirstOf(s, <<c>>) <= Len(s) =>
              /\ From(s, FirstOf(s, <<c>>)) # <<>> /\ From(s, FirstOf(s, <<c>>))[1] = c
              /\ From(s, FirstOf(s, <<c>>) + 1) \in Chars
<1> DEFINE m == FirstOf(s, <<c>>)
           n == Len(s)
<1>1. n \in Nat /\ s \in Seq(Letters)
  BY TextLength DEF Chars
<1>2. /\ m \in 1 .. n + 1
      /\ m <= n => s[m] = c
      /\ \A i \in 1 .. n : i < m => s[i] # c
  BY FirstOfIs
<1> DEFINE a == SubSeq(s, 1, m - 1)
           b == SubSeq(s, m, n)
           t == SubSeq(s, m + 1, n)
<1> HIDE DEF m
<1>3. a \in Seq(Letters) /\ Len(a) = m - 1 /\ \A i \in 1 .. m - 1 : a[i] = s[i]
  BY <1>1, <1>2
<1>4. b \in Seq(Letters) /\ (m <= n => Len(b) >= 1 /\ b[1] = s[m] /\ t \in Seq(Letters))
  BY <1>1, <1>2
<1>5. \A i \in 1 .. m - 1 : i \in 1 .. n /\ i < m
  BY <1>1, <1>2
<1>6. Len(<<>>) = 0 /\ ~(0 >= 1)
  OBVIOUS
<1>7. Lacks(a, c)
  BY <1>2, <1>3, <1>5, Zenon DEF Lacks
<1>8. \A d : Lacks(s, d) => Lacks(a, d)
  BY <1>3, <1>5, Zenon DEF Lacks
<1>9. m <= n => b # <<>> /\ b[1] = c
  BY <1>2, <1>4, <1>6, Zenon
<1> QED
  BY <1>3, <1>4, <1>7, <1>8, <1>9, Zenon DEF From, UpTo, Chars, m

Blank(x) == x = " "

LEMMA SomeAreNotBlank == ~Blank("/") /\ ~Blank("spartan")
BY DEF Blank

\* Places of a text that are not blank.
Inked(s) == {i \in DOMAIN s : ~Blank(s[i])}

LEMMA InkedIs ==
  ASSUME NEW s \in Chars
  PROVE  /\ Len(s) \in Nat /\ \A i : i \in Inked(s) <=> i \in 1 .. Len(s) /\ ~Blank(s[i])
         /\ RightTrimmed(s) = SubSeq(s, 1, Max(Inked(s) \union {0}))
         /\ LeftTrimmed(s) = From(s, Min(Inked(s) \union {Len(s) + 1}))
<1>1. Len(s) \in Nat /\ DOMAIN s = 1 .. Len(s)
  BY TextLength
<1>2. {i \in DOMAIN s : s[i] # " "} = Inked(s)
  BY Zenon DEF Inked, Blank
<1> QED
  BY <1>1, <1>2, Zenon DEF Inked, RightTrimmed, LeftTrimmed

LEMMA RightTrimmedIs ==
  ASSUME NEW s \in Chars
  PROVE  /\ RightTrimmed(s) \in Chars
         /\ RightTrimmed(RightTrimmed(s)) = RightTrimmed(s)
         /\ s # <<>> /\ s[1] = "/" => RightTrimmed(s) # <<>> /\ RightTrimmed(s)[1] = "/"
<1> DEFINE n == Len(s)
           S == Inked(s) \union {0}
           m == Max(S)
           r == SubSeq(s, 1, m)
<1>1. n \in Nat /\ \A i : i \in S <=> (i \in 1 .. n /\ ~Blank(s[i])) \/ i = 0
  BY InkedIs, Zenon
<1>2. RightTrimmed(s) = r
  BY InkedIs
<1> HIDE DEF S, n
<1>3. S \in SUBSET (0 .. n) /\ S # {} /\ 0 \in Int /\ n \in Int
  BY <1>1
<1>4. m \in S /\ \A k \in S : k <= m
  BY <1>3, MaxIsGreatest, Zenon
<1>5. m \in 0 .. n
  BY <1>3, <1>4, Zenon
<1>6. s \in Seq(Letters) /\ Len(s) = n /\ (s # <<>> => 1 \in 1 .. n)
  BY DEF Chars, n
<1>7. r \in Chars /\ Len(r) = m /\ \A i \in 1 .. m : r[i] = s[i]
  <2> HIDE DEF m
  <2> QED
    BY <1>1, <1>5, <1>6 DEF Chars
<1> HIDE DEF m
<1>8. SubSeq(r, 1, m) = r
  <2> HIDE DEF r
  <2> QED
    BY <1>7 DEF Chars
<1>9. Inked(r) \union {0} = S
  <2>1. \A i : i \in Inked(r) <=> i \in 1 .. m /\ ~Blank(r[i])
    BY <1>7, InkedIs, Zenon
  <2>2. ASSUME NEW i \in S
        PROVE  i \in Inked(r) \union {0}
    <3>1. CASE i = 0
      BY <3>1
    <3>2. CASE i # 0
      <4>1. i \in 1 .. n /\ ~Blank(s[i]) /\ i <= m
        BY <1>1, <1>4, <3>2, Zenon
      <4>2. i \in 1 .. m
        BY <1>5, <4>1
      <4>3. r[i] = s[i]
        BY <1>7, <4>2, Zenon
      <4> QED
        BY <2>1, <4>1, <4>2, <4>3, Zenon
    <3> QED
      BY <3>1, <3>2
  <2>3. ASSUME NEW i \in Inked(r) \union {0}
        PROVE  i \in S
    <3>1. CASE i = 0
      BY <1>1, <3>1
    <3>2. CASE i # 0
      <4>1. i \in 1 .. m /\ ~Blank(r[i])
        BY <2>1, <3>2, Zenon
      <4>2. i \in 1 .. n
        BY <1>5, <1>1, <4>1
      <4>3. r[i] = s[i]
        BY <1>7, <4>1, Zenon
      <4> QED
        BY <1>1, <4>1, <4>2, <4>3, Zenon
    <3> QED
      BY <3>1, <3>2
  <2> QED
    BY <2>2, <2>3, Zenon
<1>10. RightTrimmed(r) = r
  BY <1>7, <1>8, <1>9, InkedIs, Zenon DEF m
<1>11. ASSUME s # <<>>, s[1] = "/"
       PROVE  r # <<>> /\ r[1] = "/"
  <2>1. 1 \in 1 .. n /\ ~Blank(s[1])
    BY <1>6, <1>11, SomeAreNotBlank, Zenon
  <2>2. 1 <= m
    BY <1>1, <1>4, <2>1, Zenon
  <2>3. 1 \in 1 .. m
    BY <1>5, <1>1, <2>2
  <2>4. Len(<<>>) = 0 /\ m # 0
    BY <2>2
  <2> QED
    BY <1>7, <1>11, <2>3, <2>4, Zenon
<1> QED
  BY <1>2, <1>7, <1>10, <1>11, Zenon

LEMMA LeftTrimmedIs ==
  ASSUME NEW s \in Chars
  PROVE  /\ LeftTrimmed(s) \in Chars
         /\ s # <<>> /\ ~Blank(s[1]) => LeftTrimmed(s) = s
<1> DEFINE n == Len(s)
           S == Inked(s) \union {n + 1}
           m == Min(S)
           r == SubSeq(s, m, n)
<1>1. n \in Nat /\ \A i : i \in S <=> (i \in 1 .. n /\ ~Blank(s[i])) \/ i = n + 1
  BY InkedIs, Zenon
<1>2. LeftTrimmed(s) = r
  BY InkedIs, Zenon DEF From
<1>6. s \in Seq(Letters) /\ Len(s) = n /\ (s # <<>> => 1 \in 1 .. n) /\ SubSeq(s, 1, n) = s
  BY DEF Chars
<1> HIDE DEF S, n
<1>3. S \in SUBSET Nat /\ S # {}
  BY <1>1
<1>4. m \in S /\ \A k \in S : m <= k
  BY <1>3, MinIsLeast, Zenon
<1> HIDE DEF m
<1>5. m \in 1 .. n + 1
  BY <1>1, <1>4
<1>7. r \in Chars
  BY <1>1, <1>5, <1>6 DEF Chars
<1>8. ASSUME s # <<>>, ~Blank(s[1])
      PROVE  r = s
  <2>1. m <= 1
    BY <1>1, <1>4, <1>6, <1>8, Zenon
  <2>2. m = 1
    BY <1>5, <2>1, <1>1
  <2> QED
    BY <1>6, <2>2, Zenon
<1> QED
  BY <1>2, <1>7, <1>8, Zenon

--------------------------------------------------------------------------------
(* Addresses.                                                              *)

Unspaced(host) == " " \notin {host[i] : i \in DOMAIN host}
HostFits(host) == host # <<>> /\ ~(Len(host) >= HostMax) /\ Unspaced(host)
PortFits(port) == port # 0 /\ ~(port > PortMax)
PathFits(path) == ~(Len(path) >= PathMax)

\* What ParseUrl takes out of an address without its scheme.
AuthorityOf(p) == UpTo(p, FirstOf(p, <<"/">>))
HostOf(a) == UpTo(a, FirstOf(a, <<":">>))
PortIn(a) ==
  IF FirstOf(a, <<":">>) > Len(a) THEN DefaultPort ELSE PortOf(From(a, FirstOf(a, <<":">>) + 1))
PathIn(p) == IF FirstOf(p, <<"/">>) > Len(p) THEN <<"/">> ELSE RightTrimmed(From(p, FirstOf(p, <<"/">>)))

UrlOf(p) ==
  [ok |-> TRUE, host |-> HostOf(AuthorityOf(p)), port |-> PortIn(AuthorityOf(p)), path |-> PathIn(p)]

UrlFits(p) == HostFits(HostOf(AuthorityOf(p))) /\ PortFits(PortIn(AuthorityOf(p))) /\ PathFits(PathIn(p))

Schemeless(t) == IF OccursIn(t, Scheme, 1) THEN From(t, Len(Scheme) + 1) ELSE t
Mistaken(t) == ~OccursIn(t, Scheme, 1) /\ FirstOf(t, Colons) < FirstOf(t, <<"/">>)

LEMMA ParsedIs ==
  ASSUME NEW text
  PROVE  ParseUrl(text) =
           IF Mistaken(LeftTrimmed(text)) \/ ~UrlFits(Schemeless(LeftTrimmed(text))) THEN NoUrl
           ELSE UrlOf(Schemeless(LeftTrimmed(text)))
<1> DEFINE t == LeftTrimmed(text)
           p == Schemeless(t)
           host == HostOf(AuthorityOf(p))
           port == PortIn(AuthorityOf(p))
           path == PathIn(p)
           bad == \/ ~OccursIn(t, Scheme, 1) /\ FirstOf(t, Colons) < FirstOf(t, <<"/">>)
                  \/ host = <<>> \/ Len(host) >= HostMax \/ " " \in {host[i] : i \in DOMAIN host}
                  \/ port = 0 \/ port > PortMax
                  \/ Len(path) >= PathMax
<1>1. ParseUrl(text) =
        IF bad THEN NoUrl ELSE [ok |-> TRUE, host |-> host, port |-> port, path |-> path]
  BY Zenon DEF ParseUrl, HostOf, AuthorityOf, PortIn, PathIn, Schemeless
<1>2. [ok |-> TRUE, host |-> host, port |-> port, path |-> path] = UrlOf(p)
  BY DEF UrlOf
<1>3. bad <=> Mistaken(t) \/ ~UrlFits(p)
  BY Zenon DEF Mistaken, UrlFits, HostFits, PortFits, PathFits, Unspaced
<1> HIDE DEF bad, host, port, path, p, t
<1>4. ParseUrl(text) = IF Mistaken(t) \/ ~UrlFits(p) THEN NoUrl ELSE UrlOf(p)
  BY <1>1, <1>2, <1>3, Zenon
<1> QED
  BY <1>4 DEF p, t

\* An address that was parsed.
IsUrl(u) ==
  /\ u = [ok |-> TRUE, host |-> u.host, port |-> u.port, path |-> u.path]
  /\ u.host \in Chars /\ HostFits(u.host) /\ Lacks(u.host, "/") /\ Lacks(u.host, ":")
  /\ u.port \in 1 .. PortMax
  /\ u.path \in Chars /\ PathFits(u.path) /\ u.path # <<>> /\ u.path[1] = "/"
  /\ RightTrimmed(u.path) = u.path

LEMMA SchemeIs ==
  /\ Scheme \in Chars /\ Len(Scheme) = 4 /\ Scheme[1] = "spartan"
  /\ <<"/">> \in Chars /\ <<":">> \in Chars /\ Len(<<":">>) = 1
  /\ <<"/">> # <<>> /\ <<"/">>[1] = "/" /\ <<":">> # <<>> /\ <<":">>[1] = ":"
<1>1. "spartan" \in Letters /\ ":" \in Letters /\ "/" \in Letters
  BY Zenon DEF Letters
<1> QED
  BY <1>1 DEF Scheme, Colons, Chars

LEMMA ParsedIsUrl ==
  ASSUME NEW text \in Chars, ParseUrl(text).ok
  PROVE  IsUrl(ParseUrl(text))
<1> DEFINE t == LeftTrimmed(text)
           p == Schemeless(t)
           a == AuthorityOf(p)
<1>1. ~NoUrl.ok
  BY DEF NoUrl
<1>2. ParseUrl(text) = UrlOf(p) /\ UrlFits(p)
  BY <1>1, ParsedIs, Zenon
<1>3. t \in Chars
  BY LeftTrimmedIs
<1> HIDE DEF t
<1>4. p \in Chars
  <2>1. OccursIn(t, Scheme, 1) => Len(Scheme) \in 0 .. Len(t) /\ Len(t) \in 0 .. Len(t)
    <3>1. Len(t) \in Nat /\ Len(Scheme) = 4
      BY <1>3, SchemeIs, TextLength
    <3>2. OccursIn(t, Scheme, 1) => 1 + Len(Scheme) - 1 <= Len(t)
      BY Zenon DEF OccursIn
    <3> QED
      BY <3>1, <3>2
  <2>2. OccursIn(t, Scheme, 1) => From(t, Len(Scheme) + 1) \in Chars
    BY <1>3, <2>1, PartIsText, Zenon DEF From
  <2> QED
    BY <1>3, <2>2, Zenon DEF Schemeless
<1> HIDE DEF p
<1>5. a \in Chars /\ Lacks(a, "/")
  BY <1>4, PartsOfFirst, Zenon DEF AuthorityOf
<1> HIDE DEF a
<1>6. HostOf(a) \in Chars /\ Lacks(HostOf(a), ":") /\ Lacks(HostOf(a), "/")
  BY <1>5, PartsOfFirst, Zenon DEF HostOf
<1>7. PortIn(a) \in Nat
  <2>1. FirstOf(a, <<":">>) \in 1 .. Len(a) + 1 /\ Len(a) \in Nat
    BY <1>5, FirstOfIs, TextLength, Zenon
  <2>2. ~(FirstOf(a, <<":">>) > Len(a)) => FirstOf(a, <<":">>) <= Len(a)
    BY <2>1
  <2>3. ~(FirstOf(a, <<":">>) > Len(a)) => PortOf(From(a, FirstOf(a, <<":">>) + 1)) \in Nat
    BY <1>5, <2>2, PartsOfFirst, PortIsNumber, Zenon
  <2>4. DefaultPort \in Nat
    BY UrlBounds
  <2> QED
    BY <2>3, <2>4, Zenon DEF PortIn
<1>8. PathIn(p) \in Chars /\ PathIn(p) # <<>> /\ PathIn(p)[1] = "/" /\ RightTrimmed(PathIn(p)) = PathIn(p)
  <2>1. FirstOf(p, <<"/">>) \in 1 .. Len(p) + 1 /\ Len(p) \in Nat
    BY <1>4, FirstOfIs, TextLength, Zenon
  <2>2. ~(FirstOf(p, <<"/">>) > Len(p)) => FirstOf(p, <<"/">>) <= Len(p)
    BY <2>1
  <2>3. CASE FirstOf(p, <<"/">>) > Len(p)
    <3>1. PathIn(p) = <<"/">>
      BY <2>3, Zenon DEF PathIn
    <3>2. RightTrimmed(<<"/">>) = <<"/">>
      <4>1. RightTrimmed(<<"/">>) = SubSeq(<<"/">>, 1, Max(Inked(<<"/">>) \union {0}))
        BY SchemeIs, InkedIs, Zenon
      <4>2. DOMAIN <<"/">> = {1} /\ <<"/">>[1] = "/"
        OBVIOUS
      <4>3. Inked(<<"/">>) = {1}
        BY <4>2, SomeAreNotBlank, Zenon DEF Inked
      <4>4. {1} \union {0} \in SUBSET (0 .. 1) /\ {1} \union {0} # {} /\ 0 \in Int /\ 1 \in Int
        OBVIOUS
      <4> DEFINE S == {1} \union {0}
                 m == Max(S)
      <4>5. m \in S /\ \A k \in S : k <= m
        BY <4>4, MaxIsGreatest, Zenon
      <4> HIDE DEF m
      <4>6. m = 1
        BY <4>5
      <4>7. SubSeq(<<"/">>, 1, 1) = <<"/">>
        <5> DEFINE one == <<"/">>
        <5>1. one \in Chars /\ Len(one) = 1
          BY SchemeIs
        <5> HIDE DEF one
        <5>2. SubSeq(one, 1, 1) = one
          BY <5>1 DEF Chars
        <5> QED
          BY <5>2 DEF one
      <4> QED
        BY <4>1, <4>3, <4>6, <4>7, Zenon DEF m
    <3> QED
      BY <3>1, <3>2, SchemeIs, Zenon
  <2>4. CASE ~(FirstOf(p, <<"/">>) > Len(p))
    <3> DEFINE r == From(p, FirstOf(p, <<"/">>))
    <3>1. r \in Chars /\ r # <<>> /\ r[1] = "/"
      BY <1>4, <2>2, <2>4, PartsOfFirst, Zenon
    <3>2. PathIn(p) = RightTrimmed(r)
      BY <2>4, Zenon DEF PathIn
    <3> HIDE DEF r
    <3> QED
      BY <3>1, <3>2, RightTrimmedIs, Zenon
  <2> QED
    BY <2>3, <2>4
<1>9. HostFits(HostOf(a)) /\ PortFits(PortIn(a)) /\ PathFits(PathIn(p))
  BY <1>2, Zenon DEF UrlFits, a
<1>10. PortIn(a) \in 1 .. PortMax
  <2>1. PortMax \in Nat /\ PortIn(a) # 0 /\ ~(PortIn(a) > PortMax)
    BY <1>9, UrlBounds DEF PortFits
  <2> QED
    BY <1>7, <2>1
<1>11. UrlOf(p) = [ok |-> TRUE, host |-> HostOf(a), port |-> PortIn(a), path |-> PathIn(p)]
  BY DEF UrlOf, a
<1> DEFINE u == UrlOf(p)
<1>12. u.host = HostOf(a) /\ u.port = PortIn(a) /\ u.path = PathIn(p)
  BY <1>11
<1> HIDE DEF u
<1>13. IsUrl(u)
  BY <1>6, <1>8, <1>9, <1>10, <1>11, <1>12, Zenon DEF IsUrl, u
<1> QED
  BY <1>2, <1>13, Zenon DEF u

LEMMA JoinIs ==
  ASSUME NEW a \in Chars, NEW b \in Chars
  PROVE  /\ a \o b \in Chars /\ Len(a \o b) = Len(a) + Len(b) /\ Len(a) \in Nat /\ Len(b) \in Nat
         /\ \A i \in 1 .. Len(a) : (a \o b)[i] = a[i]
         /\ \A i \in Len(a) + 1 .. Len(a) + Len(b) : (a \o b)[i] = b[i - Len(a)]
BY DEF Chars

\* What stands between host and path.
PortText(port) == IF port = DefaultPort THEN <<>> ELSE <<":">> \o DigitsOf(port)

LEMMA PortTextIs ==
  ASSUME NEW port \in 1 .. PortMax
  PROVE  /\ PortText(port) \in Chars /\ Lacks(PortText(port), "/")
         /\ port = DefaultPort => PortText(port) = <<>>
         /\ port # DefaultPort => PortText(port) # <<>> /\ PortText(port)[1] = ":"
         /\ port # DefaultPort =>
              \E digits \in Chars : PortText(port) = <<":">> \o digits /\ PortOf(digits) = port
<1> DEFINE d == DigitsOf(port)
           D == DOMAIN DigitValue
<1>1. port \in 0 .. PortMax
  BY UrlBounds
<1>2. d \in Seq(D) /\ d \in Chars /\ PortOf(d) = port
  BY <1>1, DigitsReadBack, Zenon
<1>3. \A c \in D : c # "/"
  BY UrlsAssumption, Zenon
<1>4. ":" # "/" /\ Lacks(<<>>, "/") /\ <<>> \in Chars
  BY DEF Lacks, Chars
<1> HIDE DEF d, D
<1>5. \A i \in 1 .. Len(d) : d[i] \in D
  BY <1>2
<1> DEFINE one == <<":">>
           t == one \o d
<1>6. one \in Chars /\ Len(one) = 1 /\ one[1] = ":"
  BY SchemeIs
<1> HIDE DEF one
<1>7. /\ t \in Chars /\ Len(t) = Len(d) + 1 /\ Len(d) \in Nat
      /\ t[1] = ":" /\ \A i \in 2 .. Len(d) + 1 : t[i] = d[i - 1] /\ i - 1 \in 1 .. Len(d)
  <2>1. /\ t \in Chars /\ Len(t) = Len(one) + Len(d) /\ Len(d) \in Nat
        /\ \A i \in 1 .. Len(one) : t[i] = one[i]
        /\ \A i \in Len(one) + 1 .. Len(one) + Len(d) : t[i] = d[i - Len(one)]
    BY <1>2, <1>6, JoinIs, Zenon
  <2> HIDE DEF t
  <2> QED
    BY <1>6, <2>1
<1>8. Lacks(t, "/")
  <2>1. ASSUME NEW i \in 1 .. Len(t)
        PROVE  t[i] # "/"
    <3>1. CASE i = 1
      BY <1>4, <1>7, <3>1, Zenon
    <3>2. CASE i # 1
      <4>1. i \in 2 .. Len(d) + 1
        BY <1>7, <3>2
      <4>2. t[i] \in D
        BY <1>5, <1>7, <4>1, Zenon
      <4> QED
        BY <1>3, <4>2, Zenon
    <3> QED
      BY <3>1, <3>2
  <2> QED
    BY <2>1, Zenon DEF Lacks
<1>9. t # <<>>
  <2>1. Len(t) # 0 /\ Len(<<>>) = 0
    BY <1>7
  <2> QED
    BY <2>1, Zenon
<1> QED
  BY <1>2, <1>4, <1>7, <1>8, <1>9, Zenon DEF PortText, one, d

\* An address without its scheme is taken apart as it was put together.
LEMMA PartsReadBack ==
  ASSUME NEW u, IsUrl(u)
  PROVE  LET p == (u.host \o PortText(u.port)) \o u.path
         IN p \in Chars /\ UrlFits(p) /\ UrlOf(p) = u
<1> DEFINE mid == PortText(u.port)
           a == u.host \o mid
           p == a \o u.path
<1>1. /\ u.host \in Chars /\ HostFits(u.host) /\ Lacks(u.host, "/") /\ Lacks(u.host, ":")
      /\ u.path \in Chars /\ PathFits(u.path) /\ u.path # <<>> /\ u.path[1] = "/"
      /\ RightTrimmed(u.path) = u.path
      /\ u.port \in 1 .. PortMax
      /\ u = [ok |-> TRUE, host |-> u.host, port |-> u.port, path |-> u.path]
  BY Zenon DEF IsUrl
<1>2. /\ mid \in Chars /\ Lacks(mid, "/")
      /\ u.port = DefaultPort => mid = <<>>
      /\ u.port # DefaultPort => mid # <<>> /\ mid[1] = ":"
      /\ u.port # DefaultPort =>
           \E digits \in Chars : mid = <<":">> \o digits /\ PortOf(digits) = u.port
  BY <1>1, PortTextIs, Zenon
<1> HIDE DEF mid
<1>3. a \in Chars /\ p \in Chars
  BY <1>1, <1>2, ThreeTexts, Zenon
<1>4. Lacks(a, "/")
  <2> DEFINE h == u.host
  <2>1. h \in Chars /\ Lacks(h, "/")
    BY <1>1
  <2> HIDE DEF h
  <2> QED
    <3>1. /\ Len(h) \in Nat /\ Len(mid) \in Nat /\ Len(h \o mid) = Len(h) + Len(mid)
          /\ \A i \in 1 .. Len(h) : (h \o mid)[i] = h[i]
          /\ \A i \in Len(h) + 1 .. Len(h) + Len(mid) : (h \o mid)[i] = mid[i - Len(h)]
      BY <1>2, <2>1, JoinIs, Zenon
    <3> DEFINE s == h \o mid
    <3> HIDE DEF s
    <3>2. ASSUME NEW i \in 1 .. Len(s)
          PROVE  s[i] # "/"
      <4>1. CASE i <= Len(h)
        <5>1. i \in 1 .. Len(h)
          BY <3>1, <4>1 DEF s
        <5> QED
          BY <2>1, <3>1, <5>1, Zenon DEF Lacks, s
      <4>2. CASE ~(i <= Len(h))
        <5>1. i \in Len(h) + 1 .. Len(h) + Len(mid) /\ i - Len(h) \in 1 .. Len(mid)
          BY <3>1, <4>2 DEF s
        <5> QED
          BY <1>2, <3>1, <5>1, Zenon DEF Lacks, s
      <4> QED
        BY <4>1, <4>2
    <3> QED
      BY <3>2, Zenon DEF Lacks, s, h
<1>5. /\ FirstOf(p, <<"/">>) = Len(a) + 1
      /\ UpTo(p, FirstOf(p, <<"/">>)) = a
      /\ From(p, FirstOf(p, <<"/">>)) = u.path
  <2>1. u.path = <<>> \/ u.path[1] = "/"
    BY <1>1, Zenon
  <2> DEFINE q == u.path
  <2>2. q \in Chars /\ (q = <<>> \/ q[1] = "/")
    BY <1>1, <2>1, Zenon
  <2> HIDE DEF q, a
  <2>3. /\ FirstOf(a \o q, <<"/">>) = Len(a) + 1
        /\ UpTo(a \o q, FirstOf(a \o q, <<"/">>)) = a
        /\ From(a \o q, FirstOf(a \o q, <<"/">>)) = q
    BY <1>3, <1>4, <2>2, FirstOfTwo, Zenon
  <2> QED
    BY <2>3 DEF q
<1>6. AuthorityOf(p) = a
  BY <1>5, Zenon DEF AuthorityOf
<1>7. ~(FirstOf(p, <<"/">>) > Len(p))
  <2> DEFINE q == u.path
  <2>1. q \in Chars /\ q # <<>>
    BY <1>1
  <2> HIDE DEF q, a
  <2>2. Len(q) >= 1 /\ Len(a) \in Nat /\ Len(q) \in Nat /\ Len(a \o q) = Len(a) + Len(q)
    BY <1>3, <2>1 DEF Chars
  <2>3. ~(Len(a) + 1 > Len(a \o q))
    BY <2>2
  <2> QED
    BY <1>5, <2>3, Zenon DEF q
<1>8. PathIn(p) = u.path
  BY <1>1, <1>5, <1>7, Zenon DEF PathIn
<1>9. mid = <<>> \/ mid[1] = ":"
  BY <1>2, Zenon
<1>10. /\ FirstOf(a, <<":">>) = Len(u.host) + 1
       /\ UpTo(a, FirstOf(a, <<":">>)) = u.host
       /\ From(a, FirstOf(a, <<":">>)) = mid
  BY <1>1, <1>2, <1>9, FirstOfTwo, Zenon
<1>11. HostOf(a) = u.host
  BY <1>10, Zenon DEF HostOf
<1>12. PortIn(a) = u.port
  <2>1. CASE u.port = DefaultPort
    <3>1. a = u.host
      BY <1>1, <1>2, <2>1, ThreeTexts, Zenon
    <3>2. Len(u.host) \in Nat
      BY <1>1, TextLength
    <3>3. Len(u.host) + 1 > Len(u.host)
      BY <3>2
    <3>4. FirstOf(a, <<":">>) > Len(a)
      BY <1>10, <3>1, <3>3, Zenon
    <3> QED
      BY <2>1, <3>4, Zenon DEF PortIn
  <2>2. CASE u.port # DefaultPort
    <3>1. PICK digits \in Chars : mid = <<":">> \o digits /\ PortOf(digits) = u.port
      BY <1>2, <2>2, Zenon
    <3> DEFINE h == u.host
               one == <<":">>
    <3>2. h \in Chars /\ one \in Chars /\ Len(one) = 1
      BY <1>1, SchemeIs
    <3>3. (h \o one) \o digits = a
      BY <3>1, <3>2, ConcatText, Zenon
    <3> HIDE DEF h, one, a
    <3>4. /\ Len(h) \in Nat /\ Len(digits) \in Nat /\ Len(h \o one) = Len(h) + 1 /\ h \o one \in Chars
          /\ Len((h \o one) \o digits) = Len(h) + 1 + Len(digits)
      <4> HIDE DEF Chars
      <4>1. Len(h) \in Nat /\ Len(h \o one) = Len(h) + 1 /\ h \o one \in Chars
        <5>1. Len(h) \in Nat /\ Len(h \o one) = Len(h) + Len(one) /\ h \o one \in Chars
          BY <3>2, JoinIs, Zenon
        <5> QED
          BY <3>2, <5>1, Zenon
      <4> DEFINE x == h \o one
      <4>2. x \in Chars /\ Len(x) = Len(h) + 1
        BY <4>1
      <4> HIDE DEF x
      <4>3. Len(digits) \in Nat /\ Len(x \o digits) = Len(x) + Len(digits)
        BY <4>2, JoinIs
      <4> QED
        BY <4>1, <4>2, <4>3 DEF x
    <3>5. SubSeq((h \o one) \o digits, Len(h \o one) + 1, Len((h \o one) \o digits)) = digits
      BY <3>1, <3>4, TailOfTwo, Zenon
    <3>6. CASE digits = <<>>
      <4>1. PortOf(digits) = 0
        BY <3>6, PortOfNothing, Zenon
      <4> QED
        BY <1>1, <3>1, <4>1
    <3>7. CASE digits # <<>>
      <4>1. From(a, FirstOf(a, <<":">>) + 1) = digits
        BY <1>10, <3>3, <3>4, <3>5, Zenon DEF From, h
      <4>2. ~(Len(h) + 1 > Len((h \o one) \o digits))
        BY <3>4
      <4>3. ~(FirstOf(a, <<":">>) > Len(a))
        BY <1>10, <3>3, <4>2, Zenon DEF h
      <4> QED
        BY <3>1, <4>1, <4>3, Zenon DEF PortIn
    <3> QED
      BY <3>6, <3>7
  <2> QED
    BY <2>1, <2>2
<1>13. PortFits(u.port)
  BY <1>1, UrlBounds DEF PortFits
<1>14. UrlFits(p)
  BY <1>1, <1>6, <1>8, <1>11, <1>12, <1>13, Zenon DEF UrlFits
<1>15. UrlOf(p) = u
  <2>1. UrlOf(p) = [ok |-> TRUE, host |-> u.host, port |-> u.port, path |-> u.path]
    BY <1>6, <1>8, <1>11, <1>12, Zenon DEF UrlOf
  <2> QED
    BY <1>1, <2>1, Zenon
<1> QED
  BY <1>3, <1>14, <1>15, Zenon DEF mid

\* An address that was formatted is parsed to what it was.
LEMMA FormattedReadsBack ==
  ASSUME NEW text \in Chars
  PROVE  FormattedIsReadBack(text)
<1> DEFINE u == ParseUrl(text)
<1>1. SUFFICES ASSUME u.ok PROVE ParseUrl(FormatUrl(u)) = u
  BY DEF FormattedIsReadBack
<1>2. IsUrl(u)
  BY <1>1, ParsedIsUrl
<1> HIDE DEF u
<1> DEFINE mid == PortText(u.port)
           p == (u.host \o mid) \o u.path
           v == FormatUrl(u)
<1>3. p \in Chars /\ UrlFits(p) /\ UrlOf(p) = u
  BY <1>2, PartsReadBack
<1>4. /\ u.host \in Chars /\ u.path \in Chars /\ mid \in Chars
  BY <1>2, PortTextIs, Zenon DEF IsUrl
<1>5. v = ((Scheme \o u.host) \o mid) \o u.path
  BY DEF FormatUrl, PortText
<1>6. v = Scheme \o p
  <2>1. u.host \o mid \in Chars /\ Scheme \in Chars
    BY <1>4, ThreeTexts, SchemeIs, Zenon
  <2>2. (Scheme \o u.host) \o mid = Scheme \o (u.host \o mid)
    <3> DEFINE host == u.host
    <3>1. host \in Chars /\ mid \in Chars /\ Scheme \in Chars
      BY <1>4, <2>1, Zenon
    <3> HIDE DEF host, mid
    <3>2. (Scheme \o host) \o mid = Scheme \o (host \o mid)
      BY <3>1, ConcatText, Zenon
    <3> QED
      BY <3>2, Zenon DEF host
  <2>3. (Scheme \o (u.host \o mid)) \o u.path = Scheme \o p
    <3> DEFINE head == u.host \o mid
               path == u.path
    <3>1. head \in Chars /\ path \in Chars /\ Scheme \in Chars
      BY <1>4, <2>1, Zenon
    <3> HIDE DEF head, path
    <3>2. (Scheme \o head) \o path = Scheme \o (head \o path)
      BY <3>1, ConcatText, Zenon
    <3> QED
      BY <3>2, Zenon DEF head, path
  <2> QED
    BY <1>5, <2>2, <2>3, Zenon
<1> HIDE DEF p, v
<1> DEFINE s == Scheme
<1>7. s \in Chars /\ Len(s) = 4 /\ s[1] = "spartan"
  BY SchemeIs
<1> HIDE DEF s
<1>8. /\ s \o p \in Chars /\ Len(p) \in Nat /\ Len(s \o p) = 4 + Len(p)
      /\ \A i \in 1 .. 4 : (s \o p)[i] = s[i]
  <2>1. /\ s \o p \in Chars /\ Len(p) \in Nat /\ Len(s \o p) = Len(s) + Len(p)
        /\ \A i \in 1 .. Len(s) : (s \o p)[i] = s[i]
    BY <1>3, <1>7, JoinIs, Zenon
  <2> QED
    BY <1>7, <2>1, Zenon
<1>9. v \in Chars /\ v = s \o p
  BY <1>6, <1>8, Zenon DEF s
<1>10. LeftTrimmed(v) = v
  <2>1. v[1] = "spartan"
    <3>1. 1 \in 1 .. 4
      OBVIOUS
    <3> QED
      BY <1>7, <1>8, <1>9, <3>1, Zenon
  <2>2. v # <<>>
    <3>1. Len(s \o p) # 0 /\ Len(<<>>) = 0
      BY <1>8
    <3> QED
      BY <1>9, <3>1, Zenon
  <2> QED
    BY <1>9, <2>1, <2>2, LeftTrimmedIs, SomeAreNotBlank, Zenon
<1>11. OccursIn(v, Scheme, 1)
  <2>1. 1 + Len(s) - 1 <= Len(s \o p)
    BY <1>7, <1>8
  <2>2. DOMAIN s = 1 .. 4
    BY <1>7, TextLength
  <2>3. \A j \in 1 .. 4 : 1 + j - 1 = j
    OBVIOUS
  <2>4. \A j \in DOMAIN s : v[1 + j - 1] = s[j]
    BY <1>8, <1>9, <2>2, <2>3, Zenon
  <2> QED
    BY <1>9, <2>1, <2>4, Zenon DEF OccursIn, s
<1>12. From(v, Len(Scheme) + 1) = p
  BY <1>3, <1>7, <1>9, TailOfTwo, Zenon DEF From, s
<1>13. Schemeless(v) = p /\ ~Mistaken(v)
  BY <1>11, <1>12, Zenon DEF Schemeless, Mistaken
<1>14. ParseUrl(v) = UrlOf(p)
  BY <1>3, <1>10, <1>13, ParsedIs, Zenon
<1> QED
  BY <1>3, <1>14, Zenon DEF v

\* A run and one that is a step shorter.
LEMMA RunIsLonger ==
  ASSUME NEW n \in Nat, NEW S, NEW init \in S, NEW step, NEW other,
         NEW f, IsRun(f, n + 1, S, init, step), NEW g, IsRun(g, n, S, init, other),
         \A k \in 1 .. n : \A x \in S : step[<<k, x>>] = other[<<k, x>>]
  PROVE  f[n + 1] = step[<<n + 1, g[n]>>] /\ g[n] \in S
<1>1. f \in [0 .. n + 1 -> S] /\ f[0] = init /\ \A k \in 1 .. n + 1 : f[k] = step[<<k, f[k - 1]>>]
  BY DEF IsRun
<1>2. g \in [0 .. n -> S]
  BY DEF IsRun
<1> DEFINE h == [k \in 0 .. n |-> f[k]]
<1>3. /\ \A k \in 0 .. n : h[k] = f[k] /\ f[k] \in S
      /\ h = [k \in 0 .. n |-> h[k]]
  BY <1>1
<1>4. 0 \in 0 .. n /\ n \in 0 .. n
  OBVIOUS
<1> HIDE DEF h
<1>5. ASSUME NEW k \in 1 .. n
      PROVE  h[k] = other[<<k, h[k - 1]>>]
  <2>1. k \in 1 .. n + 1 /\ k \in 0 .. n /\ k - 1 \in 0 .. n
    OBVIOUS
  <2>2. f[k] = step[<<k, f[k - 1]>>] /\ f[k - 1] \in S
    BY <1>1, <1>3, <2>1, Zenon
  <2>3. step[<<k, f[k - 1]>>] = other[<<k, f[k - 1]>>]
    BY <2>2, Zenon
  <2> QED
    BY <1>3, <2>1, <2>2, <2>3, Zenon
<1>6. h[0] = init
  BY <1>1, <1>3, <1>4, Zenon
<1>7. Follows(h, n, S, init, other)
  BY <1>3, <1>5, <1>6, Zenon DEF Follows
<1>8. h = g
  BY <1>7, RunIsOne, Zenon
<1>9. n + 1 \in 1 .. n + 1 /\ (n + 1) - 1 = n
  OBVIOUS
<1>10. f[n + 1] = step[<<n + 1, f[n]>>]
  BY <1>1, <1>9, Zenon
<1> QED
  BY <1>2, <1>3, <1>4, <1>8, <1>10, Zenon

--------------------------------------------------------------------------------
(* The pieces of a path.                                                   *)

PathNames == {x \in Chars : x # <<>> /\ Lacks(x, "/")}

\* What has been read of a path: names that ended, and what came since.
Reads == [done : Seq(PathNames), word : {x \in Chars : Lacks(x, "/")}]
NothingRead == [done |-> <<>>, word |-> <<>>]
Closing(read) == IF read.word = <<>> THEN read.done ELSE Append(read.done, read.word)
ReadOn(read, c) ==
  IF c = "/" THEN [done |-> Closing(read), word |-> <<>>] ELSE [read EXCEPT !.word = Append(@, c)]

ReadSteps(path) == [x \in (1 .. Len(path)) \X Reads |-> ReadOn(x[2], path[x[1]])]
IsReading(f, path) == IsRun(f, Len(path), Reads, NothingRead, ReadSteps(path))
ReadOf(path) == (CHOOSE f : IsReading(f, path))[Len(path)]

LEMMA ClosingIs ==
  ASSUME NEW read \in Reads
  PROVE  Closing(read) \in Seq(PathNames)
<1> DEFINE d == read.done
           w == read.word
<1>1. d \in Seq(PathNames) /\ w \in Chars /\ Lacks(w, "/")
  BY DEF Reads
<1>2. w # <<>> => w \in PathNames
  BY <1>1, Zenon DEF PathNames
<1> HIDE DEF d, w
<1>3. w # <<>> => Append(d, w) \in Seq(PathNames)
  BY <1>1, <1>2
<1> QED
  BY <1>1, <1>3, Zenon DEF Closing, d, w

LEMMA ReadOnIs ==
  ASSUME NEW read \in Reads, NEW c \in Letters
  PROVE  ReadOn(read, c) \in Reads
<1>1. read = [done |-> read.done, word |-> read.word] /\ read.done \in Seq(PathNames)
      /\ read.word \in Chars /\ Lacks(read.word, "/")
  BY DEF Reads
<1>2. CASE c = "/"
  <2>1. <<>> \in Chars /\ Lacks(<<>>, "/")
    BY DEF Chars, Lacks
  <2> DEFINE d == Closing(read)
  <2>2. d \in Seq(PathNames)
    BY ClosingIs
  <2> HIDE DEF d
  <2>3. [done |-> d, word |-> <<>>] \in Reads
    BY <2>1, <2>2 DEF Reads
  <2> QED
    BY <1>2, <2>3, Zenon DEF ReadOn, d
<1>3. CASE c # "/"
  <2> DEFINE w == read.word
             t == Append(w, c)
  <2>1. w \in Chars /\ Lacks(w, "/")
    BY <1>1
  <2> HIDE DEF w
  <2>2. t \in Chars /\ Len(t) = Len(w) + 1 /\ Len(w) \in Nat /\ t[Len(w) + 1] = c
        /\ \A i \in 1 .. Len(w) : t[i] = w[i]
    BY <2>1 DEF Chars
  <2> HIDE DEF t
  <2>3. ASSUME NEW i \in 1 .. Len(t)
        PROVE  t[i] # "/"
    <3>1. i \in 1 .. Len(w) \/ i = Len(w) + 1
      BY <2>2
    <3> QED
      BY <1>3, <2>1, <2>2, <3>1, Zenon DEF Lacks
  <2>4. Lacks(t, "/")
    BY <2>3, Zenon DEF Lacks
  <2>5. [read EXCEPT !.word = t] = [done |-> read.done, word |-> t]
    BY <1>1
  <2>6. [done |-> read.done, word |-> t] \in Reads
    BY <1>1, <2>2, <2>4 DEF Reads
  <2> QED
    BY <1>3, <2>5, <2>6, Zenon DEF ReadOn, t, w
<1> QED
  BY <1>2, <1>3

LEMMA ReadingStarts == NothingRead \in Reads /\ Closing(NothingRead) = <<>>
<1>1. <<>> \in Chars /\ Lacks(<<>>, "/") /\ <<>> \in Seq(PathNames)
  BY DEF Chars, Lacks
<1>2. NothingRead.word = <<>> /\ NothingRead.done = <<>>
  BY DEF NothingRead
<1> QED
  BY <1>1, <1>2 DEF NothingRead, Reads, Closing

LEMMA ReadStepIs ==
  ASSUME NEW s \in Chars, NEW k \in 1 .. Len(s), NEW r \in Reads
  PROVE  ReadSteps(s)[<<k, r>>] = ReadOn(r, s[k]) /\ ReadSteps(s)[<<k, r>>] \in Reads
<1>1. <<k, r>> \in (1 .. Len(s)) \X Reads /\ <<k, r>>[1] = k /\ <<k, r>>[2] = r
  OBVIOUS
<1>2. ReadSteps(s)[<<k, r>>] = ReadOn(r, s[k])
  BY <1>1, Zenon DEF ReadSteps
<1>3. s[k] \in Letters
  BY TextLength
<1> QED
  BY <1>2, <1>3, ReadOnIs, Zenon

LEMMA ReadingIs ==
  ASSUME NEW s \in Chars
  PROVE  \E f : IsReading(f, s) /\ ReadOf(s) = f[Len(s)] /\ ReadOf(s) \in Reads
<1> DEFINE n == Len(s)
           step == ReadSteps(s)
<1>1. n \in Nat
  BY TextLength
<1>2. \A k \in 1 .. n : \A x \in Reads : step[<<k, x>>] \in Reads
  BY ReadStepIs
<1>3. NothingRead \in Reads
  BY ReadingStarts
<1> HIDE DEF n, step
<1>4. \E f : IsRun(f, n, Reads, NothingRead, step)
  BY <1>1, <1>2, <1>3, RunExists, Zenon
<1>5. PICK f : IsReading(f, s) /\ f = CHOOSE g : IsReading(g, s)
  <2>1. \E f : IsReading(f, s)
    BY <1>4 DEF IsReading, n, step
  <2> QED
    BY <2>1, Zenon
<1>6. f \in [0 .. n -> Reads]
  BY <1>5 DEF IsReading, IsRun, n
<1>7. n \in 0 .. n
  BY <1>1
<1>8. f[n] \in Reads
  BY <1>6, <1>7
<1> QED
  BY <1>5, <1>8, Zenon DEF ReadOf, n

LEMMA ReadOfNothing == ReadOf(<<>>) = NothingRead
<1>1. <<>> \in Chars /\ Len(<<>>) = 0
  BY DEF Chars
<1>2. PICK f : IsReading(f, <<>>) /\ ReadOf(<<>>) = f[Len(<<>>)]
  BY <1>1, ReadingIs
<1> QED
  BY <1>1, <1>2, Zenon DEF IsReading, IsRun

LEMMA ReadOfMore ==
  ASSUME NEW s \in Chars, NEW c \in Letters
  PROVE  Append(s, c) \in Chars /\ ReadOf(Append(s, c)) = ReadOn(ReadOf(s), c)
<1> DEFINE t == Append(s, c)
           n == Len(s)
           step == ReadSteps(t)
           other == ReadSteps(s)
<1>1. n \in Nat /\ t \in Chars /\ Len(t) = n + 1 /\ t[n + 1] = c /\ \A i \in 1 .. n : t[i] = s[i]
  BY DEF Chars
<1>2. PICK f : IsReading(f, t) /\ ReadOf(t) = f[Len(t)]
  BY <1>1, ReadingIs
<1>3. PICK g : IsReading(g, s) /\ ReadOf(s) = g[n]
  BY ReadingIs
<1> HIDE DEF t
<1>4. n + 1 \in 1 .. Len(t) /\ \A k \in 1 .. n : k \in 1 .. Len(t)
  BY <1>1
<1>5. \A k \in 1 .. n : \A x \in Reads : step[<<k, x>>] = other[<<k, x>>]
  <2>1. ASSUME NEW k \in 1 .. n, NEW x \in Reads
        PROVE  step[<<k, x>>] = other[<<k, x>>]
    <3>1. step[<<k, x>>] = ReadOn(x, t[k])
      BY <1>1, <1>4, ReadStepIs
    <3>2. other[<<k, x>>] = ReadOn(x, s[k])
      BY ReadStepIs
    <3> QED
      BY <1>1, <3>1, <3>2, Zenon
  <2> QED
    BY <2>1
<1>6. NothingRead \in Reads
  BY ReadingStarts
<1> HIDE DEF step, other
<1>7. IsRun(f, n + 1, Reads, NothingRead, step) /\ IsRun(g, n, Reads, NothingRead, other)
  BY <1>1, <1>2, <1>3, Zenon DEF IsReading, step, other
<1>8. f[n + 1] = step[<<n + 1, g[n]>>] /\ g[n] \in Reads
  <2> HIDE DEF n
  <2> QED
    BY <1>1, <1>5, <1>6, <1>7, RunIsLonger, Zenon
<1>9. step[<<n + 1, g[n]>>] = ReadOn(g[n], t[n + 1])
  BY <1>1, <1>4, <1>8, ReadStepIs, Zenon DEF step
<1> QED
  BY <1>1, <1>2, <1>3, <1>8, <1>9, Zenon DEF t

\* Segments is what a reading ends with.
LEMMA SegmentsAreRead ==
  ASSUME NEW s \in Chars
  PROVE  Segments(s) = Closing(ReadOf(s)) /\ Segments(s) \in Seq(PathNames)
<1> DEFINE n == Len(s)
           Rule(g, i) == IF i = 0 THEN [done |-> <<>>, word |-> <<>>]
                         ELSE IF s[i] = "/" THEN [done |-> Closing(g[i - 1]), word |-> <<>>]
                         ELSE [g[i - 1] EXCEPT !.word = Append(@, s[i])]
           upTo == CHOOSE g : g = [i \in 0 .. n |-> Rule(g, i)]
<1>1. n \in Nat
  BY TextLength
<1>2. PICK f : IsReading(f, s) /\ ReadOf(s) = f[n] /\ ReadOf(s) \in Reads
  BY ReadingIs
<1>3. IsRun(f, n, Reads, NothingRead, ReadSteps(s))
  BY <1>2 DEF IsReading
<1>4. f \in [0 .. n -> Reads] /\ f[0] = NothingRead
      /\ \A k \in 1 .. n : f[k] = ReadSteps(s)[<<k, f[k - 1]>>]
  BY <1>3, Zenon DEF IsRun
<1>5. \A g, i : Rule(g, i) = IF i = 0 THEN NothingRead ELSE ReadOn(g[i - 1], s[i])
  BY Zenon DEF ReadOn, NothingRead
<1>6. Segments(s) = Closing(upTo[n])
  BY DEF Segments, Closing
<1> HIDE DEF Rule, n
<1>7. f = [i \in 0 .. n |-> Rule(f, i)]
  <2>1. ASSUME NEW i \in 0 .. n
        PROVE  f[i] = Rule(f, i)
    <3>1. CASE i = 0
      BY <1>4, <1>5, <3>1, Zenon
    <3>2. CASE i # 0
      <4>1. i \in 1 .. n /\ i - 1 \in 0 .. n
        BY <1>1, <3>2
      <4>2. f[i - 1] \in Reads
        BY <1>4, <4>1
      <4>3. f[i] = ReadSteps(s)[<<i, f[i - 1]>>]
        BY <1>4, <4>1, Zenon
      <4>4. ReadSteps(s)[<<i, f[i - 1]>>] = ReadOn(f[i - 1], s[i])
        BY <4>1, <4>2, ReadStepIs, Zenon DEF n
      <4> QED
        BY <1>5, <3>2, <4>3, <4>4, Zenon
    <3> QED
      BY <3>1, <3>2
  <2> QED
    BY <1>4, <2>1
<1>8. upTo = [i \in 0 .. n |-> Rule(upTo, i)]
  BY <1>7, Zenon
<1> HIDE DEF upTo
<1>9. \A i \in 0 .. n : upTo[i] = Rule(upTo, i)
  BY <1>8, Zenon
<1>10. upTo = [k \in 0 .. n |-> upTo[k]]
  BY <1>8, <1>9
<1>11. upTo[0] = NothingRead
  <2>1. 0 \in 0 .. n
    BY <1>1
  <2> QED
    BY <1>5, <1>9, <2>1, Zenon
<1>12. ASSUME NEW k \in 1 .. n, upTo[k - 1] \in Reads
       PROVE  upTo[k] = ReadSteps(s)[<<k, upTo[k - 1]>>]
  <2>1. k \in 0 .. n /\ k # 0
    BY <1>1
  <2>2. upTo[k] = ReadOn(upTo[k - 1], s[k])
    BY <1>5, <1>9, <2>1, Zenon
  <2>3. ReadSteps(s)[<<k, upTo[k - 1]>>] = ReadOn(upTo[k - 1], s[k])
    BY <1>12, ReadStepIs, Zenon DEF n
  <2> QED
    BY <2>2, <2>3, Zenon
<1>13. upTo = f
  <2> DEFINE step == ReadSteps(s)
  <2>1. NothingRead \in Reads
    BY ReadingStarts
  <2>2. IsRun(f, n, Reads, NothingRead, step)
    BY <1>3, Zenon
  <2>3. Follows(upTo, n, Reads, NothingRead, step)
    BY <1>10, <1>11, <1>12, Zenon DEF Follows
  <2> HIDE DEF step
  <2> QED
    BY <1>1, <2>1, <2>2, <2>3, RunIsOne, Zenon
<1>14. Closing(ReadOf(s)) \in Seq(PathNames)
  BY <1>2, ClosingIs
<1> QED
  BY <1>2, <1>6, <1>13, <1>14, Zenon

\* A name, and no slash behind it yet.
LEMMA ReadOfName ==
  ASSUME NEW s \in Chars, NEW x \in Chars, Lacks(x, "/"),
         NEW d, ReadOf(s) = [done |-> d, word |-> <<>>]
  PROVE  ReadOf(s \o x) = [done |-> d, word |-> x]
<1> DEFINE Part(k) == SubSeq(x, 1, k)
           Right(k) == ReadOf(s \o Part(k)) = [done |-> d, word |-> Part(k)]
           n == Len(x)
           Wrong == {k \in 0 .. n : ~Right(k)}
<1>1. n \in Nat /\ x \in Seq(Letters) /\ Part(0) = <<>> /\ Part(n) = x
  BY TextLength DEF Chars
<1>2. s \o <<>> = s
  BY DEF Chars
<1>3. Right(0)
  BY <1>1, <1>2, Zenon
<1>4. ASSUME NEW k \in 1 .. n, Right(k - 1)
      PROVE  Right(k)
  <2> DEFINE p == Part(k - 1)
             c == x[k]
  <2>1. p \in Seq(Letters) /\ Part(k) = Append(p, c) /\ c \in Letters
    BY <1>1
  <2>2. c # "/"
    BY <1>1 DEF Lacks
  <2> HIDE DEF p, c
  <2>3. p \in Chars /\ s \in Seq(Letters)
    BY <2>1 DEF Chars
  <2>4. s \o Append(p, c) = Append(s \o p, c)
    BY <2>1, <2>3
  <2>5. s \o p \in Chars
    BY <2>3, JoinIs, Zenon
  <2>6. ReadOf(Append(s \o p, c)) = ReadOn(ReadOf(s \o p), c)
    BY <2>1, <2>5, ReadOfMore, Zenon
  <2>7. ReadOf(s \o p) = [done |-> d, word |-> p]
    BY <1>4 DEF p
  <2>8. ReadOn([done |-> d, word |-> p], c) = [done |-> d, word |-> Append(p, c)]
    BY <2>2 DEF ReadOn
  <2> QED
    BY <2>1, <2>4, <2>6, <2>7, <2>8, Zenon
<1> HIDE DEF Right
<1>5. Wrong = {}
  <2>1. SUFFICES ASSUME Wrong # {} PROVE FALSE
    OBVIOUS
  <2>2. Wrong \in SUBSET Nat
    BY <1>1
  <2> DEFINE m == Min(Wrong)
  <2>3. m \in Wrong /\ \A k \in Wrong : m <= k
    <3> HIDE DEF Wrong
    <3> QED
      BY <2>1, <2>2, MinIsLeast, Zenon
  <2> HIDE DEF m
  <2>4. m \in 0 .. n /\ ~Right(m) /\ m # 0
    BY <1>3, <2>3
  <2>5. m \in 1 .. n /\ m - 1 \in 0 .. n /\ ~(m <= m - 1)
    BY <1>1, <2>4
  <2>6. m - 1 \notin Wrong
    <3> HIDE DEF Wrong
    <3> QED
      BY <2>3, <2>5
  <2>7. Right(m - 1)
    BY <2>5, <2>6
  <2> QED
    BY <1>4, <2>4, <2>5, <2>7
<1>6. n \in 0 .. n
  BY <1>1
<1>7. Right(n)
  BY <1>5, <1>6
<1> QED
  BY <1>1, <1>7, Zenon DEF Right

--------------------------------------------------------------------------------
(* Names with a slash before and behind each.                              *)

Root == <<"/">>
JoinSteps(names) ==
  [x \in (1 .. Len(names)) \X Chars |-> (x[2] \o names[x[1]]) \o Root]
IsJoining(f, names) == IsRun(f, Len(names), Chars, Root, JoinSteps(names))
Joined(names) == (CHOOSE f : IsJoining(f, names))[Len(names)]

LEMMA NamesAre ==
  ASSUME NEW names \in Seq(PathNames)
  PROVE  /\ Len(names) \in Nat
         /\ \A k \in 1 .. Len(names) : names[k] \in PathNames /\ names[k] \in Chars
<1>1. Len(names) \in Nat /\ \A k \in 1 .. Len(names) : names[k] \in PathNames
  OBVIOUS
<1> QED
  BY <1>1, Zenon DEF PathNames

LEMMA JoinStepIs ==
  ASSUME NEW names \in Seq(PathNames), NEW k \in 1 .. Len(names), NEW t \in Chars
  PROVE  /\ JoinSteps(names)[<<k, t>>] = (t \o names[k]) \o Root
         /\ JoinSteps(names)[<<k, t>>] \in Chars
<1>1. <<k, t>> \in (1 .. Len(names)) \X Chars /\ <<k, t>>[1] = k /\ <<k, t>>[2] = t
  OBVIOUS
<1>2. JoinSteps(names)[<<k, t>>] = (t \o names[k]) \o Root
  BY <1>1, Zenon DEF JoinSteps
<1>3. names[k] \in Chars /\ Root \in Chars
  BY NamesAre, SchemeIs DEF Root
<1>4. t \o names[k] \in Chars
  BY <1>3, JoinIs, Zenon
<1>5. (t \o names[k]) \o Root \in Chars
  BY <1>3, <1>4, JoinIs, Zenon
<1> QED
  BY <1>2, <1>5, Zenon

LEMMA JoiningIs ==
  ASSUME NEW names \in Seq(PathNames)
  PROVE  \E f : IsJoining(f, names) /\ Joined(names) = f[Len(names)] /\ Joined(names) \in Chars
<1> DEFINE n == Len(names)
           step == JoinSteps(names)
<1>1. n \in Nat
  BY NamesAre
<1>2. \A k \in 1 .. n : \A x \in Chars : step[<<k, x>>] \in Chars
  BY JoinStepIs
<1>3. Root \in Chars
  BY SchemeIs DEF Root
<1> HIDE DEF n, step
<1>4. \E f : IsRun(f, n, Chars, Root, step)
  BY <1>1, <1>2, <1>3, RunExists, Zenon
<1>5. PICK f : IsJoining(f, names) /\ f = CHOOSE g : IsJoining(g, names)
  <2>1. \E f : IsJoining(f, names)
    BY <1>4 DEF IsJoining, n, step
  <2> QED
    BY <2>1, Zenon
<1>6. f \in [0 .. n -> Chars]
  BY <1>5 DEF IsJoining, IsRun, n
<1>7. n \in 0 .. n
  BY <1>1
<1>8. f[n] \in Chars
  BY <1>6, <1>7
<1> QED
  BY <1>5, <1>8, Zenon DEF Joined, n

LEMMA JoinedNone == Joined(<<>>) = Root
<1>1. <<>> \in Seq(PathNames) /\ Len(<<>>) = 0
  OBVIOUS
<1>2. PICK f : IsJoining(f, <<>>) /\ Joined(<<>>) = f[Len(<<>>)]
  BY <1>1, JoiningIs
<1> QED
  BY <1>1, <1>2, Zenon DEF IsJoining, IsRun

LEMMA JoinedMore ==
  ASSUME NEW names \in Seq(PathNames), NEW x \in PathNames
  PROVE  /\ Append(names, x) \in Seq(PathNames)
         /\ Joined(Append(names, x)) = (Joined(names) \o x) \o Root
<1> DEFINE t == Append(names, x)
           n == Len(names)
           step == JoinSteps(t)
           other == JoinSteps(names)
<1>1. /\ n \in Nat /\ t \in Seq(PathNames) /\ Len(t) = n + 1
      /\ t[n + 1] = x /\ \A i \in 1 .. n : t[i] = names[i]
  OBVIOUS
<1>2. PICK f : IsJoining(f, t) /\ Joined(t) = f[Len(t)]
  BY <1>1, JoiningIs
<1>3. PICK g : IsJoining(g, names) /\ Joined(names) = g[n]
  BY JoiningIs
<1> HIDE DEF t
<1>4. n + 1 \in 1 .. Len(t) /\ \A k \in 1 .. n : k \in 1 .. Len(t)
  BY <1>1
<1>5. \A k \in 1 .. n : \A y \in Chars : step[<<k, y>>] = other[<<k, y>>]
  <2>1. ASSUME NEW k \in 1 .. n, NEW y \in Chars
        PROVE  step[<<k, y>>] = other[<<k, y>>]
    <3>1. step[<<k, y>>] = (y \o t[k]) \o Root
      BY <1>1, <1>4, JoinStepIs
    <3>2. other[<<k, y>>] = (y \o names[k]) \o Root
      BY JoinStepIs
    <3> QED
      BY <1>1, <3>1, <3>2, Zenon
  <2> QED
    BY <2>1
<1>6. Root \in Chars
  BY SchemeIs DEF Root
<1> HIDE DEF step, other
<1>7. IsRun(f, n + 1, Chars, Root, step) /\ IsRun(g, n, Chars, Root, other)
  BY <1>1, <1>2, <1>3, Zenon DEF IsJoining, step, other
<1>8. f[n + 1] = step[<<n + 1, g[n]>>] /\ g[n] \in Chars
  <2> HIDE DEF n
  <2> QED
    BY <1>1, <1>5, <1>6, <1>7, RunIsLonger, Zenon
<1>9. step[<<n + 1, g[n]>>] = (g[n] \o t[n + 1]) \o Root
  BY <1>1, <1>4, <1>8, JoinStepIs, Zenon DEF step
<1> QED
  BY <1>1, <1>2, <1>3, <1>8, <1>9, Zenon DEF t

\* A path that begins and ends with a slash, and is read as these names.
ReadsAs(path, names) ==
  /\ path \in Chars /\ Len(path) >= 1 /\ path[1] = "/" /\ path[Len(path)] = "/"
  /\ ReadOf(path) = [done |-> names, word |-> <<>>]

LEMMA RootReadsAs == ReadsAs(Root, <<>>)
<1>1. Root \in Chars /\ Len(Root) = 1 /\ Root[1] = "/" /\ Root = Append(<<>>, "/") /\ <<>> \in Chars
  BY SchemeIs DEF Root, Chars
<1>2. "/" \in Letters
  BY Zenon DEF Letters
<1>3. ReadOf(Root) = ReadOn(NothingRead, "/")
  BY <1>1, <1>2, ReadOfMore, ReadOfNothing, Zenon
<1>4. ReadOn(NothingRead, "/") = [done |-> <<>>, word |-> <<>>]
  BY ReadingStarts, Zenon DEF ReadOn
<1>5. 1 >= 1
  OBVIOUS
<1> QED
  BY <1>1, <1>3, <1>4, <1>5, Zenon DEF ReadsAs

\* One more name, with the slash behind it and without.
LEMMA NameReadsAs ==
  ASSUME NEW path, NEW names \in Seq(PathNames), ReadsAs(path, names), NEW x \in PathNames
  PROVE  /\ ReadsAs((path \o x) \o Root, Append(names, x))
         /\ path \o x \in Chars /\ Len(path \o x) = Len(path) + Len(x) /\ Len(x) >= 1
         /\ Segments(path \o x) = Append(names, x)
         /\ (path \o x)[1] = "/" /\ (path \o x)[Len(path \o x)] # "/"
<1> DEFINE p == path \o x
           q == p \o Root
<1>1. path \in Chars /\ Len(path) >= 1 /\ path[1] = "/" /\ ReadOf(path) = [done |-> names, word |-> <<>>]
  BY Zenon DEF ReadsAs
<1>2. x \in Chars /\ x # <<>> /\ Lacks(x, "/")
  BY Zenon DEF PathNames
<1>3. Len(x) >= 1 /\ Len(x) \in Nat /\ Len(path) \in Nat
  <2> QED
    BY <1>1, <1>2 DEF Chars
<1>4. /\ p \in Chars /\ Len(p) = Len(path) + Len(x)
      /\ \A i \in 1 .. Len(path) : p[i] = path[i]
      /\ \A i \in Len(path) + 1 .. Len(path) + Len(x) : p[i] = x[i - Len(path)]
  BY <1>1, <1>2, JoinIs, Zenon
<1>5. ReadOf(p) = [done |-> names, word |-> x]
  BY <1>1, <1>2, ReadOfName, Zenon
<1>6. Closing([done |-> names, word |-> x]) = Append(names, x)
  BY <1>2 DEF Closing
<1>7. "/" \in Letters /\ q = Append(p, "/")
  <2>1. "/" \in Letters
    BY Zenon DEF Letters
  <2> HIDE DEF p
  <2>2. p \in Seq(Letters)
    BY <1>4 DEF Chars
  <2>3. p \o <<"/">> = Append(p, "/")
    BY <2>1, <2>2
  <2> QED
    BY <2>1, <2>3, Zenon DEF Root
<1>8. ReadOf(q) = [done |-> Append(names, x), word |-> <<>>] /\ q \in Chars
  <2>1. ReadOf(q) = ReadOn(ReadOf(p), "/") /\ q \in Chars
    BY <1>4, <1>7, ReadOfMore, Zenon
  <2> QED
    BY <1>5, <1>6, <2>1, Zenon DEF ReadOn
<1>9. Segments(p) = Append(names, x)
  BY <1>4, <1>5, <1>6, SegmentsAreRead, Zenon
<1> HIDE DEF p
<1>10. p[1] = "/" /\ p[Len(p)] # "/"
  <2>1. 1 \in 1 .. Len(path) /\ Len(p) \in Len(path) + 1 .. Len(path) + Len(x)
        /\ Len(p) - Len(path) \in 1 .. Len(x)
    BY <1>3, <1>4, <1>1
  <2> QED
    BY <1>1, <1>2, <1>4, <2>1, Zenon DEF Lacks
<1>11. /\ Len(q) = Len(p) + 1 /\ Len(p) \in Nat
       /\ \A i \in 1 .. Len(p) : q[i] = p[i]
       /\ q[Len(p) + 1] = "/"
  <2>1. p \in Seq(Letters)
    BY <1>4 DEF Chars
  <2> HIDE DEF q
  <2> QED
    BY <1>7, <2>1
<1>12. Len(q) >= 1 /\ q[1] = "/" /\ q[Len(q)] = "/"
  <2>1. Len(q) >= 1 /\ 1 \in 1 .. Len(p)
    BY <1>1, <1>3, <1>4, <1>11
  <2> QED
    BY <1>10, <1>11, <2>1, Zenon
<1>13. ReadsAs(q, Append(names, x))
  BY <1>8, <1>12, Zenon DEF ReadsAs
<1> QED
  BY <1>3, <1>4, <1>9, <1>10, <1>13, Zenon DEF p

\* Where the names that were joined are found again.
LEMMA JoinedReadsAs ==
  ASSUME NEW names \in Seq(PathNames)
  PROVE  ReadsAs(Joined(names), names)
<1> DEFINE Part(k) == SubSeq(names, 1, k)
           Right(k) == ReadsAs(Joined(Part(k)), Part(k))
           n == Len(names)
           Wrong == {k \in 0 .. n : ~Right(k)}
<1>1. n \in Nat /\ Part(0) = <<>> /\ Part(n) = names
  OBVIOUS
<1>2. Right(0)
  BY <1>1, JoinedNone, RootReadsAs, Zenon
<1>3. ASSUME NEW k \in 1 .. n, Right(k - 1)
      PROVE  Right(k)
  <2> DEFINE p == Part(k - 1)
             c == names[k]
  <2>1. p \in Seq(PathNames) /\ Part(k) = Append(p, c) /\ c \in PathNames
    BY <1>1
  <2>2. ReadsAs(Joined(p), p)
    BY <1>3
  <2> HIDE DEF p, c
  <2>3. Joined(Append(p, c)) = (Joined(p) \o c) \o Root
    BY <2>1, JoinedMore
  <2>4. ReadsAs((Joined(p) \o c) \o Root, Append(p, c))
    BY <2>1, <2>2, NameReadsAs, Zenon
  <2> QED
    BY <2>1, <2>3, <2>4, Zenon
<1> HIDE DEF Right
<1>5. Wrong = {}
  <2>1. SUFFICES ASSUME Wrong # {} PROVE FALSE
    OBVIOUS
  <2>2. Wrong \in SUBSET Nat
    BY <1>1
  <2> DEFINE m == Min(Wrong)
  <2>3. m \in Wrong /\ \A k \in Wrong : m <= k
    <3> HIDE DEF Wrong
    <3> QED
      BY <2>1, <2>2, MinIsLeast, Zenon
  <2> HIDE DEF m
  <2>4. m \in 0 .. n /\ ~Right(m) /\ m # 0
    BY <1>2, <2>3
  <2>5. m \in 1 .. n /\ m - 1 \in 0 .. n /\ ~(m <= m - 1)
    BY <1>1, <2>4
  <2>6. m - 1 \notin Wrong
    <3> HIDE DEF Wrong
    <3> QED
      BY <2>3, <2>5
  <2>7. Right(m - 1)
    BY <2>5, <2>6
  <2> QED
    BY <1>3, <2>4, <2>5, <2>7
<1>6. n \in 0 .. n
  BY <1>1
<1>7. Right(n)
  BY <1>5, <1>6
<1> QED
  BY <1>1, <1>7, Zenon DEF Right

\* ".." takes the last name away, and nothing at the root.
LEMMA ParentIs ==
  /\ Parent(Root) = Root
  /\ \A path, names : \A x \in PathNames :
       ReadsAs(path, names) => Parent((path \o x) \o Root) = path
<1>1. Parent(Root) = Root
  BY Zenon DEF Parent, Root
<1>2. ASSUME NEW path, NEW names, NEW x \in PathNames, ReadsAs(path, names)
      PROVE  Parent((path \o x) \o Root) = path
  <2> DEFINE p == path \o x
             q == p \o Root
             n == Len(path)
             S == {i \in DOMAIN p : p[i] = "/"} \union {0}
             m == Max(S)
  <2>1. path \in Chars /\ n >= 1 /\ path[n] = "/"
    BY <1>2, Zenon DEF ReadsAs
  <2>2. x \in Chars /\ x # <<>> /\ Lacks(x, "/")
    BY Zenon DEF PathNames
  <2>3. Len(x) >= 1 /\ Len(x) \in Nat /\ n \in Nat
    BY <2>1, <2>2 DEF Chars
  <2>4. /\ p \in Chars /\ Len(p) = n + Len(x)
        /\ \A i \in 1 .. n : p[i] = path[i]
        /\ \A i \in n + 1 .. n + Len(x) : p[i] = x[i - n]
    BY <2>1, <2>2, JoinIs, Zenon
  <2>5. SubSeq(p, 1, n) = path
    BY <2>1, <2>2 DEF Chars
  <2> HIDE DEF p
  <2>6. DOMAIN p = 1 .. n + Len(x)
    BY <2>4, TextLength
  <2>7. \A i \in S : i <= n /\ i \in Nat
    <3>1. ASSUME NEW i \in 1 .. n + Len(x), ~(i <= n)
          PROVE  p[i] # "/"
      <4>1. i \in n + 1 .. n + Len(x) /\ i - n \in 1 .. Len(x)
        BY <2>3, <3>1
      <4> QED
        BY <2>2, <2>4, <4>1, Zenon DEF Lacks
    <3>2. \A i \in S : (i \in 1 .. n + Len(x) /\ p[i] = "/") \/ i = 0
      BY <2>6, Zenon
    <3> HIDE DEF S
    <3>3. 0 <= n /\ 0 \in Nat /\ \A i \in 1 .. n + Len(x) : i \in Nat
      BY <2>3
    <3> QED
      BY <3>1, <3>2, <3>3, Zenon
  <2>8. n \in S
    <3>1. n \in 1 .. n /\ n \in 1 .. n + Len(x)
      BY <2>1, <2>3
    <3> QED
      BY <2>1, <2>4, <2>6, <3>1, Zenon
  <2>9. m \in S /\ \A k \in S : k <= m
    <3> HIDE DEF S
    <3>1. S \in SUBSET (0 .. n) /\ S # {} /\ 0 \in Int /\ n \in Int
      BY <2>3, <2>7, <2>8
    <3> QED
      BY <3>1, MaxIsGreatest, Zenon
  <2>10. DirName(p) = SubSeq(p, 1, m)
    BY DEF DirName
  <2> HIDE DEF S, m
  <2>11. m = n
    BY <2>3, <2>7, <2>8, <2>9
  <2>12. DirName(p) = path
    BY <2>5, <2>10, <2>11, Zenon
  <2>13. Root \in Chars /\ Len(Root) = 1
    BY SchemeIs DEF Root
  <2>14. Len(q) = Len(p) + Len(Root)
    BY <2>4, <2>13, JoinIs, Zenon
  <2>15. q # Root
    <3>1. Len(q) # 1
      BY <2>1, <2>3, <2>4, <2>13, <2>14
    <3> QED
      BY <2>13, <3>1, Zenon
  <2>16. SubSeq(q, 1, Len(q) - 1) = p
    <3> DEFINE r == Root
    <3>1. p \in Seq(Letters) /\ r \in Seq(Letters) /\ Len(r) = 1
      BY <2>4, <2>13 DEF Chars
    <3> HIDE DEF r
    <3>2. SubSeq(p \o r, 1, Len(p)) = p
      BY <3>1
    <3>3. Len(q) - 1 = Len(p)
      BY <2>3, <2>4, <2>13, <2>14
    <3> QED
      BY <3>2, <3>3, Zenon DEF r
  <2> HIDE DEF q
  <2>17. Parent(q) = path
    BY <2>12, <2>15, <2>16, Zenon DEF Parent, Root
  <2> QED
    BY <2>17 DEF q, p
<1> QED
  BY <1>1, <1>2

--------------------------------------------------------------------------------
(* Counting places.                                                        *)

\* How many places behind i and up to j are in P.
CountIn(P, i, j) == Cardinality({l \in i + 1 .. j : l \in P})

LEMMA CountedIsFinite ==
  ASSUME NEW P, NEW i \in Nat, NEW j \in Nat
  PROVE  IsFiniteSet({l \in i + 1 .. j : l \in P})
<1>1. IsFiniteSet(i + 1 .. j) /\ {l \in i + 1 .. j : l \in P} \subseteq i + 1 .. j
  BY FS_Interval
<1> QED
  BY <1>1, FS_Subset

LEMMA CountIsNat ==
  ASSUME NEW P, NEW i \in Nat, NEW j \in Nat
  PROVE  CountIn(P, i, j) \in Nat
BY CountedIsFinite, FS_CardinalityType DEF CountIn

LEMMA CountNone ==
  ASSUME NEW P, NEW i \in Nat, NEW j \in Nat, \A l \in i + 1 .. j : l \notin P
  PROVE  CountIn(P, i, j) = 0
<1>1. {l \in i + 1 .. j : l \in P} = {}
  OBVIOUS
<1> QED
  BY <1>1, FS_EmptySet DEF CountIn

\* One place more.
LEMMA CountGrows ==
  ASSUME NEW P, NEW i \in Nat, NEW j \in Nat, i <= j
  PROVE  /\ j + 1 \in P => CountIn(P, i, j + 1) = CountIn(P, i, j) + 1
         /\ j + 1 \notin P => CountIn(P, i, j + 1) = CountIn(P, i, j)
<1> DEFINE S == {l \in i + 1 .. j : l \in P}
           T == {l \in i + 1 .. j + 1 : l \in P}
<1>0. j + 1 \notin S
  OBVIOUS
<1>1. IsFiniteSet(S) /\ j + 1 \notin S
  BY <1>0, CountedIsFinite
<1>2. ASSUME j + 1 \in P
      PROVE  Cardinality(T) = Cardinality(S) + 1
  <2>1. T = S \union {j + 1}
    BY <1>2
  <2>2. Cardinality(S \union {j + 1}) = Cardinality(S) + 1
    BY <1>1, FS_AddElement
  <2> QED
    BY <2>1, <2>2, Zenon
<1>3. j + 1 \notin P => T = S
  OBVIOUS
<1> QED
  BY <1>2, <1>3, Zenon DEF CountIn

\* One place that counts, taken away.
LEMMA CountWithout ==
  ASSUME NEW P, NEW i \in Nat, NEW j \in Nat, NEW m \in i + 1 .. j, m \in P
  PROVE  CountIn(P, i, j) = CountIn(P \ {m}, i, j) + 1
<1> DEFINE S == {l \in i + 1 .. j : l \in P}
           T == {l \in i + 1 .. j : l \in P \ {m}}
<1>1. S = T \union {m} /\ m \notin T
  OBVIOUS
<1>2. IsFiniteSet(T)
  BY CountedIsFinite
<1>3. Cardinality(S) = Cardinality(T) + 1
  <2> HIDE DEF S, T
  <2> QED
    BY <1>1, <1>2, FS_AddElement
<1> QED
  BY <1>3 DEF CountIn

LEMMA CountSame ==
  ASSUME NEW P, NEW Q, NEW i \in Nat, NEW j \in Nat, \A l \in i + 1 .. j : l \in P <=> l \in Q
  PROVE  CountIn(P, i, j) = CountIn(Q, i, j)
<1>1. {l \in i + 1 .. j : l \in P} = {l \in i + 1 .. j : l \in Q}
  OBVIOUS
<1> QED
  BY <1>1 DEF CountIn

--------------------------------------------------------------------------------
(* Which names stay.                                                       *)

DotsOf(segs) == {l \in Nat : segs[l] = DotDot}
NamesOf(segs) == {l \in Nat : segs[l] \notin {Dot, DotDot}}

\* Among the first m pieces.
StaysUpTo(segs, i, m) ==
  /\ segs[i] \notin {Dot, DotDot}
  /\ \A j \in i + 1 .. m : CountIn(DotsOf(segs), i, j) <= CountIn(NamesOf(segs), i, j)
KeptUpTo(segs, m) == {i \in 1 .. m : StaysUpTo(segs, i, m)}

\* Behind a name that stays there are as many names more than ".." as stay.
Balanced(segs, m) ==
  \A i \in KeptUpTo(segs, m) :
    CountIn(NamesOf(segs), i, m) = CountIn(DotsOf(segs), i, m) + CountIn(KeptUpTo(segs, m), i, m)

LEMMA DotsDiffer == Dot # DotDot
<1>1. Len(<<".">>) = 1 /\ Len(<<".", ".">>) = 2
  OBVIOUS
<1> QED
  BY <1>1 DEF Dot, DotDot

LEMMA StaysIs ==
  ASSUME NEW segs, NEW n \in Nat, Len(segs) = n, DOMAIN segs = 1 .. n
  PROVE  Staying(segs) = Picked(segs, KeptUpTo(segs, n))
<1>1. ASSUME NEW k \in 1 .. n
      PROVE  Stays(segs, k) <=> StaysUpTo(segs, k, n)
  <2>1. ASSUME NEW j \in k + 1 .. n
        PROVE  /\ {i \in k + 1 .. j : segs[i] = DotDot} = {i \in k + 1 .. j : i \in DotsOf(segs)}
               /\ {i \in k + 1 .. j : segs[i] \notin {Dot, DotDot}}
                    = {i \in k + 1 .. j : i \in NamesOf(segs)}
    <3>1. \A i \in k + 1 .. j : i \in Nat
      OBVIOUS
    <3> QED
      BY <3>1, Zenon DEF DotsOf, NamesOf
  <2> QED
    BY <2>1, Zenon DEF Stays, StaysUpTo, CountIn
<1>2. {k \in DOMAIN segs : Stays(segs, k)} = KeptUpTo(segs, n)
  BY <1>1, Zenon DEF KeptUpTo
<1> QED
  BY <1>2, Zenon DEF Staying, Picked

\* What one more piece does to the names that stay.
LEMMA OneMorePiece ==
  ASSUME NEW segs, NEW m \in Nat, NEW i \in 1 .. m
  PROVE  /\ i \in KeptUpTo(segs, m + 1) <=>
              /\ i \in KeptUpTo(segs, m)
              /\ CountIn(DotsOf(segs), i, m + 1) <= CountIn(NamesOf(segs), i, m + 1)
         /\ segs[m + 1] = DotDot => CountIn(DotsOf(segs), i, m + 1) = CountIn(DotsOf(segs), i, m) + 1
         /\ segs[m + 1] # DotDot => CountIn(DotsOf(segs), i, m + 1) = CountIn(DotsOf(segs), i, m)
         /\ segs[m + 1] \notin {Dot, DotDot} =>
              CountIn(NamesOf(segs), i, m + 1) = CountIn(NamesOf(segs), i, m) + 1
         /\ segs[m + 1] \in {Dot, DotDot} =>
              CountIn(NamesOf(segs), i, m + 1) = CountIn(NamesOf(segs), i, m)
<1>1. i \in Nat /\ i <= m /\ m + 1 \in Nat /\ i \in 1 .. m + 1
  OBVIOUS
<1>2. \A j : j \in i + 1 .. m + 1 <=> j \in i + 1 .. m \/ j = m + 1
  OBVIOUS
<1>3. StaysUpTo(segs, i, m + 1) <=>
        /\ StaysUpTo(segs, i, m)
        /\ CountIn(DotsOf(segs), i, m + 1) <= CountIn(NamesOf(segs), i, m + 1)
  BY <1>2, Zenon DEF StaysUpTo
<1>4. m + 1 \in DotsOf(segs) <=> segs[m + 1] = DotDot
  BY <1>1, Zenon DEF DotsOf
<1>5. m + 1 \in NamesOf(segs) <=> segs[m + 1] \notin {Dot, DotDot}
  BY <1>1, Zenon DEF NamesOf
<1> DEFINE D == DotsOf(segs)
           N == NamesOf(segs)
<1> HIDE DEF D, N
<1>6. /\ m + 1 \in D => CountIn(D, i, m + 1) = CountIn(D, i, m) + 1
      /\ m + 1 \notin D => CountIn(D, i, m + 1) = CountIn(D, i, m)
  BY <1>1, CountGrows, Zenon
<1>7. /\ m + 1 \in N => CountIn(N, i, m + 1) = CountIn(N, i, m) + 1
      /\ m + 1 \notin N => CountIn(N, i, m + 1) = CountIn(N, i, m)
  BY <1>1, CountGrows, Zenon
<1>8. i \in KeptUpTo(segs, m + 1) <=>
        /\ i \in KeptUpTo(segs, m)
        /\ CountIn(DotsOf(segs), i, m + 1) <= CountIn(NamesOf(segs), i, m + 1)
  BY <1>1, <1>3, Zenon DEF KeptUpTo
<1> QED
  BY <1>4, <1>5, <1>6, <1>7, <1>8, Zenon DEF D, N

\* The last piece, looked at alone.
LEMMA LastPiece ==
  ASSUME NEW segs, NEW m \in Nat
  PROVE  m + 1 \in KeptUpTo(segs, m + 1) <=> segs[m + 1] \notin {Dot, DotDot}
<1>1. m + 1 \in 1 .. m + 1 /\ (m + 1) + 1 .. m + 1 = {}
  OBVIOUS
<1> QED
  BY <1>1, Zenon DEF KeptUpTo, StaysUpTo

LEMMA NameStays ==
  ASSUME NEW segs, NEW m \in Nat, Balanced(segs, m), segs[m + 1] \notin {Dot, DotDot}
  PROVE  KeptUpTo(segs, m + 1) = KeptUpTo(segs, m) \union {m + 1} /\ Balanced(segs, m + 1)
<1> DEFINE K == KeptUpTo(segs, m)
           L == KeptUpTo(segs, m + 1)
           D(i, j) == CountIn(DotsOf(segs), i, j)
           N(i, j) == CountIn(NamesOf(segs), i, j)
<1>0. /\ \A i \in K : i \in 1 .. m /\ i \in Nat /\ i <= m
      /\ \A i \in L : i \in 1 .. m \/ i = m + 1
      /\ \A i \in 1 .. m : i \in Nat
      /\ m + 1 \in Nat
  <2>1. \A i \in K : i \in 1 .. m
    BY Zenon DEF KeptUpTo
  <2>2. \A i \in L : i \in 1 .. m + 1
    BY Zenon DEF KeptUpTo
  <2> HIDE DEF K, L
  <2> QED
    BY <2>1, <2>2
<1>1. segs[m + 1] # DotDot
  OBVIOUS
<1>2. ASSUME NEW i \in K
      PROVE  /\ N(i, m) = D(i, m) + CountIn(K, i, m) /\ CountIn(K, i, m) \in Nat
             /\ D(i, m) \in Nat /\ D(i, m + 1) = D(i, m) /\ N(i, m + 1) = N(i, m) + 1
  <2>1. N(i, m) = D(i, m) + CountIn(K, i, m)
    BY Zenon DEF Balanced
  <2>2. i \in 1 .. m /\ i \in Nat
    BY <1>0
  <2>3. CountIn(K, i, m) \in Nat /\ D(i, m) \in Nat
    <3> HIDE DEF K
    <3> QED
      BY <2>2, CountIsNat
  <2> QED
    BY <1>1, <2>1, <2>2, <2>3, OneMorePiece, Zenon
<1>3. \A i \in K : i \in L
  <2>1. ASSUME NEW i \in K
        PROVE  i \in L
    <3> HIDE DEF K
    <3>1. D(i, m + 1) <= N(i, m + 1)
      <4> HIDE DEF D, N
      <4> QED
        BY <1>2
    <3>2. i \in 1 .. m /\ i \in KeptUpTo(segs, m)
      BY <1>0 DEF K
    <3> QED
      BY <3>1, <3>2, OneMorePiece, Zenon
  <2> QED
    BY <2>1
<1>4. \A i \in 1 .. m : i \in L => i \in K
  BY OneMorePiece, Zenon
<1>5. m + 1 \in L
  BY LastPiece, Zenon
<1>6. L = K \union {m + 1}
  <2> HIDE DEF K, L
  <2> QED
    BY <1>0, <1>3, <1>4, <1>5, Zenon
<1>7. ASSUME NEW i \in L
      PROVE  N(i, m + 1) = D(i, m + 1) + CountIn(L, i, m + 1)
  <2>1. CASE i = m + 1
    <3>1. N(m + 1, m + 1) = 0 /\ D(m + 1, m + 1) = 0 /\ CountIn(L, m + 1, m + 1) = 0
      <4> HIDE DEF L
      <4> QED
        BY <1>0, CountNone
    <3> HIDE DEF L, D, N
    <3>2. 0 = 0 + 0
      OBVIOUS
    <3> QED
      BY <2>1, <3>1, <3>2, Zenon
  <2>2. CASE i # m + 1
    <3>1. i \in K
      BY <1>6, <2>2, Zenon
    <3>2. i \in Nat /\ i <= m
      BY <1>0, <3>1, Zenon
    <3> HIDE DEF K, L
    <3>3. CountIn(L, i, m + 1) = CountIn(L, i, m) + 1
      BY <1>5, <3>2, CountGrows
    <3>4. \A l \in i + 1 .. m : l \in L <=> l \in K
      <4>1. \A l \in i + 1 .. m : l # m + 1
        BY <3>2
      <4> QED
        BY <1>6, <4>1, Zenon
    <3>5. CountIn(L, i, m) = CountIn(K, i, m)
      BY <3>2, <3>4, CountSame, Zenon
    <3> HIDE DEF D, N
    <3> QED
      BY <1>2, <3>1, <3>3, <3>5
  <2> QED
    BY <2>1, <2>2
<1>8. Balanced(segs, m + 1)
  BY <1>7, Zenon DEF Balanced
<1> QED
  BY <1>6, <1>8

LEMMA DotChangesNothing ==
  ASSUME NEW segs, NEW m \in Nat, Balanced(segs, m), segs[m + 1] = Dot
  PROVE  KeptUpTo(segs, m + 1) = KeptUpTo(segs, m) /\ Balanced(segs, m + 1)
<1> DEFINE K == KeptUpTo(segs, m)
           L == KeptUpTo(segs, m + 1)
           D(i, j) == CountIn(DotsOf(segs), i, j)
           N(i, j) == CountIn(NamesOf(segs), i, j)
<1>0. /\ \A i \in K : i \in 1 .. m /\ i \in Nat /\ i <= m
      /\ \A i \in L : i \in 1 .. m \/ i = m + 1
      /\ m + 1 \in Nat
  <2>1. \A i \in K : i \in 1 .. m
    BY Zenon DEF KeptUpTo
  <2>2. \A i \in L : i \in 1 .. m + 1
    BY Zenon DEF KeptUpTo
  <2> HIDE DEF K, L
  <2> QED
    BY <2>1, <2>2
<1>1. segs[m + 1] # DotDot /\ segs[m + 1] \in {Dot, DotDot}
  BY DotsDiffer
<1>2. ASSUME NEW i \in K
      PROVE  /\ N(i, m) = D(i, m) + CountIn(K, i, m) /\ CountIn(K, i, m) \in Nat
             /\ D(i, m) \in Nat /\ D(i, m + 1) = D(i, m) /\ N(i, m + 1) = N(i, m)
  <2>1. N(i, m) = D(i, m) + CountIn(K, i, m)
    BY Zenon DEF Balanced
  <2>2. i \in 1 .. m /\ i \in Nat
    BY <1>0
  <2>3. CountIn(K, i, m) \in Nat /\ D(i, m) \in Nat
    <3> HIDE DEF K
    <3> QED
      BY <2>2, CountIsNat
  <2> QED
    BY <1>1, <2>1, <2>2, <2>3, OneMorePiece, Zenon
<1>3. \A i \in K : i \in L
  <2>1. ASSUME NEW i \in K
        PROVE  i \in L
    <3> HIDE DEF K
    <3>1. D(i, m + 1) <= N(i, m + 1)
      <4> HIDE DEF D, N
      <4> QED
        BY <1>2
    <3>2. i \in 1 .. m /\ i \in KeptUpTo(segs, m)
      BY <1>0 DEF K
    <3> QED
      BY <3>1, <3>2, OneMorePiece, Zenon
  <2> QED
    BY <2>1
<1>4. \A i \in 1 .. m : i \in L => i \in K
  BY OneMorePiece, Zenon
<1>5. m + 1 \notin L
  BY <1>1, LastPiece, Zenon
<1>6. L = K
  <2> HIDE DEF K, L
  <2> QED
    BY <1>0, <1>3, <1>4, <1>5, Zenon
<1>7. ASSUME NEW i \in L
      PROVE  N(i, m + 1) = D(i, m + 1) + CountIn(L, i, m + 1)
  <2>1. i \in K /\ i \in Nat /\ i <= m
    BY <1>0, <1>6, Zenon
  <2> HIDE DEF K, L
  <2>2. CountIn(L, i, m + 1) = CountIn(L, i, m)
    BY <1>5, <2>1, CountGrows
  <2> HIDE DEF D, N
  <2> QED
    BY <1>2, <1>6, <2>1, <2>2
<1>8. Balanced(segs, m + 1)
  BY <1>7, Zenon DEF Balanced
<1> QED
  BY <1>6, <1>8

\* The last name that stays is taken away.
LEMMA DotDotTakesLast ==
  ASSUME NEW segs, NEW m \in Nat, Balanced(segs, m), segs[m + 1] = DotDot
  PROVE  /\ Balanced(segs, m + 1)
         /\ KeptUpTo(segs, m) = {} => KeptUpTo(segs, m + 1) = {}
         /\ KeptUpTo(segs, m) # {} =>
              KeptUpTo(segs, m + 1) = KeptUpTo(segs, m) \ {Max(KeptUpTo(segs, m))}
<1> DEFINE K == KeptUpTo(segs, m)
           L == KeptUpTo(segs, m + 1)
           D(i, j) == CountIn(DotsOf(segs), i, j)
           N(i, j) == CountIn(NamesOf(segs), i, j)
<1>0. /\ \A i \in K : i \in 1 .. m /\ i \in Nat /\ i <= m
      /\ \A i \in L : i \in 1 .. m \/ i = m + 1
      /\ m + 1 \in Nat
  <2>1. \A i \in K : i \in 1 .. m
    BY Zenon DEF KeptUpTo
  <2>2. \A i \in L : i \in 1 .. m + 1
    BY Zenon DEF KeptUpTo
  <2> HIDE DEF K, L
  <2> QED
    BY <2>1, <2>2
<1>1. segs[m + 1] = DotDot /\ segs[m + 1] \in {Dot, DotDot}
  BY Zenon
<1>2. ASSUME NEW i \in K
      PROVE  /\ N(i, m) = D(i, m) + CountIn(K, i, m) /\ CountIn(K, i, m) \in Nat
             /\ D(i, m) \in Nat /\ D(i, m + 1) = D(i, m) + 1 /\ N(i, m + 1) = N(i, m)
  <2>1. N(i, m) = D(i, m) + CountIn(K, i, m)
    BY Zenon DEF Balanced
  <2>2. i \in 1 .. m /\ i \in Nat
    BY <1>0
  <2>3. CountIn(K, i, m) \in Nat /\ D(i, m) \in Nat
    <3> HIDE DEF K
    <3> QED
      BY <2>2, CountIsNat
  <2> QED
    BY <1>1, <2>1, <2>2, <2>3, OneMorePiece, Zenon
<1>3. \A i \in K : i \in L <=> CountIn(K, i, m) # 0
  <2>1. ASSUME NEW i \in K
        PROVE  i \in L <=> CountIn(K, i, m) # 0
    <3> HIDE DEF K
    <3>1. D(i, m + 1) <= N(i, m + 1) <=> CountIn(K, i, m) # 0
      <4> HIDE DEF D, N
      <4> QED
        BY <1>2
    <3>2. i \in 1 .. m /\ i \in KeptUpTo(segs, m)
      BY <1>0 DEF K
    <3> QED
      BY <3>1, <3>2, OneMorePiece, Zenon
  <2> QED
    BY <2>1
<1>4. \A i \in 1 .. m : i \in L => i \in K
  BY OneMorePiece, Zenon
<1>5. m + 1 \notin L
  BY <1>1, LastPiece, Zenon
<1>6. \A i \in L : i \in K
  <2> HIDE DEF K, L
  <2> QED
    BY <1>0, <1>4, <1>5, Zenon
<1>7. CASE K = {}
  <2>1. L = {}
    <3> HIDE DEF K, L
    <3> QED
      BY <1>6, <1>7, Zenon
  <2>2. Balanced(segs, m + 1)
    BY <2>1, Zenon DEF Balanced
  <2> QED
    BY <1>7, <2>1, <2>2
<1>8. CASE K # {}
  <2> DEFINE x == Max(K)
  <2>1. x \in K /\ \A k \in K : k <= x
    <3>1. K \in SUBSET (0 .. m) /\ 0 \in Int /\ m \in Int
      BY <1>0
    <3> HIDE DEF K
    <3> QED
      BY <1>8, <3>1, MaxIsGreatest, Zenon
  <2> HIDE DEF x
  <2>2. x \in Nat /\ x <= m
    BY <1>0, <2>1, Zenon
  <2>3. CountIn(K, x, m) = 0
    <3>1. \A l \in x + 1 .. m : l \notin K
      <4>1. \A l \in x + 1 .. m : ~(l <= x)
        BY <2>2
      <4> QED
        BY <2>1, <4>1, Zenon
    <3> HIDE DEF K
    <3> QED
      BY <2>2, <3>1, CountNone, Zenon
  <2>4. ASSUME NEW i \in K, i # x
        PROVE  i \in Nat /\ i <= m /\ x \in i + 1 .. m /\ CountIn(K, i, m) = CountIn(K \ {x}, i, m) + 1
               /\ CountIn(K \ {x}, i, m) \in Nat
    <3>1. i \in Nat /\ i <= m /\ i <= x
      BY <1>0, <2>1, <2>4, Zenon
    <3>2. x \in i + 1 .. m
      BY <2>2, <2>4, <3>1
    <3> DEFINE M == K \ {x}
    <3>3. CountIn(K, i, m) = CountIn(M, i, m) + 1
      <4> HIDE DEF K
      <4> QED
        BY <2>1, <3>1, <3>2, CountWithout, ZenonT(40)
    <3>4. CountIn(M, i, m) \in Nat
      <4> HIDE DEF M
      <4> QED
        BY <3>1, CountIsNat
    <3> QED
      BY <3>1, <3>2, <3>3, <3>4
  <2>5. L = K \ {x}
    <3> HIDE DEF K, L
    <3>1. \A i \in K : i # x => CountIn(K, i, m) # 0
      <4>1. ASSUME NEW i \in K, i # x
            PROVE  CountIn(K, i, m) # 0
        BY <2>4, <4>1
      <4> QED
        BY <4>1
    <3> QED
      BY <1>3, <1>6, <2>1, <2>3, <3>1, Zenon
  <2>6. ASSUME NEW i \in L
        PROVE  N(i, m + 1) = D(i, m + 1) + CountIn(L, i, m + 1)
    <3> HIDE DEF K, L
    <3>1. i \in K /\ i # x
      BY <2>5
    <3>2. i \in Nat /\ i <= m /\ CountIn(K, i, m) = CountIn(L, i, m) + 1 /\ CountIn(L, i, m) \in Nat
      BY <2>4, <2>5, <3>1, Zenon
    <3>3. CountIn(L, i, m + 1) = CountIn(L, i, m)
      BY <1>5, <3>2, CountGrows
    <3> HIDE DEF D, N
    <3> QED
      BY <1>2, <3>1, <3>2, <3>3
  <2>7. Balanced(segs, m + 1)
    BY <2>6, Zenon DEF Balanced
  <2> QED
    BY <1>8, <2>5, <2>7 DEF x
<1> QED
  BY <1>7, <1>8

--------------------------------------------------------------------------------
(* Taking the dots out.                                                    *)

\* One turn of the loop of Collected.
Collecting(before, seg) ==
  IF before.full \/ seg = Dot THEN before
  ELSE IF seg = DotDot THEN [before EXCEPT !.path = Parent(@)]
  ELSE IF Len(before.path) + Len(seg) + 2 < PathMax
       THEN [before EXCEPT !.path = @ \o seg \o <<"/">>]
       ELSE [before EXCEPT !.full = TRUE]

Open(path) == [path |-> path, full |-> FALSE]

LEMMA OtherPath ==
  \A old, new, full :
    [[path |-> old, full |-> full] EXCEPT !.path = new] = [path |-> new, full |-> full]
OBVIOUS

LEMMA CollectingIs ==
  ASSUME NEW path, NEW seg
  PROVE  /\ seg = Dot => Collecting(Open(path), seg) = Open(path)
         /\ seg = DotDot => Collecting(Open(path), seg) = Open(Parent(path))
         /\ seg \notin {Dot, DotDot} /\ Len(path) + Len(seg) + 2 < PathMax =>
              Collecting(Open(path), seg) = Open((path \o seg) \o Root)
<1>1. ~Open(path).full /\ Open(path).path = path
  BY DEF Open
<1>2. ASSUME NEW p
      PROVE  [Open(path) EXCEPT !.path = p] = Open(p)
  BY OtherPath, Zenon DEF Open
<1>3. seg = Dot => Collecting(Open(path), seg) = Open(path)
  BY Zenon DEF Collecting
<1>4. ASSUME seg = DotDot
      PROVE  Collecting(Open(path), seg) = Open(Parent(path))
  <2>1. Collecting(Open(path), seg) = [Open(path) EXCEPT !.path = Parent(Open(path).path)]
    BY <1>1, <1>4, DotsDiffer, Zenon DEF Collecting
  <2> QED
    BY <1>1, <1>2, <2>1, Zenon
<1>5. ASSUME seg \notin {Dot, DotDot}, Len(path) + Len(seg) + 2 < PathMax
      PROVE  Collecting(Open(path), seg) = Open((path \o seg) \o Root)
  <2>1. seg # Dot /\ seg # DotDot
    BY <1>5, Zenon
  <2>2. Collecting(Open(path), seg) = [Open(path) EXCEPT !.path = (Open(path).path \o seg) \o <<"/">>]
    BY <1>1, <1>5, <2>1, Zenon DEF Collecting
  <2> QED
    BY <1>1, <1>2, <2>2, Zenon DEF Root
<1> QED
  BY <1>3, <1>4, <1>5, Zenon

\* The names that stay of the first m pieces.
Stack(segs, m) == Picked(segs, KeptUpTo(segs, m))

LEMMA StackIsNames ==
  ASSUME NEW segs \in Seq(PathNames), NEW m \in 0 .. Len(segs)
  PROVE  Stack(segs, m) \in Seq(PathNames) /\ KeptUpTo(segs, m) \in SUBSET (1 .. Len(segs))
<1> DEFINE K == KeptUpTo(segs, m)
           n == Len(segs)
<1>1. n \in Nat
  BY NamesAre
<1>2. K \in SUBSET (1 .. m)
  BY Zenon DEF KeptUpTo
<1>3. K \in SUBSET (1 .. n) /\ \A k \in K : segs[k] \in PathNames
  <2> HIDE DEF K
  <2> QED
    BY <1>1, <1>2
<1> HIDE DEF K, n
<1>4. ArePicked(Picked(segs, K), segs, K, PathNames)
  BY <1>1, <1>3, PickedAre
<1> QED
  BY <1>3, <1>4 DEF ArePicked, Stack, K, n

LEMMA StackGrows ==
  ASSUME NEW segs \in Seq(PathNames), NEW m \in Nat, m + 1 <= Len(segs), Balanced(segs, m)
  PROVE  /\ Balanced(segs, m + 1)
         /\ segs[m + 1] = Dot => Stack(segs, m + 1) = Stack(segs, m)
         /\ segs[m + 1] \notin {Dot, DotDot} => Stack(segs, m + 1) = Append(Stack(segs, m), segs[m + 1])
         /\ segs[m + 1] = DotDot =>
              \/ Stack(segs, m) = <<>> /\ Stack(segs, m + 1) = <<>>
              \/ \E x \in PathNames : Stack(segs, m) = Append(Stack(segs, m + 1), x)
<1> DEFINE K == KeptUpTo(segs, m)
           L == KeptUpTo(segs, m + 1)
           n == Len(segs)
<1>1. n \in Nat /\ m \in 0 .. n /\ m + 1 \in 1 .. n
  BY NamesAre
<1>2. K \in SUBSET (1 .. m)
  BY Zenon DEF KeptUpTo
<1>3. CASE segs[m + 1] = Dot
  <2>1. L = K /\ Balanced(segs, m + 1)
    BY <1>3, DotChangesNothing
  <2> QED
    BY <1>3, <2>1, DotsDiffer, Zenon DEF Stack
<1>4. CASE segs[m + 1] \notin {Dot, DotDot}
  <2>1. L = K \union {m + 1} /\ Balanced(segs, m + 1)
    BY <1>4, NameStays
  <2> HIDE DEF K, L
  <2>2. m + 1 \in Nat \ {0} /\ K \in SUBSET (1 .. (m + 1) - 1)
    BY <1>2
  <2>3. Picked(segs, K \union {m + 1}) = Append(Picked(segs, K), segs[m + 1])
    BY <2>2, PickedMore, Zenon
  <2>4. Stack(segs, m + 1) = Append(Stack(segs, m), segs[m + 1])
    BY <2>1, <2>3, Zenon DEF Stack, K, L
  <2> QED
    BY <1>4, <2>1, <2>4, Zenon
<1>5. CASE segs[m + 1] = DotDot
  <2>1. /\ Balanced(segs, m + 1)
        /\ K = {} => L = {}
        /\ K # {} => L = K \ {Max(K)}
    BY <1>5, DotDotTakesLast
  <2>2. CASE K = {}
    <3>1. Stack(segs, m) = <<>> /\ Stack(segs, m + 1) = <<>>
      BY <2>1, <2>2, PickedNone, Zenon DEF Stack
    <3> QED
      BY <1>5, <2>1, <3>1, DotsDiffer, Zenon
  <2>3. CASE K # {}
    <3> DEFINE x == Max(K)
    <3> HIDE DEF K
    <3>1. x \in 1 .. m /\ x \in K /\ K \ {x} \in SUBSET (1 .. x - 1)
      BY <1>2, <2>3, GreatestPlace, Zenon
    <3> HIDE DEF x
    <3>2. x \in Nat \ {0} /\ x \in 1 .. n
      BY <1>1, <3>1
    <3> DEFINE M == K \ {x}
    <3>3. M \union {x} = K
      BY <3>1
    <3>4. Picked(segs, M \union {x}) = Append(Picked(segs, M), segs[x])
      BY <3>1, <3>2, PickedMore, Zenon
    <3>5. L = M
      BY <2>1, <2>3 DEF x
    <3> HIDE DEF M, L
    <3>6. Stack(segs, m) = Append(Stack(segs, m + 1), segs[x])
      BY <3>3, <3>4, <3>5, Zenon DEF Stack, K, L
    <3>7. segs[x] \in PathNames
      BY <3>2, NamesAre DEF n
    <3> QED
      BY <1>5, <2>1, <3>6, <3>7, DotsDiffer, Zenon
  <2> QED
    BY <2>2, <2>3
<1> QED
  BY <1>3, <1>4, <1>5, Zenon

\* One turn of the loop joins the names that stay.
LEMMA CollectingJoins ==
  ASSUME NEW segs \in Seq(PathNames), NEW m \in Nat, m + 1 <= Len(segs), Balanced(segs, m),
         Len(Joined(Stack(segs, m))) + Len(segs[m + 1]) + 2 < PathMax
  PROVE  /\ Collecting(Open(Joined(Stack(segs, m))), segs[m + 1]) = Open(Joined(Stack(segs, m + 1)))
         /\ Len(Joined(Stack(segs, m + 1))) <= Len(Joined(Stack(segs, m))) + Len(segs[m + 1]) + 1
<1> DEFINE s == Stack(segs, m)
           t == Stack(segs, m + 1)
           seg == segs[m + 1]
<1>1. m \in 0 .. Len(segs) /\ m + 1 \in 0 .. Len(segs) /\ m + 1 \in 1 .. Len(segs)
  BY NamesAre
<1>2. s \in Seq(PathNames) /\ t \in Seq(PathNames) /\ seg \in PathNames /\ seg \in Chars
  BY <1>1, StackIsNames, NamesAre
<1>3. /\ seg = Dot => t = s
      /\ seg \notin {Dot, DotDot} => t = Append(s, seg)
      /\ seg = DotDot => (s = <<>> /\ t = <<>>) \/ \E x \in PathNames : s = Append(t, x)
  BY StackGrows
<1>4. Len(Joined(s)) + Len(seg) + 2 < PathMax
  OBVIOUS
<1> HIDE DEF s, t, seg
<1>5. Joined(s) \in Chars /\ Joined(t) \in Chars /\ ReadsAs(Joined(t), t)
  BY <1>2, JoiningIs, JoinedReadsAs
<1>6. Len(Joined(s)) \in Nat /\ Len(Joined(t)) \in Nat /\ Len(seg) \in Nat
  BY <1>2, <1>5, TextLength
<1>7. CASE seg = Dot
  <2>1. Collecting(Open(Joined(s)), seg) = Open(Joined(s))
    BY <1>7, CollectingIs, Zenon
  <2>2. t = s
    BY <1>3, <1>7
  <2>3. Len(Joined(s)) <= Len(Joined(s)) + Len(seg) + 1
    BY <1>6
  <2> QED
    BY <2>1, <2>2, <2>3, Zenon DEF s, t, seg
<1>8. CASE seg \notin {Dot, DotDot}
  <2>1. t = Append(s, seg)
    BY <1>3, <1>8, Zenon
  <2>2. Joined(t) = (Joined(s) \o seg) \o Root
    BY <1>2, <2>1, JoinedMore, Zenon
  <2>3. Collecting(Open(Joined(s)), seg) = Open(Joined(t))
    BY <1>4, <1>8, <2>2, CollectingIs, Zenon
  <2>4. Len(Joined(t)) <= Len(Joined(s)) + Len(seg) + 1
    <3> DEFINE p == Joined(s) \o seg
    <3>1. p \in Chars /\ Len(p) = Len(Joined(s)) + Len(seg)
      BY <1>2, <1>5, JoinIs, Zenon
    <3>2. Root \in Chars /\ Len(Root) = 1
      BY SchemeIs DEF Root
    <3> HIDE DEF p
    <3>3. Len(p \o Root) = Len(p) + Len(Root)
      BY <3>1, <3>2, JoinIs, Zenon
    <3>4. Len(Joined(t)) = Len(p) + Len(Root)
      BY <2>2, <3>3, Zenon DEF p
    <3> QED
      BY <1>6, <3>1, <3>2, <3>4
  <2> QED
    BY <2>3, <2>4, Zenon DEF s, t, seg
<1>9. CASE seg = DotDot
  <2>1. Collecting(Open(Joined(s)), seg) = Open(Parent(Joined(s)))
    BY <1>9, CollectingIs, Zenon
  <2>2. Parent(Joined(s)) = Joined(t) /\ Len(Joined(t)) <= Len(Joined(s)) + Len(seg) + 1
    <3>1. CASE s = <<>> /\ t = <<>>
      <4>1. Parent(Joined(s)) = Joined(t)
        BY <3>1, JoinedNone, ParentIs, Zenon
      <4>2. Len(Joined(t)) = Len(Joined(s))
        BY <3>1, Zenon
      <4> QED
        BY <1>6, <4>1, <4>2
    <3>2. CASE \E x \in PathNames : s = Append(t, x)
      <4>1. PICK x \in PathNames : s = Append(t, x)
        BY <3>2
      <4>2. Joined(s) = (Joined(t) \o x) \o Root
        BY <1>2, <4>1, JoinedMore, Zenon
      <4>3. Parent(Joined(s)) = Joined(t)
        BY <1>5, <4>2, ParentIs, Zenon
      <4> DEFINE p == Joined(t) \o x
      <4>4. x \in Chars
        BY Zenon DEF PathNames
      <4>5. p \in Chars /\ Len(p) = Len(Joined(t)) + Len(x)
        BY <1>5, <4>4, JoinIs, Zenon
      <4>6. Len(x) \in Nat /\ Root \in Chars /\ Len(Root) = 1
        BY <4>4, TextLength, SchemeIs DEF Root
      <4> HIDE DEF p
      <4>7. Len(p \o Root) = Len(p) + Len(Root)
        BY <4>5, <4>6, JoinIs, Zenon
      <4>8. Len(Joined(s)) = Len(p) + Len(Root)
        BY <4>2, <4>7, Zenon DEF p
      <4> QED
        BY <1>6, <4>3, <4>5, <4>6, <4>8
    <3> QED
      BY <1>3, <1>9, <3>1, <3>2, Zenon
  <2> QED
    BY <2>1, <2>2, Zenon DEF s, t, seg
<1> QED
  BY <1>7, <1>8, <1>9, Zenon

\* How long joined names are.
LEMMA LongerJoined ==
  ASSUME NEW names \in Seq(PathNames), NEW x \in PathNames
  PROVE  /\ Len(Joined(Append(names, x))) = Len(Joined(names)) + Len(x) + 1
         /\ Len(Joined(names)) \in Nat /\ Len(x) \in Nat
<1> DEFINE p == Joined(names) \o x
<1>1. Joined(names) \in Chars /\ x \in Chars /\ Root \in Chars /\ Len(Root) = 1
  BY JoiningIs, SchemeIs DEF Root, PathNames
<1>2. Len(Joined(names)) \in Nat /\ Len(x) \in Nat
  BY <1>1, TextLength
<1>3. p \in Chars /\ Len(p) = Len(Joined(names)) + Len(x)
  BY <1>1, JoinIs, Zenon
<1>4. Joined(Append(names, x)) = p \o Root
  BY JoinedMore
<1> HIDE DEF p
<1>5. Len(p \o Root) = Len(p) + Len(Root)
  BY <1>1, <1>3, JoinIs, Zenon
<1> QED
  BY <1>1, <1>2, <1>3, <1>4, <1>5

\* The names of a path are not longer than the path.
LEMMA NamesFitPath ==
  ASSUME NEW s \in Chars, Len(s) >= 1, s[1] = "/"
  PROVE  Len(Joined(Segments(s))) <= Len(s) + 1
<1> DEFINE Part(k) == SubSeq(s, 1, k)
           Read(k) == ReadOf(Part(k))
           Right(k) == Len(Joined(Read(k).done)) + Len(Read(k).word) <= k
           n == Len(s)
           Wrong == {k \in 1 .. n : ~Right(k)}
<1>1. n \in Nat /\ s \in Seq(Letters) /\ Part(n) = s /\ \A k \in 0 .. n : Part(k) \in Seq(Letters)
  BY TextLength DEF Chars
<1>2. \A k \in 0 .. n : Read(k) \in Reads
  <2> HIDE DEF Part
  <2> QED
    BY <1>1, ReadingIs, Zenon DEF Chars
<1>3. Right(1)
  <2>1. Part(1) = Root
    <3> DEFINE p == Part(1)
               r == Root
               slash == "/"
    <3>1. p \in Seq(Letters) /\ Len(p) = 1 /\ p[1] = slash
      BY <1>1
    <3>2. r \in Seq(Letters) /\ Len(r) = 1 /\ r[1] = slash
      BY SchemeIs DEF Root, Chars
    <3> HIDE DEF p, r, slash
    <3>3. p = r
      BY <3>1, <3>2
    <3> QED
      BY <3>3 DEF p, r
  <2>2. Read(1) = [done |-> <<>>, word |-> <<>>]
    BY <2>1, RootReadsAs, Zenon DEF ReadsAs
  <2>3. Read(1).done = <<>> /\ Read(1).word = <<>>
    <3> HIDE DEF Read
    <3> QED
      BY <2>2
  <2>4. Len(Joined(<<>>)) = 1 /\ Len(<<>>) = 0 /\ 1 + 0 <= 1
    BY JoinedNone, SchemeIs DEF Root
  <2> QED
    BY <2>3, <2>4, Zenon
<1>4. ASSUME NEW k \in 1 .. n - 1, Right(k)
      PROVE  Right(k + 1)
  <2> DEFINE p == Part(k)
             c == s[k + 1]
             r == Read(k)
             d == r.done
             w == r.word
  <2>1. p \in Seq(Letters) /\ Part(k + 1) = Append(p, c) /\ c \in Letters /\ k \in 0 .. n /\ k \in Nat
    BY <1>1
  <2>2. r \in Reads
    BY <1>2, <2>1
  <2>3. Len(Joined(d)) + Len(w) <= k
    BY <1>4
  <2>4. Read(k + 1) = ReadOn(r, c)
    <3> HIDE DEF p, c
    <3>1. p \in Chars
      BY <2>1 DEF Chars
    <3> QED
      BY <2>1, <3>1, ReadOfMore, Zenon DEF p
  <2> HIDE DEF r, c, p, Read
  <2>5. d \in Seq(PathNames) /\ w \in Chars /\ Lacks(w, "/")
    BY <2>2 DEF Reads
  <2> HIDE DEF d, w
  <2>6. Joined(d) \in Chars
    BY <2>5, JoiningIs
  <2>7. Len(Joined(d)) \in Nat /\ Len(w) \in Nat
    BY <2>5, <2>6, TextLength
  <2>8. CASE c = "/"
    <3>1. Read(k + 1) = [done |-> Closing(r), word |-> <<>>]
      BY <2>4, <2>8, Zenon DEF ReadOn
    <3>2. Read(k + 1).done = Closing(r) /\ Read(k + 1).word = <<>>
      BY <3>1
    <3>3. Len(<<>>) = 0
      OBVIOUS
    <3>4. CASE w = <<>>
      <4>1. Closing(r) = d
        BY <3>4, Zenon DEF Closing, w, d
      <4>2. Len(Joined(d)) + 0 <= k + 1
        BY <2>1, <2>3, <2>7
      <4> QED
        BY <3>2, <3>3, <4>1, <4>2, Zenon
    <3>5. CASE w # <<>>
      <4>1. Closing(r) = Append(d, w)
        BY <3>5, Zenon DEF Closing, w, d
      <4>2. w \in PathNames
        BY <2>5, <3>5, Zenon DEF PathNames
      <4>3. Len(Joined(Append(d, w))) = Len(Joined(d)) + Len(w) + 1
        BY <2>5, <4>2, LongerJoined
      <4>4. Len(Joined(Append(d, w))) + 0 <= k + 1
        BY <2>1, <2>3, <2>7, <4>3
      <4> QED
        BY <3>2, <3>3, <4>1, <4>4, Zenon
    <3> QED
      BY <3>4, <3>5
  <2>9. CASE c # "/"
    <3>1. r = [done |-> d, word |-> w]
      BY <2>2 DEF Reads, d, w
    <3>2. Read(k + 1) = [r EXCEPT !.word = Append(w, c)]
      BY <2>4, <2>9, Zenon DEF ReadOn, w
    <3>3. Read(k + 1).done = d /\ Read(k + 1).word = Append(w, c)
      BY <3>1, <3>2
    <3>4. Len(Append(w, c)) = Len(w) + 1
      BY <2>5 DEF Chars
    <3>5. Len(Joined(d)) + (Len(w) + 1) <= k + 1
      BY <2>1, <2>3, <2>7
    <3> QED
      BY <3>3, <3>4, <3>5, Zenon
  <2> QED
    BY <2>8, <2>9
<1> HIDE DEF Right
<1>5. Wrong = {}
  <2>1. SUFFICES ASSUME Wrong # {} PROVE FALSE
    OBVIOUS
  <2>2. Wrong \in SUBSET Nat
    BY <1>1
  <2> DEFINE m == Min(Wrong)
  <2>3. m \in Wrong /\ \A k \in Wrong : m <= k
    <3> HIDE DEF Wrong
    <3> QED
      BY <2>1, <2>2, MinIsLeast, Zenon
  <2> HIDE DEF m
  <2>4. m \in 1 .. n /\ ~Right(m) /\ m # 1
    BY <1>3, <2>3
  <2>5. m - 1 \in 1 .. n - 1 /\ m - 1 \in 1 .. n /\ ~(m <= m - 1) /\ (m - 1) + 1 = m
    BY <1>1, <2>4
  <2>6. m - 1 \notin Wrong
    <3> HIDE DEF Wrong
    <3> QED
      BY <2>3, <2>5
  <2>7. Right(m - 1)
    BY <2>5, <2>6
  <2> DEFINE j == m - 1
  <2>8. j \in 1 .. n - 1 /\ Right(j) /\ j + 1 = m
    BY <2>5, <2>7
  <2> HIDE DEF j
  <2>9. Right(j + 1)
    BY <1>4, <2>8, Zenon
  <2> QED
    BY <2>4, <2>8, <2>9, Zenon
<1>6. Right(n)
  <2>1. n \in 1 .. n
    BY <1>1
  <2> QED
    BY <1>5, <2>1
<1> DEFINE r == ReadOf(s)
           d == r.done
           w == r.word
<1>7. Len(Joined(d)) + Len(w) <= n
  BY <1>1, <1>6, Zenon DEF Right
<1>8. r \in Reads /\ Segments(s) = Closing(r)
  BY ReadingIs, SegmentsAreRead
<1> HIDE DEF r
<1>9. d \in Seq(PathNames) /\ w \in Chars /\ Lacks(w, "/")
  BY <1>8 DEF Reads
<1> HIDE DEF d, w
<1>10. Joined(d) \in Chars
  BY <1>9, JoiningIs
<1>11. Len(Joined(d)) \in Nat /\ Len(w) \in Nat
  BY <1>9, <1>10, TextLength
<1>12. CASE w = <<>>
  <2>1. Segments(s) = d
    BY <1>8, <1>12, Zenon DEF Closing, d, w
  <2>2. Len(Joined(d)) <= n + 1
    BY <1>1, <1>7, <1>11
  <2> QED
    BY <2>1, <2>2, Zenon
<1>13. CASE w # <<>>
  <2>1. Segments(s) = Append(d, w)
    BY <1>8, <1>13, Zenon DEF Closing, d, w
  <2>2. w \in PathNames
    BY <1>9, <1>13, Zenon DEF PathNames
  <2>3. Len(Joined(Append(d, w))) = Len(Joined(d)) + Len(w) + 1
    BY <1>9, <2>2, LongerJoined
  <2>4. Len(Joined(Append(d, w))) <= n + 1
    BY <1>1, <1>7, <1>11, <2>3
  <2> QED
    BY <2>1, <2>4, Zenon
<1> QED
  BY <1>12, <1>13

\* Joining goes on name by name, each time longer.
LEMMA JoiningGrows ==
  ASSUME NEW names \in Seq(PathNames), NEW f, IsJoining(f, names)
  PROVE  /\ \A k \in 0 .. Len(names) : Len(f[k]) \in Nat /\ Len(f[k]) <= Len(f[Len(names)])
         /\ \A k \in 1 .. Len(names) : Len(f[k]) = Len(f[k - 1]) + Len(names[k]) + 1
         /\ f[0] = Root
<1> DEFINE n == Len(names)
<1>0. n \in Nat
  BY NamesAre
<1>1. f \in [0 .. n -> Chars] /\ f[0] = Root
      /\ \A k \in 1 .. n : f[k] = JoinSteps(names)[<<k, f[k - 1]>>]
  BY Zenon DEF IsJoining, IsRun
<1>2. \A k \in 0 .. n : f[k] \in Chars /\ Len(f[k]) \in Nat
  BY <1>1, TextLength
<1>3. ASSUME NEW k \in 1 .. n
      PROVE  Len(f[k]) = Len(f[k - 1]) + Len(names[k]) + 1 /\ Len(names[k]) \in Nat
  <2>1. k - 1 \in 0 .. n /\ k \in 0 .. n
    BY <1>0
  <2> DEFINE t == f[k - 1]
             x == names[k]
             p == t \o x
  <2>2. t \in Chars /\ x \in Chars /\ Root \in Chars /\ Len(Root) = 1
    BY <1>2, <2>1, NamesAre, SchemeIs DEF Root
  <2>3. f[k] = p \o Root
    BY <1>1, <2>2, JoinStepIs
  <2> HIDE DEF t, x
  <2>4. p \in Chars /\ Len(p) = Len(t) + Len(x)
    BY <2>2, JoinIs, Zenon
  <2> HIDE DEF p
  <2>5. Len(p \o Root) = Len(p) + Len(Root)
    BY <2>2, <2>4, JoinIs, Zenon
  <2>6. Len(x) \in Nat /\ Len(t) \in Nat
    BY <2>2, TextLength
  <2>7. Len(f[k]) = Len(t) + Len(x) + 1
    BY <2>4, <2>5, <2>6, <2>2, <2>3
  <2> QED
    BY <2>6, <2>7 DEF t, x
<1> DEFINE Right(m) == \A k \in 0 .. m : Len(f[k]) <= Len(f[m])
           Wrong == {m \in 0 .. n : ~Right(m)}
<1>4. Right(0)
  BY <1>0, <1>2
<1>5. ASSUME NEW m \in 1 .. n, Right(m - 1)
      PROVE  Right(m)
  <2>1. ASSUME NEW k \in 0 .. m
        PROVE  Len(f[k]) <= Len(f[m])
    <3>1. m \in 0 .. n /\ m - 1 \in 0 .. n /\ k \in 0 .. n /\ (k = m \/ k \in 0 .. m - 1)
      BY <1>0
    <3>2. Len(f[m]) = Len(f[m - 1]) + Len(names[m]) + 1 /\ Len(names[m]) \in Nat
      BY <1>3
    <3>3. k \in 0 .. m - 1 => Len(f[k]) <= Len(f[m - 1])
      BY <1>5
    <3>4. Len(f[m]) \in Nat /\ Len(f[m - 1]) \in Nat /\ Len(f[k]) \in Nat
      BY <1>2, <3>1
    <3> DEFINE a == Len(f[k])
               b == Len(f[m - 1])
               c == Len(f[m])
    <3>5. CASE k = m
      BY <3>4, <3>5
    <3>6. CASE k \in 0 .. m - 1
      <4>1. a <= b
        BY <3>3, <3>6
      <4>2. c = b + Len(names[m]) + 1 /\ Len(names[m]) \in Nat /\ a \in Nat /\ b \in Nat
        BY <3>2, <3>4
      <4> HIDE DEF a, b, c
      <4>3. a <= c
        BY <4>1, <4>2
      <4> QED
        BY <4>3 DEF a, c
    <3> QED
      BY <3>1, <3>5, <3>6
  <2> QED
    BY <2>1
<1> HIDE DEF Right
<1>6. Wrong = {}
  <2>1. SUFFICES ASSUME Wrong # {} PROVE FALSE
    OBVIOUS
  <2>2. Wrong \in SUBSET Nat
    BY <1>0
  <2> DEFINE m == Min(Wrong)
  <2>3. m \in Wrong /\ \A k \in Wrong : m <= k
    <3> HIDE DEF Wrong
    <3> QED
      BY <2>1, <2>2, MinIsLeast, Zenon
  <2> HIDE DEF m
  <2>4. m \in 0 .. n /\ ~Right(m) /\ m # 0
    BY <1>4, <2>3
  <2>5. m \in 1 .. n /\ m - 1 \in 0 .. n /\ ~(m <= m - 1)
    BY <1>0, <2>4
  <2>6. m - 1 \notin Wrong
    <3> HIDE DEF Wrong
    <3> QED
      BY <2>3, <2>5
  <2>7. Right(m - 1)
    BY <2>5, <2>6
  <2> QED
    BY <1>5, <2>4, <2>5, <2>7
<1>7. Right(n)
  <2>1. n \in 0 .. n
    BY <1>0
  <2> QED
    BY <1>6, <2>1
<1> QED
  BY <1>1, <1>2, <1>3, <1>7 DEF Right

\* The loop joins the names that stay, if all of them fit.
LEMMA CollectedIs ==
  ASSUME NEW segs \in Seq(PathNames), Len(Joined(segs)) + 1 < PathMax
  PROVE  Collected(segs) = Joined(Stack(segs, Len(segs)))
<1> DEFINE n == Len(segs)
           Rule(g, k) == IF k = 0 THEN [path |-> <<"/">>, full |-> FALSE]
                         ELSE Collecting(g[k - 1], segs[k])
           upTo == CHOOSE g : g = [k \in 0 .. n |-> Rule(g, k)]
           h == [k \in 0 .. n |-> Open(Joined(Stack(segs, k)))]
<1>0. n \in Nat /\ PathMax \in Nat
  BY NamesAre, UrlBounds
<1>1. Collected(segs) = upTo[n].path
  BY Zenon DEF Collected, Collecting
<1>2. PICK f : IsJoining(f, segs) /\ Joined(segs) = f[n]
  BY JoiningIs
<1>3. /\ \A k \in 0 .. n : Len(f[k]) \in Nat /\ Len(f[k]) <= Len(f[n])
      /\ \A k \in 1 .. n : Len(f[k]) = Len(f[k - 1]) + Len(segs[k]) + 1
      /\ f[0] = Root
  BY <1>2, JoiningGrows
<1>4. Len(f[n]) + 1 < PathMax
  BY <1>2
<1> DEFINE Right(k) == Balanced(segs, k) /\ Len(Joined(Stack(segs, k))) <= Len(f[k])
           Wrong == {k \in 0 .. n : ~Right(k)}
<1>5. Right(0) /\ Open(Joined(Stack(segs, 0))) = [path |-> <<"/">>, full |-> FALSE]
  <2>1. 1 .. 0 = {} /\ 0 \in 0 .. n
    BY <1>0
  <2>2. KeptUpTo(segs, 0) = {}
    BY <2>1, Zenon DEF KeptUpTo
  <2>3. Balanced(segs, 0)
    BY <2>2, Zenon DEF Balanced
  <2>4. Stack(segs, 0) = <<>>
    BY <2>2, PickedNone, Zenon DEF Stack
  <2>5. Joined(Stack(segs, 0)) = Root
    BY <2>4, JoinedNone, Zenon
  <2>6. Len(f[0]) \in Nat /\ f[0] = Root
    BY <1>3, <2>1
  <2>7. Len(Root) <= Len(f[0])
    BY <2>6
  <2> QED
    BY <2>3, <2>5, <2>7, Zenon DEF Open, Root
<1>6. ASSUME NEW k \in 1 .. n, Right(k - 1)
      PROVE  /\ Right(k)
             /\ Collecting(Open(Joined(Stack(segs, k - 1))), segs[k]) = Open(Joined(Stack(segs, k)))
  <2> DEFINE m == k - 1
             a == Len(f[m])
             x == Len(segs[k])
  <2>1. m \in Nat /\ m + 1 = k /\ m + 1 <= n /\ m \in 0 .. n /\ k \in 0 .. n
    BY <1>0
  <2>2. Balanced(segs, m) /\ Len(Joined(Stack(segs, m))) <= a
    BY <1>6
  <2>3. segs[k] \in Chars
    BY NamesAre
  <2>4. x \in Nat
    BY <2>3, TextLength
  <2>5. a \in Nat /\ Len(f[k]) <= Len(f[n]) /\ Len(f[k]) = a + x + 1 /\ Len(f[n]) \in Nat
    <3>1. n \in 0 .. n
      BY <1>0
    <3>2. Len(f[k]) = Len(f[k - 1]) + Len(segs[k]) + 1
      BY <1>3, Zenon
    <3> QED
      BY <1>3, <2>1, <3>1, <3>2, Zenon
  <2> HIDE DEF m, a
  <2>6. Stack(segs, m) \in Seq(PathNames) /\ Stack(segs, k) \in Seq(PathNames)
    BY <2>1, StackIsNames
  <2>7. Joined(Stack(segs, m)) \in Chars /\ Joined(Stack(segs, k)) \in Chars
    BY <2>6, JoiningIs
  <2>8. Len(Joined(Stack(segs, m))) \in Nat /\ Len(Joined(Stack(segs, k))) \in Nat
    BY <2>7, TextLength
  <2> HIDE DEF x
  <2>9. Len(Joined(Stack(segs, m))) + x + 2 < PathMax
    BY <1>0, <1>4, <2>2, <2>4, <2>5, <2>8
  <2>10. /\ Collecting(Open(Joined(Stack(segs, m))), segs[k]) = Open(Joined(Stack(segs, k)))
         /\ Len(Joined(Stack(segs, k))) <= Len(Joined(Stack(segs, m))) + x + 1
    BY <2>1, <2>2, <2>9, CollectingJoins, Zenon DEF x
  <2>11. Len(Joined(Stack(segs, k))) <= Len(f[k])
    BY <2>2, <2>4, <2>5, <2>8, <2>10
  <2>12. Balanced(segs, k)
    BY <2>1, <2>2, StackGrows, Zenon
  <2> QED
    BY <2>10, <2>11, <2>12, Zenon DEF m
<1> HIDE DEF Right
<1>7. Wrong = {}
  <2>1. SUFFICES ASSUME Wrong # {} PROVE FALSE
    OBVIOUS
  <2>2. Wrong \in SUBSET Nat
    BY <1>0
  <2> DEFINE m == Min(Wrong)
  <2>3. m \in Wrong /\ \A k \in Wrong : m <= k
    <3> HIDE DEF Wrong
    <3> QED
      BY <2>1, <2>2, MinIsLeast, Zenon
  <2> HIDE DEF m
  <2>4. m \in 0 .. n /\ ~Right(m) /\ m # 0
    BY <1>5, <2>3
  <2>5. m \in 1 .. n /\ m - 1 \in 0 .. n /\ ~(m <= m - 1)
    BY <1>0, <2>4
  <2>6. m - 1 \notin Wrong
    <3> HIDE DEF Wrong
    <3> QED
      BY <2>3, <2>5
  <2>7. Right(m - 1)
    BY <2>5, <2>6
  <2> QED
    BY <1>6, <2>4, <2>5, <2>7
<1>8. ASSUME NEW k \in 1 .. n
      PROVE  Collecting(Open(Joined(Stack(segs, k - 1))), segs[k]) = Open(Joined(Stack(segs, k)))
  <2>1. k - 1 \in 0 .. n
    BY <1>0
  <2>2. Right(k - 1)
    BY <1>7, <2>1
  <2> QED
    BY <1>6, <2>2, Zenon
<1>9. \A k \in 0 .. n : h[k] = Open(Joined(Stack(segs, k)))
  OBVIOUS
<1>10. h = [k \in 0 .. n |-> h[k]]
  OBVIOUS
<1> HIDE DEF h
<1>11. ASSUME NEW k \in 0 .. n
       PROVE  h[k] = Rule(h, k)
  <2>1. CASE k = 0
    BY <1>5, <1>9, <2>1, Zenon
  <2>2. CASE k # 0
    <3>1. k \in 1 .. n /\ k - 1 \in 0 .. n
      BY <1>0, <2>2
    <3> QED
      BY <1>8, <1>9, <2>2, <3>1, Zenon
  <2> QED
    BY <2>1, <2>2
<1> HIDE DEF Rule
<1>12. h = [k \in 0 .. n |-> Rule(h, k)]
  BY <1>10, <1>11
<1>13. upTo = [k \in 0 .. n |-> Rule(upTo, k)]
  BY <1>12, Zenon
<1> HIDE DEF upTo
<1>14. \A k \in 0 .. n : upTo[k] = Rule(upTo, k)
  BY <1>13, Zenon
<1>15. {k \in 0 .. n : upTo[k] # h[k]} = {}
  <2> DEFINE Off == {k \in 0 .. n : upTo[k] # h[k]}
             m == Min(Off)
  <2>1. SUFFICES ASSUME Off # {} PROVE FALSE
    OBVIOUS
  <2>2. Off \in SUBSET Nat
    BY <1>0
  <2>3. m \in Off /\ \A k \in Off : m <= k
    <3> HIDE DEF Off
    <3> QED
      BY <2>1, <2>2, MinIsLeast, Zenon
  <2> HIDE DEF m
  <2>4. m \in 0 .. n /\ upTo[m] # h[m]
    BY <2>3
  <2>5. CASE m = 0
    <3>1. Rule(upTo, m) = Rule(h, m)
      BY <2>5, Zenon DEF Rule
    <3> QED
      BY <1>11, <1>14, <2>4, <3>1, Zenon
  <2>6. CASE m # 0
    <3>1. m - 1 \in 0 .. n /\ ~(m <= m - 1)
      BY <1>0, <2>4, <2>6
    <3>2. m - 1 \notin Off
      <4> HIDE DEF Off
      <4> QED
        BY <2>3, <3>1
    <3>3. upTo[m - 1] = h[m - 1]
      BY <3>1, <3>2
    <3>4. Rule(upTo, m) = Rule(h, m)
      BY <3>3, Zenon DEF Rule
    <3> QED
      BY <1>11, <1>14, <2>4, <3>4, Zenon
  <2> QED
    BY <2>5, <2>6
<1>16. n \in 0 .. n
  BY <1>0
<1>17. upTo[n] = Open(Joined(Stack(segs, n)))
  BY <1>9, <1>15, <1>16
<1>18. Open(Joined(Stack(segs, n))).path = Joined(Stack(segs, n))
  BY DEF Open
<1> QED
  BY <1>1, <1>17, <1>18, Zenon

\* The dots of a path are taken out as they should be.
LEMMA PathsAreNormalized ==
  ASSUME NEW path \in Chars, path # <<>>, path[1] = "/"
  PROVE  NormalizedIsRight(path)
<1> DEFINE segs == Segments(path)
           n == Len(segs)
           names == Stack(segs, n)
           out == Collected(segs)
           last == path[Len(path)]
<1>1. SUFFICES ASSUME Len(path) + 2 < PathMax
               PROVE  /\ OccursIn(Normalized(path), <<"/">>, 1)
                      /\ Segments(Normalized(path)) = Staying(segs)
                      /\ Staying(segs) # <<>> =>
                           (Normalized(path)[Len(Normalized(path))] = "/" <=> last = "/")
  BY Zenon DEF NormalizedIsRight
<1>2. Len(path) \in Nat /\ Len(path) >= 1 /\ PathMax \in Nat
  BY UrlBounds DEF Chars
<1>3. segs \in Seq(PathNames)
  BY SegmentsAreRead
<1>4. Len(Joined(segs)) <= Len(path) + 1
  BY <1>2, NamesFitPath
<1> HIDE DEF segs
<1>5. n \in Nat /\ DOMAIN segs = 1 .. n
  BY <1>3
<1>6. Len(Joined(segs)) + 1 < PathMax
  <2>1. Joined(segs) \in Chars
    BY <1>3, JoiningIs
  <2>2. Len(Joined(segs)) \in Nat
    BY <2>1, TextLength
  <2> QED
    BY <1>1, <1>2, <1>4, <2>2
<1>7. out = Joined(names)
  BY <1>3, <1>6, CollectedIs
<1>8. Staying(segs) = names
  BY <1>5, StaysIs, Zenon DEF Stack
<1>9. names \in Seq(PathNames)
  <2>1. n \in 0 .. n
    BY <1>5
  <2> QED
    BY <1>3, <2>1, StackIsNames
<1>10. Normalized(path) = IF Len(out) > 1 /\ last # "/" THEN SubSeq(out, 1, Len(out) - 1) ELSE out
  BY Zenon DEF Normalized, segs
<1> HIDE DEF names, out
<1>11. ReadsAs(out, names)
  BY <1>7, <1>9, JoinedReadsAs
<1>12. out \in Chars /\ Len(out) >= 1 /\ out[1] = "/" /\ out[Len(out)] = "/"
       /\ ReadOf(out) = [done |-> names, word |-> <<>>]
  BY <1>11, Zenon DEF ReadsAs
<1>13. ASSUME NEW p \in Chars, Len(p) >= 1, p[1] = "/"
       PROVE  OccursIn(p, <<"/">>, 1)
  <2>1. Len(<<"/">>) = 1 /\ DOMAIN <<"/">> = {1} /\ <<"/">>[1] = "/" /\ 1 + 1 - 1 = 1
    OBVIOUS
  <2>2. 1 + 1 - 1 <= Len(p)
    BY <1>13, TextLength
  <2> QED
    BY <1>13, <2>1, <2>2, Zenon DEF OccursIn
<1>14. CASE ~(Len(out) > 1 /\ last # "/")
  <2>1. Normalized(path) = out
    BY <1>10, <1>14, Zenon
  <2>2. Segments(out) = names
    <3>1. Closing([done |-> names, word |-> <<>>]) = names
      BY DEF Closing
    <3> QED
      BY <1>12, <3>1, SegmentsAreRead, Zenon
  <2>3. names # <<>> => last = "/"
    <3>1. SUFFICES ASSUME names # <<>> PROVE Len(out) > 1
      BY <1>14, Zenon
    <3> DEFINE x == names[Len(names)]
               rest == SubSeq(names, 1, Len(names) - 1)
    <3>2. x \in PathNames /\ rest \in Seq(PathNames) /\ names = Append(rest, x)
      BY <1>9, <3>1
    <3> HIDE DEF x, rest
    <3>3. /\ Len(Joined(Append(rest, x))) = Len(Joined(rest)) + Len(x) + 1
          /\ Len(Joined(rest)) \in Nat /\ Len(x) \in Nat
      BY <3>2, LongerJoined
    <3>4. Len(x) # 0
      <4>1. x \in Chars /\ x # <<>>
        BY <3>2, Zenon DEF PathNames
      <4> QED
        BY <4>1 DEF Chars
    <3>5. Len(out) = Len(Joined(rest)) + Len(x) + 1
      BY <1>7, <3>2, <3>3, Zenon
    <3> QED
      BY <3>3, <3>4, <3>5
  <2> QED
    BY <1>8, <1>12, <1>13, <2>1, <2>2, <2>3, Zenon
<1>15. CASE Len(out) > 1 /\ last # "/"
  <2> DEFINE p == SubSeq(out, 1, Len(out) - 1)
  <2>1. Normalized(path) = p
    BY <1>10, <1>15, Zenon
  <2>2. names # <<>>
    <3>1. SUFFICES ASSUME names = <<>> PROVE FALSE
      OBVIOUS
    <3>2. out = Root /\ Len(Root) = 1 /\ ~(1 > 1)
      BY <1>7, <3>1, JoinedNone, SchemeIs DEF Root
    <3> QED
      BY <1>15, <3>2, Zenon
  <2> DEFINE x == names[Len(names)]
             rest == SubSeq(names, 1, Len(names) - 1)
             t == Joined(rest)
  <2>3. x \in PathNames /\ rest \in Seq(PathNames) /\ names = Append(rest, x)
    BY <1>9, <2>2
  <2> HIDE DEF x, rest
  <2>4. out = (t \o x) \o Root /\ ReadsAs(t, rest)
    BY <1>7, <2>3, JoinedMore, JoinedReadsAs, Zenon
  <2> HIDE DEF t
  <2>5. /\ t \o x \in Chars /\ Len(t \o x) = Len(t) + Len(x) /\ Len(x) >= 1
        /\ Segments(t \o x) = Append(rest, x)
        /\ (t \o x)[1] = "/" /\ (t \o x)[Len(t \o x)] # "/"
    BY <2>3, <2>4, NameReadsAs, Zenon
  <2>6. p = t \o x
    <3> DEFINE q == t \o x
               r == Root
    <3>1. q \in Chars /\ r \in Chars /\ Len(r) = 1
      BY <2>5, SchemeIs DEF Root
    <3> HIDE DEF q, r
    <3>2. SubSeq(q \o r, 1, Len(q)) = q
      BY <3>1 DEF Chars
    <3>3. Len(q \o r) - 1 = Len(q)
      <4>1. Len(q \o r) = Len(q) + Len(r) /\ Len(q) \in Nat
        BY <3>1, JoinIs, Zenon
      <4> QED
        BY <3>1, <4>1
    <3> QED
      BY <2>4, <3>2, <3>3, Zenon DEF q, r
  <2>7. Len(t \o x) >= 1
    <3>1. Len(t) >= 1 /\ t \in Chars /\ x \in Chars
      BY <2>3, <2>4, Zenon DEF ReadsAs, PathNames
    <3>2. Len(t) \in Nat /\ Len(x) \in Nat
      BY <3>1, TextLength
    <3> QED
      BY <2>5, <3>1, <3>2
  <2>8. OccursIn(t \o x, <<"/">>, 1)
    BY <1>13, <2>5, <2>7, Zenon
  <2> QED
    BY <1>8, <1>15, <2>1, <2>3, <2>5, <2>6, <2>8, Zenon
<1> QED
  BY <1>14, <1>15

--------------------------------------------------------------------------------
(* The theorems.                                                           *)

\* After a link was followed, the page it stood on is the last of the history
\* (browser.go), through failed fetches and whatever the server sends.
THEOREM BackLeadsThere == Spec => []BackLeadsToOrigin
<1>1. PageInv => BackLeadsToOrigin
  BY DEF PageInv
<1> QED
  BY <1>1, PagesAreSafe, PTL

\* Whatever way a fetch ends, the connection is closed (spartan_fetch).
THEOREM SocketsAreClosed == Spec => []NoSocketLeftOpen
<1>1. PageInv => NoSocketLeftOpen
  BY DEF PageInv
<1> QED
  BY <1>1, PagesAreSafe, PTL

\* What the viewer shows after it was drawn is the text it was given, within
\* the window, from a first line that exists, whatever servers send and whatever
\* size the window gets (ensure_wrap, wrap_into, on_gem_line).
THEOREM ViewerShowsText == Spec => []ViewShowsText
<1>1. Spec => [](PageInv /\ ViewInv)
  <2>1. Init => PageInv /\ ViewInv
    BY InitPages, InitViewer
  <2>2. PageInv /\ ViewInv /\ [Next]_vars => (PageInv /\ ViewInv)'
    BY NextKeepsPages, NextKeepsViewer
  <2> QED
    BY <2>1, <2>2, PTL DEF Spec
<1>2. PageInv /\ ViewInv => ViewShowsText
  BY BrokenShowsText DEF ViewInv
<1> QED
  BY <1>1, <1>2, PTL

\* Whatever paths, addresses and lines of text are tried, the dots are taken out
\* of a path without losing another name, an address that was formatted is parsed
\* to what it was, and a line loses nothing but its marks (normalize,
\* spartan_parse_url, spartan_format_url, classify).
THEOREM SamplesRead == Spec => []SamplesAreRight
<1>0. \A s \in Seq(STRING) : s \in Chars
  <2>1. \A c \in STRING : c \in Letters
    BY Zenon DEF Letters
  <2> QED
    BY <2>1, WiderSeq, Zenon DEF Chars
<1>1. \A path \in Paths : NormalizedIsRight(path)
  <2>1. \A path \in Paths : path \in Seq(STRING) /\ path # <<>> /\ path[1] = "/"
    BY TextsAssumption
  <2> QED
    BY <1>0, <2>1, PathsAreNormalized, Zenon
<1>2. \A text \in Texts : FormattedIsReadBack(text)
  <2>1. \A text \in Texts : text \in Seq(STRING)
    BY TextsAssumption
  <2> QED
    BY <1>0, <2>1, FormattedReadsBack, Zenon
<1>3. \A line \in Lines : NothingIsLost(line)
  <2>1. \A line \in Lines : line \in Seq(STRING)
    BY TextsAssumption
  <2> QED
    BY <1>0, <2>1, LinesLoseMarks, Zenon
<1>4. SamplesAreRight
  BY <1>1, <1>2, <1>3, Zenon DEF SamplesAreRight
<1> QED
  BY <1>4, PTL

================================================================================
