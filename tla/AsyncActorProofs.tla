-------------------------- MODULE AsyncActorProofs --------------------------
(***************************************************************************)
(* For any numbers of ranks and streams, any store size, threshold and      *)
(* share: what a rank trains on is fresh and on policy enough, and a full   *)
(* store never gets worse.                                                  *)
(***************************************************************************)
EXTENDS AsyncActor, WellFoundedInduction, FiniteSetTheorems, SequenceTheorems, TLAPS

-----------------------------------------------------------------------------
(* Induction, in a form that needs no predicate *)

\* A set of natural numbers has a least element.
LEMMA LeastNumber ==
  ASSUME NEW T, T \subseteq Nat, T # {}
  PROVE  \E x \in T : \A y \in T : x <= y
<1> DEFINE R == {ss \in Nat \X Nat : ss[1] < ss[2]}
<1>1. IsWellFoundedOn(R, Nat)
  BY NatLessThanWellFounded DEF OpToRel
<1>2. PICK x \in T : \A y \in T : ~(<<y, x>> \in R)
  <2> HIDE DEF R
  <2> QED BY <1>1, WFMin
<1>3. \A y \in T : x <= y
  <2> SUFFICES ASSUME NEW y \in T, y < x PROVE FALSE
    OBVIOUS
  <2>1. <<y, x>> \in Nat \X Nat
    OBVIOUS
  <2> QED BY <1>2, <2>1
<1> QED BY <1>3

\* A set that has 0, and the next of each of its numbers, has all.
LEMMA Induction ==
  ASSUME NEW T, 0 \in T, \A n \in T \cap Nat : n + 1 \in T
  PROVE  Nat \subseteq T
<1> DEFINE S == Nat \ T
<1> SUFFICES ASSUME S # {} PROVE FALSE
  OBVIOUS
<1>1. PICK x \in S : \A y \in S : x <= y
  <2>1. S \subseteq Nat
    OBVIOUS
  <2> HIDE DEF S
  <2> QED BY <2>1, LeastNumber
<1>2. x - 1 \in Nat \cap T
  BY <1>1
<1>3. (x - 1) + 1 = x
  OBVIOUS
<1> QED BY <1>2, <1>3

\* f[i] is what base has become after i steps.
Iterated(f, m, B, base, step) ==
  /\ f \in [0..m -> B]
  /\ f[0] = base
  /\ \A i \in 1..m : f[i] = step[<<i, f[i - 1]>>]

LEMMA Recursion ==
  ASSUME NEW B, NEW base \in B, NEW step \in [Nat \X B -> B], NEW m \in Nat
  PROVE  \E f : Iterated(f, m, B, base, step)
<1> DEFINE Steps(f, k) == f[0] = base /\ \A i \in 1..k : f[i] = step[<<i, f[i - 1]>>]
           T == {k \in Nat : \E f \in [0..k -> B] : Steps(f, k)}
<1>1. 0 \in T
  <2>1. [i \in 0..0 |-> base] \in [0..0 -> B] /\ Steps([i \in 0..0 |-> base], 0)
    OBVIOUS
  <2> QED BY <2>1
<1>2. ASSUME NEW k \in T PROVE k + 1 \in T
  <2>1. PICK f \in [0..k -> B] : Steps(f, k)
    OBVIOUS
  <2> DEFINE g == [i \in 0..k + 1 |-> IF i <= k THEN f[i] ELSE step[<<k + 1, f[k]>>]]
  <2>2. g \in [0..k + 1 -> B]
    OBVIOUS
  <2>3. Steps(g, k + 1)
    <3>1. g[0] = base
      BY <2>1
    <3>2. ASSUME NEW i \in 1..k + 1 PROVE g[i] = step[<<i, g[i - 1]>>]
      <4>1. CASE i <= k
        <5>1. g[i] = f[i] /\ g[i - 1] = f[i - 1] /\ i \in 1..k
          BY <3>2, <4>1
        <5> QED BY <2>1, <5>1
      <4>2. CASE i = k + 1
        <5>1. g[k + 1] = step[<<k + 1, f[k]>>] /\ g[k] = f[k] /\ (k + 1) - 1 = k
          OBVIOUS
        <5> QED BY <4>2, <5>1
      <4> QED BY <3>2, <4>1, <4>2
    <3> QED BY <3>1, <3>2
  <2> HIDE DEF g
  <2> QED BY <2>2, <2>3
<1>3. Nat \subseteq T
  <2> HIDE DEF T
  <2> QED BY <1>1, <1>2, Induction
<1>4. PICK f \in [0..m -> B] : Steps(f, m)
  BY <1>3
<1> QED BY <1>4 DEF Iterated

-----------------------------------------------------------------------------
(* The priority store *)

Sorted(s) == \A i, j \in 1..Len(s) : i <= j => ~Lower(s[j], s[i])

\* What holds of no number after one of which it does not hold, holds up to
\* some number.
LEMMA UpTo ==
  ASSUME NEW L \in Nat, NEW D, \A i, j \in 1..L : i <= j /\ j \in D => i \in D
  PROVE  \E m \in 0..L : \A i \in 1..L : i <= m <=> i \in D
<1> DEFINE T == {L + 1} \cup {k \in 1..L : k \notin D}
<1>1. PICK x \in T : \A y \in T : x <= y
  <2>1. T \subseteq Nat /\ T # {}
    OBVIOUS
  <2> HIDE DEF T
  <2> QED BY <2>1, LeastNumber
<1>2. x \in 1..L + 1 /\ x - 1 \in 0..L
  OBVIOUS
<1>3. ASSUME NEW i \in 1..L PROVE i <= x - 1 <=> i \in D
  <2>1. CASE i <= x - 1
    BY <1>1, <1>2, <2>1
  <2>2. CASE i > x - 1
    <3>1. x \in 1..L /\ x <= i /\ x \notin D
      BY <1>2, <2>2
    <3> QED BY <2>2, <3>1
  <2> QED BY <1>2, <2>1, <2>2
<1> QED BY <1>2, <1>3

\* z is s with t put in behind the n-th place.
Spliced(z, s, t, n) ==
  /\ \A i \in 1..n : z[i] = s[i]
  /\ z[n + 1] = t
  /\ \A i \in n + 2..Len(s) + 1 : z[i] = s[i - 1]

LEMMA Splice ==
  ASSUME NEW S, NEW s \in Seq(S), NEW t \in S, NEW n \in 0..Len(s)
  PROVE  /\ SubSeq(s, 1, n) \o <<t>> \o SubSeq(s, n + 1, Len(s)) \in Seq(S)
         /\ Len(SubSeq(s, 1, n) \o <<t>> \o SubSeq(s, n + 1, Len(s))) = Len(s) + 1
         /\ Spliced(SubSeq(s, 1, n) \o <<t>> \o SubSeq(s, n + 1, Len(s)), s, t, n)
<1> DEFINE x == SubSeq(s, 1, n)
           y == SubSeq(s, n + 1, Len(s))
           w == x \o <<t>>
<1>1. x \in Seq(S) /\ Len(x) = n /\ \A i \in 1..n : x[i] = s[i]
  OBVIOUS
<1>2. y \in Seq(S) /\ Len(y) = Len(s) - n /\ \A i \in 1..Len(s) - n : y[i] = s[n + i]
  OBVIOUS
<1> HIDE DEF x, y
<1>3. w \in Seq(S) /\ Len(w) = n + 1 /\ w[n + 1] = t /\ \A i \in 1..n : w[i] = x[i]
  BY <1>1
<1> HIDE DEF w
<1>4. /\ w \o y \in Seq(S) /\ Len(w \o y) = Len(s) + 1
      /\ \A i \in 1..n + 1 : (w \o y)[i] = w[i]
      /\ \A i \in n + 2..Len(s) + 1 : (w \o y)[i] = y[i - (n + 1)]
  BY <1>2, <1>3
<1>5. \A i \in n + 2..Len(s) + 1 : (w \o y)[i] = s[i - 1]
  <2> SUFFICES ASSUME NEW i \in n + 2..Len(s) + 1 PROVE (w \o y)[i] = s[i - 1]
    OBVIOUS
  <2>1. i - (n + 1) \in 1..Len(s) - n /\ n + (i - (n + 1)) = i - 1
    OBVIOUS
  <2> QED BY <1>2, <1>4, <2>1
<1>6. \A i \in 1..n : (w \o y)[i] = s[i]
  BY <1>1, <1>3, <1>4
<1>7. (w \o y)[n + 1] = t
  BY <1>3, <1>4
<1>8. w \o y \in Seq(S) /\ Len(w \o y) = Len(s) + 1 /\ Spliced(w \o y, s, t, n)
  BY <1>4, <1>5, <1>6, <1>7 DEF Spliced
<1> QED BY <1>8 DEF w, x, y

\* Below which place of a sorted store the entries are not higher.
LEMMA PlaceExists ==
  ASSUME NEW S, S \subseteq Nat \X Nat, NEW s \in Seq(S), Sorted(s), NEW t \in S
  PROVE  \E m \in 0..Len(s) : \A i \in 1..Len(s) : i <= m <=> ~Lower(t, s[i])
<1> DEFINE D == {i \in 1..Len(s) : ~Lower(t, s[i])}
<1>1. \A i, j \in 1..Len(s) : i <= j /\ j \in D => i \in D
  <2> SUFFICES ASSUME NEW i \in 1..Len(s), NEW j \in 1..Len(s), i <= j,
                      ~Lower(t, s[j]), Lower(t, s[i])
               PROVE  FALSE
    OBVIOUS
  <2>1. ~Lower(s[j], s[i])
    BY DEF Sorted
  <2>2. s[i] \in Nat \X Nat /\ s[j] \in Nat \X Nat /\ t \in Nat \X Nat
    OBVIOUS
  <2> QED BY <2>1, <2>2 DEF Lower
<1>2. PICK m \in 0..Len(s) : \A i \in 1..Len(s) : i <= m <=> i \in D
  <2>1. Len(s) \in Nat
    OBVIOUS
  <2> HIDE DEF D
  <2> QED BY <1>1, <2>1, UpTo
<1>3. \A i \in 1..Len(s) : i <= m <=> ~Lower(t, s[i])
  BY <1>2
<1> QED BY <1>3

LEMMA InsertPlace ==
  ASSUME NEW S, S \subseteq Nat \X Nat, NEW s \in Seq(S), Sorted(s), NEW t \in S
  PROVE  /\ Insert(s, t) \in Seq(S) /\ Len(Insert(s, t)) = Len(s) + 1
         /\ \E n \in 0..Len(s) :
              /\ \A i \in 1..Len(s) : i <= n <=> ~Lower(t, s[i])
              /\ Spliced(Insert(s, t), s, t, n)
<1> DEFINE At(m) == \A i \in 1..Len(s) : i <= m <=> ~Lower(t, s[i])
           n == CHOOSE m \in 0..Len(s) : At(m)
<1>1. \E m \in 0..Len(s) : At(m)
  BY PlaceExists
<1>2. n \in 0..Len(s) /\ At(n)
  <2> HIDE DEF At
  <2> QED BY <1>1
<1>3. Insert(s, t) = SubSeq(s, 1, n) \o <<t>> \o SubSeq(s, n + 1, Len(s))
  BY DEF Insert
<1> HIDE DEF n
<1>4. Insert(s, t) \in Seq(S) /\ Len(Insert(s, t)) = Len(s) + 1 /\ Spliced(Insert(s, t), s, t, n)
  <2>1. n \in 0..Len(s)
    BY <1>2
  <2> HIDE DEF At
  <2>2. \A m \in 0..Len(s) :
          LET z == SubSeq(s, 1, m) \o <<t>> \o SubSeq(s, m + 1, Len(s))
          IN  z \in Seq(S) /\ Len(z) = Len(s) + 1 /\ Spliced(z, s, t, m)
    BY Splice
  <2>3. LET z == SubSeq(s, 1, n) \o <<t>> \o SubSeq(s, n + 1, Len(s))
        IN  z \in Seq(S) /\ Len(z) = Len(s) + 1 /\ Spliced(z, s, t, n)
    BY <2>1, <2>2
  <2> QED BY <1>3, <2>3
<1> QED BY <1>2, <1>4

LEMMA LowerOrder ==
  ASSUME NEW t \in Nat \X Nat, NEW u \in Nat \X Nat, NEW v \in Nat \X Nat
  PROVE  /\ ~Lower(t, t) /\ (Lower(t, u) => ~Lower(u, t))
         /\ ~Lower(t, u) /\ ~Lower(u, v) => ~Lower(t, v)
BY DEF Lower

\* Nothing in s is lower than what was at its place in r.
Better(s, r) == Len(s) = Len(r) /\ \A i \in 1..Len(r) : ~Lower(s[i], r[i])

\* The same for lists of L and L + 1 entries.
LEMMA SplicedSorted ==
  ASSUME NEW L \in Nat, NEW s, NEW z, NEW t \in Nat \X Nat, NEW n \in 0..L,
         \A i \in 1..L : s[i] \in Nat \X Nat,
         \A i, j \in 1..L : i <= j => ~Lower(s[j], s[i]),
         \A i \in 1..L : i <= n <=> ~Lower(t, s[i]),
         \A i \in 1..n : z[i] = s[i],
         z[n + 1] = t,
         \A i \in n + 2..L + 1 : z[i] = s[i - 1]
  PROVE  /\ \A i, j \in 1..L + 1 : i <= j => ~Lower(z[j], z[i])
         /\ \A i \in 1..L : ~Lower(z[i + 1], s[i])
<1>1. ASSUME NEW i \in 1..L + 1, NEW j \in 1..L + 1, i <= j PROVE ~Lower(z[j], z[i])
  <2>1. CASE j <= n
    <3>1. i \in 1..L /\ j \in 1..L /\ z[i] = s[i] /\ z[j] = s[j]
      BY <1>1, <2>1
    <3> QED BY <1>1, <3>1
  <2>2. CASE j = n + 1
    <3>1. CASE i = j
      BY <2>2, <3>1, LowerOrder
    <3>2. CASE i # j
      <4>1. i \in 1..L /\ i <= n /\ z[i] = s[i] /\ z[j] = t
        BY <1>1, <2>2, <3>2
      <4> QED BY <4>1
    <3> QED BY <3>1, <3>2
  <2>3. CASE j > n + 1
    <3>1. j - 1 \in 1..L /\ z[j] = s[j - 1] /\ ~(j - 1 <= n)
      BY <1>1, <2>3
    <3>2. CASE i <= n
      <4>1. i \in 1..L /\ i <= j - 1 /\ z[i] = s[i]
        BY <1>1, <2>3, <3>2
      <4> QED BY <3>1, <4>1
    <3>3. CASE i = n + 1
      <4>1. Lower(t, s[j - 1]) /\ z[i] = t
        BY <3>1, <3>3
      <4> QED BY <3>1, <4>1, LowerOrder
    <3>4. CASE i > n + 1
      <4>1. i - 1 \in 1..L /\ i - 1 <= j - 1 /\ z[i] = s[i - 1]
        BY <1>1, <3>4
      <4> QED BY <3>1, <4>1
    <3> QED BY <1>1, <3>2, <3>3, <3>4
  <2> QED BY <1>1, <2>1, <2>2, <2>3
<1>2. ASSUME NEW i \in 1..L PROVE ~Lower(z[i + 1], s[i])
  <2>1. CASE i + 1 <= n
    <3>1. z[i + 1] = s[i + 1] /\ i + 1 \in 1..L /\ i <= i + 1
      BY <1>2, <2>1
    <3> QED BY <1>2, <3>1
  <2>2. CASE i = n
    <3>1. i <= n /\ z[i + 1] = t
      BY <2>2
    <3> QED BY <1>2, <3>1
  <2>3. CASE i > n
    <3>1. i + 1 \in n + 2..L + 1 /\ (i + 1) - 1 = i
      BY <1>2, <2>3
    <3>2. z[i + 1] = s[i]
      BY <3>1
    <3> QED BY <1>2, <3>2, LowerOrder
  <2> QED BY <1>2, <2>1, <2>2, <2>3
<1> QED BY <1>1, <1>2

LEMMA InsertSorted ==
  ASSUME NEW S, S \subseteq Nat \X Nat, NEW s \in Seq(S), Sorted(s), NEW t \in S
  PROVE  /\ Insert(s, t) \in Seq(S) /\ Len(Insert(s, t)) = Len(s) + 1
         /\ Sorted(Insert(s, t)) /\ Better(Tail(Insert(s, t)), s)
<1>1. PICK z : z = Insert(s, t)
  OBVIOUS
<1>2. z \in Seq(S) /\ Len(z) = Len(s) + 1
  BY <1>1, InsertPlace
<1>3. PICK n \in 0..Len(s) :
         (\A i \in 1..Len(s) : i <= n <=> ~Lower(t, s[i])) /\ Spliced(z, s, t, n)
  BY <1>1, InsertPlace
<1>4. Len(s) \in Nat /\ t \in Nat \X Nat /\ \A i \in 1..Len(s) : s[i] \in Nat \X Nat
  OBVIOUS
<1>5. \A i, j \in 1..Len(s) : i <= j => ~Lower(s[j], s[i])
  BY DEF Sorted
<1>6. /\ \A i, j \in 1..Len(s) + 1 : i <= j => ~Lower(z[j], z[i])
      /\ \A i \in 1..Len(s) : ~Lower(z[i + 1], s[i])
  BY <1>3, <1>4, <1>5, SplicedSorted DEF Spliced
<1>7. Tail(z) \in Seq(S) /\ Len(Tail(z)) = Len(s) /\ \A i \in 1..Len(s) : Tail(z)[i] = z[i + 1]
  BY <1>2
<1>8. Sorted(z)
  BY <1>2, <1>6 DEF Sorted
<1>9. Better(Tail(z), s)
  BY <1>6, <1>7 DEF Better
<1> QED BY <1>1, <1>2, <1>8, <1>9

LEMMA Entries ==
  ASSUME NEW S, S \subseteq Nat \X Nat, NEW s \in Seq(S)
  PROVE  Len(s) \in Nat /\ \A i \in 1..Len(s) : s[i] \in Nat \X Nat
OBVIOUS

LEMMA TailSorted ==
  ASSUME NEW S, NEW s \in Seq(S), s # <<>>, Sorted(s)
  PROVE  Sorted(Tail(s))
<1>1. PICK z : z = Tail(s)
  OBVIOUS
<1>2. Len(z) = Len(s) - 1 /\ \A i \in 1..Len(s) - 1 : z[i] = s[i + 1]
  BY <1>1
<1>3. Len(s) \in Nat
  OBVIOUS
<1>4. ASSUME NEW i \in 1..Len(z), NEW j \in 1..Len(z), i <= j PROVE ~Lower(z[j], z[i])
  <2>1. /\ z[i] = s[i + 1] /\ z[j] = s[j + 1] /\ i + 1 <= j + 1
        /\ i + 1 \in 1..Len(s) /\ j + 1 \in 1..Len(s)
    BY <1>2, <1>3, <1>4
  <2> QED BY <2>1 DEF Sorted
<1> QED BY <1>1, <1>4 DEF Sorted

LEMMA BetterTransitive ==
  ASSUME NEW S, S \subseteq Nat \X Nat, NEW r \in Seq(S), NEW s \in Seq(S), NEW t \in Seq(S),
         Better(t, s), Better(s, r)
  PROVE  Better(t, r)
<1>1. ASSUME NEW i \in 1..Len(r) PROVE ~Lower(t[i], r[i])
  <2>0. Len(s) = Len(r) /\ Len(t) = Len(r)
    BY DEF Better
  <2>1. r[i] \in Nat \X Nat /\ s[i] \in Nat \X Nat /\ t[i] \in Nat \X Nat
    <3>1. i \in 1..Len(s) /\ i \in 1..Len(t)
      BY <2>0
    <3> QED BY <3>1, Entries
  <2>2. ~Lower(t[i], s[i]) /\ ~Lower(s[i], r[i])
    BY DEF Better
  <2> QED BY <2>1, <2>2, LowerOrder
<1> QED BY <1>1 DEF Better

LEMMA BetterReflexive ==
  ASSUME NEW S, S \subseteq Nat \X Nat, NEW s \in Seq(S)
  PROVE  Better(s, s)
<1>1. \A i \in 1..Len(s) : s[i] \in Nat \X Nat
  OBVIOUS
<1> QED BY <1>1, LowerOrder DEF Better

\* What a store with entries of S can become, if it is r at first.
Stores(S, r) ==
  {s \in Seq(S) : Sorted(s) /\ Len(s) <= cfg.size /\ (Len(r) = cfg.size => Better(s, r))}

LEMMA AddKeeps ==
  ASSUME NEW S, S \subseteq Nat \X Nat, cfg.size \in Nat \ {0}, NEW r \in Seq(S),
         NEW s \in Stores(S, r), NEW t \in S
  PROVE  Add(s, t) \in Stores(S, r)
<1>1. PICK z : z = Insert(s, t)
  OBVIOUS
<1>2. s \in Seq(S) /\ Sorted(s) /\ Len(s) <= cfg.size /\ (Len(r) = cfg.size => Better(s, r))
  BY DEF Stores
<1>3. z \in Seq(S) /\ Len(z) = Len(s) + 1 /\ Sorted(z) /\ Better(Tail(z), s)
  BY <1>1, <1>2, InsertSorted
<1>4. Len(s) \in Nat /\ Len(z) \in Nat /\ z # <<>> /\ Tail(z) \in Seq(S)
  BY <1>2, <1>3
<1>5. CASE Len(s) < cfg.size
  <2>1. Add(s, t) = z /\ Len(z) <= cfg.size
    BY <1>1, <1>3, <1>4, <1>5 DEF Add
  <2>2. Len(r) # cfg.size
    BY <1>2, <1>5 DEF Better
  <2> QED BY <1>3, <2>1, <2>2 DEF Stores
<1>6. CASE Len(s) = cfg.size
  <2>1. Add(s, t) = s \/ Add(s, t) = Tail(z)
    BY <1>1, <1>6 DEF Add
  <2>2. Sorted(Tail(z)) /\ Len(Tail(z)) = Len(s)
    BY <1>3, <1>4, TailSorted DEF Better
  <2>3. Len(r) = cfg.size => Better(Tail(z), r)
    BY <1>2, <1>3, <1>4, BetterTransitive
  <2>4. Tail(z) \in Stores(S, r)
    BY <1>4, <1>6, <2>2, <2>3 DEF Stores
  <2> QED BY <2>1, <2>4
<1> QED BY <1>2, <1>4, <1>5, <1>6

LEMMA ReceivedKeeps ==
  ASSUME NEW S, S \subseteq Nat \X Nat, cfg.size \in Nat \ {0}, NEW r \in Seq(S),
         r \in Stores(S, r), NEW q \in Seq(S), NEW v
  PROVE  Received(r, q, v) \in Stores(S, r)
<1> DEFINE B == Stores(S, r)
           L == Len(q)
           Next1(s, n) == IF Stale(q[n], v) THEN s ELSE Add(s, q[n])
           step == [p \in Nat \X B |-> IF p[1] \in 1..L THEN Next1(p[2], p[1]) ELSE p[2]]
           Fits(f) == f = [n \in 0..L |-> IF n = 0 THEN r ELSE Next1(f[n - 1], n)]
<1>1. L \in Nat /\ \A n \in 1..L : q[n] \in S
  OBVIOUS
<1>2. \A s \in B, n \in 1..L : Next1(s, n) \in B
  BY <1>1, AddKeeps
<1>3. step \in [Nat \X B -> B]
  <2> HIDE DEF B, L, Next1
  <2> QED BY <1>2
<1>4. PICK f \in [0..L -> B] : f[0] = r /\ \A n \in 1..L : f[n] = step[<<n, f[n - 1]>>]
  <2>1. r \in B
    OBVIOUS
  <2>2. L \in Nat
    OBVIOUS
  <2> HIDE DEF B, L, step
  <2>3. \E f : Iterated(f, L, B, r, step)
    BY <1>3, <2>1, <2>2, Recursion
  <2> QED BY <2>3 DEF Iterated
<1>5. Fits(f)
  <2>1. ASSUME NEW n \in 1..L PROVE f[n] = Next1(f[n - 1], n)
    <3>1. <<n, f[n - 1]>> \in Nat \X B
      <4> HIDE DEF B, L
      <4> QED BY <1>1
    <3> HIDE DEF B, L, Next1
    <3> QED BY <1>1, <1>4, <3>1
  <2> HIDE DEF B, L, Next1
  <2> QED BY <1>1, <1>4, <2>1
<1>6. ASSUME NEW g, Fits(g) PROVE g[L] \in B
  <2>1. PICK T : T = {n \in Nat : n <= L => g[n] \in B}
    OBVIOUS
  <2>2. 0 \in T
    BY <1>1, <1>6, <2>1
  <2>3. ASSUME NEW n \in T \cap Nat PROVE n + 1 \in T
    <3>1. CASE n + 1 <= L
      <4>1. g[n] \in B /\ g[n + 1] = Next1(g[n], n + 1) /\ n + 1 \in 1..L
        <5> HIDE DEF B, L, Next1
        <5> QED BY <1>1, <1>6, <2>1, <2>3, <3>1
      <4>2. g[n + 1] \in B
        <5> HIDE DEF B, L, Next1
        <5> QED BY <1>2, <4>1
      <4> QED BY <2>1, <4>2
    <3>2. CASE ~(n + 1 <= L)
      BY <2>1, <3>2
    <3> QED BY <3>1, <3>2
  <2>4. Nat \subseteq T
    BY <2>2, <2>3, Induction
  <2> QED BY <1>1, <2>1, <2>4
<1>7. Received(r, q, v) = (CHOOSE g : Fits(g))[L]
  BY DEF Received
<1>8. Fits(CHOOSE g : Fits(g))
  <2> HIDE DEF Fits
  <2> QED BY <1>5
<1> QED
  <2> HIDE DEF Fits
  <2> QED BY <1>6, <1>7, <1>8
Fresh(s, v) == \A i \in 1..Len(s) : s[i][1] >= v - cfg.threshold

LEMMA RemoveBelowKeeps ==
  ASSUME NEW S, S \subseteq Nat \X Nat, NEW s \in Seq(S), Sorted(s), NEW v \in Int
  PROVE  LET z == RemoveBelow(s, v)
         IN  /\ z \in Seq(S) /\ Sorted(z) /\ Len(z) <= Len(s) /\ (Len(z) = Len(s) => z = s)
             /\ \A i \in 1..Len(z) : z[i][1] >= v
<1> DEFINE D == {i \in 1..Len(s) : s[i][1] < v}
           At(m) == \A i \in 1..Len(s) : i <= m <=> s[i][1] < v
           n == CHOOSE m \in 0..Len(s) : At(m)
<1>0. Len(s) \in Nat /\ \A i \in 1..Len(s) : s[i] \in Nat \X Nat
  OBVIOUS
<1>1. \A i, j \in 1..Len(s) : i <= j /\ j \in D => i \in D
  <2> SUFFICES ASSUME NEW i \in 1..Len(s), NEW j \in 1..Len(s), i <= j, s[j][1] < v
               PROVE  s[i][1] < v
    OBVIOUS
  <2>1. ~Lower(s[j], s[i]) /\ s[i] \in Nat \X Nat /\ s[j] \in Nat \X Nat
    BY <1>0 DEF Sorted
  <2> QED BY <2>1 DEF Lower
<1>2. PICK m \in 0..Len(s) : \A i \in 1..Len(s) : i <= m <=> i \in D
  <2> HIDE DEF D
  <2> QED BY <1>0, <1>1, UpTo
<1>3. At(m)
  BY <1>2
<1>4. n \in 0..Len(s) /\ At(n)
  <2> HIDE DEF At
  <2> QED BY <1>3
<1>5. RemoveBelow(s, v) = SubSeq(s, n + 1, Len(s))
  BY DEF RemoveBelow
<1> HIDE DEF n, D
<1>6. PICK z : z = SubSeq(s, n + 1, Len(s))
  OBVIOUS
<1>7. /\ z \in Seq(S) /\ Len(z) = Len(s) - n
      /\ \A i \in 1..Len(s) - n : z[i] = s[n + i]
  BY <1>4, <1>6
<1>8. Len(z) <= Len(s) /\ (Len(z) = Len(s) => z = s)
  <2>1. Len(z) = Len(s) => n = 0
    BY <1>0, <1>4, <1>7
  <2>2. n = 0 => z = s
    BY <1>6
  <2> QED BY <1>0, <1>4, <1>7, <2>1, <2>2
<1>p. n \in Nat /\ n <= Len(s)
  BY <1>0, <1>4
<1>s. ASSUME NEW i \in 1..Len(z) PROVE i \in Nat /\ z[i] = s[n + i] /\ n + i \in 1..Len(s) /\ i > 0
  <2>1. i \in 1..Len(s) - n
    BY <1>7
  <2> HIDE DEF At
  <2> QED BY <1>0, <1>p, <1>7, <2>1
<1>9. ASSUME NEW i \in 1..Len(z), NEW j \in 1..Len(z), i <= j PROVE ~Lower(z[j], z[i])
  <2>1. /\ z[i] = s[n + i] /\ z[j] = s[n + j] /\ n + i <= n + j
        /\ n + i \in 1..Len(s) /\ n + j \in 1..Len(s)
    BY <1>s, <1>p, <1>9
  <2> QED BY <2>1 DEF Sorted
<1>10. ASSUME NEW i \in 1..Len(z) PROVE z[i][1] >= v
  <2>1. z[i] = s[n + i] /\ n + i \in 1..Len(s) /\ ~(n + i <= n)
    BY <1>s, <1>p, <1>10
  <2>2. ~(s[n + i][1] < v) /\ s[n + i] \in Nat \X Nat
    BY <1>0, <1>4, <2>1
  <2> QED BY <2>1, <2>2
<1>11. Sorted(z)
  BY <1>9 DEF Sorted
<1> QED BY <1>5, <1>6, <1>7, <1>8, <1>10, <1>11

\* topn of a full store, from the highest down.
LEMMA TopOfFull ==
  ASSUME NEW S, NEW s \in Seq(S), cfg.size \in Nat \ {0}, Len(s) = cfg.size
  PROVE  /\ TopN(s) \in Seq(S) /\ Len(TopN(s)) = Len(s)
         /\ \A i \in 1..Len(s) : TopN(s)[i] = s[Len(s) - i + 1]
<1>1. Max({1, Len(s) - cfg.size + 1}) = 1
  <2>1. {1, Len(s) - cfg.size + 1} = {1}
    OBVIOUS
  <2> QED BY <2>1 DEF Max
<1>2. SubSeq(s, 1, Len(s)) = s
  OBVIOUS
<1>3. TopN(s) = [i \in 1..Len(s) |-> s[(Len(s) - i) + 1]]
  BY <1>1, <1>2 DEF TopN, Reverse
<1> DEFINE z == [i \in 1..Len(s) |-> s[(Len(s) - i) + 1]]
<1>4. z \in Seq(S) /\ Len(z) = Len(s) /\ \A i \in 1..Len(s) : z[i] = s[Len(s) - i + 1]
  <2>1. z \in [1..Len(s) -> S] /\ Len(s) \in Nat
    OBVIOUS
  <2>2. \A i \in 1..Len(s) : z[i] = s[Len(s) - i + 1]
    OBVIOUS
  <2>3. z \in Seq(S)
    <3> HIDE DEF z
    <3> QED BY <2>1, SeqDef
  <2>4. DOMAIN z = 1..Len(s) /\ DOMAIN z = 1..Len(z) /\ Len(z) \in Nat
    <3> HIDE DEF z
    <3> QED BY <2>1, <2>3, LenProperties
  <2> HIDE DEF z
  <2> QED BY <2>1, <2>2, <2>3, <2>4
<1> HIDE DEF z
<1> QED BY <1>3, <1>4 DEF z

\* The order does not matter for the share.
LEMMA ShareOfReversed ==
  ASSUME NEW s, NEW z, NEW L \in Nat, Len(s) = L, Len(z) = L, L # 0,
         DOMAIN s = 1..L, DOMAIN z = 1..L, \A i \in 1..L : z[i] = s[L - i + 1], NEW v
  PROVE  ShareOf(z, v) = ShareOf(s, v)
<1> DEFINE In(x, k) == {i \in 1..L : x[i][k] = v}
<1>1. ASSUME NEW k PROVE Cardinality(In(z, k)) = Cardinality(In(s, k))
  <2> DEFINE flip == [i \in In(z, k) |-> L - i + 1]
  <2>1. flip \in Bijection(In(z, k), In(s, k))
    <3>1. flip \in [In(z, k) -> In(s, k)]
      OBVIOUS
    <3>2. \A i, j \in In(z, k) : flip[i] = flip[j] => i = j
      OBVIOUS
    <3>3. \A j \in In(s, k) : \E i \in In(z, k) : flip[i] = j
      <4> SUFFICES ASSUME NEW j \in In(s, k) PROVE L - j + 1 \in In(z, k) /\ flip[L - j + 1] = j
        OBVIOUS
      <4>1. L - j + 1 \in 1..L /\ L - (L - j + 1) + 1 = j
        OBVIOUS
      <4>2. z[L - j + 1] = s[j]
        BY <4>1
      <4> QED BY <4>1, <4>2
    <3> HIDE DEF flip, In
    <3> QED BY <3>1, <3>2, <3>3 DEF Bijection, Injection, Surjection, IsInjective
  <2>2. IsFiniteSet(In(z, k)) /\ IsFiniteSet(In(s, k))
    <3>1. In(z, k) \subseteq 1..L /\ In(s, k) \subseteq 1..L /\ IsFiniteSet(1..L)
      BY FS_Interval
    <3> HIDE DEF In
    <3> QED BY <3>1, FS_Subset
  <2> HIDE DEF In, flip
  <2> QED BY <2>1, <2>2, FS_Bijection DEF ExistsBijection
<1>2. z # <<>> /\ s # <<>>
  OBVIOUS
<1> HIDE DEF In
<1>3. ShareOf(z, v) = (100 * (Cardinality(In(z, 1)) + Cardinality(In(z, 2)))) \div (2 * L)
  BY <1>2 DEF ShareOf, In
<1>4. ShareOf(s, v) = (100 * (Cardinality(In(s, 1)) + Cardinality(In(s, 2)))) \div (2 * L)
  BY <1>2 DEF ShareOf, In
<1> QED BY <1>1, <1>3, <1>4
-----------------------------------------------------------------------------
(* The invariant *)

\* Type correctness, with what bounds the global step.
Types ==
  /\ cfg \in Configs /\ TypeOK
  /\ runner.pc = "construct" => runner.step < cfg.steps

\* A rank that has left the wait has a full store of what it may train on.
Chosen(a) ==
  /\ Len(store[a]) = cfg.size /\ Fresh(store[a], version[a])
  /\ cfg.share = 0 \/ ShareOf(store[a], version[a]) >= cfg.share

StoreInv ==
  \A a \in Actors :
    /\ Sorted(store[a]) /\ Len(store[a]) <= cfg.size
    /\ actor[a] \in {"barrier", "built"} => Chosen(a)
    /\ actor[a] = "built" => batch[a] = TopN(store[a])

IInv == Types /\ StoreInv
LEMMA Config1 ==
  ASSUME cfg \in Configs
  PROVE  /\ cfg.size \in Nat \ {0} /\ cfg.steps \in Nat \ {0} /\ cfg.threshold \in Nat
         /\ cfg.share \in 0..100
BY AsyncActorAssumption DEF Config

LEMMA TrajectoryPairs == ASSUME cfg \in Configs PROVE Trajectory \subseteq Nat \X Nat
BY Config1 DEF Trajectory

LEMMA TrajectoryFrame == cfg' = cfg => Trajectory' = Trajectory
BY DEF Trajectory

LEMMA InitIInv == Init => IInv
<1> SUFFICES ASSUME Init PROVE IInv
  OBVIOUS
<1>1. cfg \in Configs /\ cfg.steps \in Nat \ {0} /\ cfg.size \in Nat \ {0}
  BY Config1 DEF Init
<1>2. Types
  BY <1>1 DEF Init, Types, TypeOK
<1>3. StoreInv
  BY <1>1 DEF Init, StoreInv, Sorted
<1> QED BY <1>2, <1>3 DEF IInv

LEMMA StoreFrame ==
  ASSUME StoreInv, UNCHANGED <<cfg, version, store, actor, batch>> PROVE StoreInv'
BY DEF StoreInv, Chosen, Fresh, ShareOf, TopN, Sorted, Lower

LEMMA ProduceStep == ASSUME IInv, NEW s \in Streams, Produce(s) PROVE IInv'
<1>1. <<began[s], weights[s]>> \in Trajectory
  BY DEF IInv, Types, TypeOK, Trajectory
<1>2. Append(channel, <<began[s], weights[s]>>) \in Seq(Trajectory)
  BY <1>1 DEF IInv, Types, TypeOK
<1>3. began' \in [Streams -> 0..cfg.steps]
  BY DEF IInv, Types, TypeOK, Produce
<1>4. Types'
  BY <1>2, <1>3, TrajectoryFrame DEF IInv, Types, TypeOK, Produce
<1> QED BY <1>4, StoreFrame DEF IInv, Produce

LEMMA SyncWeightsStep == ASSUME IInv, NEW s \in Streams, SyncWeights(s) PROVE IInv'
<1>1. Types'
  BY TrajectoryFrame DEF IInv, Types, TypeOK, SyncWeights
<1> QED BY <1>1, StoreFrame DEF IInv, SyncWeights

LEMMA TakeStep == ASSUME IInv, NEW a \in Actors, Take(a) PROVE IInv'
<1>1. Head(channel) \in Trajectory /\ Tail(channel) \in Seq(Trajectory)
  BY DEF IInv, Types, TypeOK, Take
<1>2. inHand' \in [Actors -> Seq(Trajectory)]
  <2>1. <<Head(channel)>> \in Seq(Trajectory)
    BY <1>1
  <2> QED BY <2>1 DEF IInv, Types, TypeOK, Take
<1>3. Types'
  BY <1>1, <1>2, TrajectoryFrame DEF IInv, Types, TypeOK, Take
<1> QED BY <1>3, StoreFrame DEF IInv, Take

LEMMA AdmitStep == ASSUME IInv, NEW a \in Actors, Admit(a) PROVE IInv'
<1>1. inHand[a] \in Seq(Trajectory) /\ inHand[a][1] \in Trajectory
  BY DEF IInv, Types, TypeOK, Admit
<1>2. Append(recvQueue[a], inHand[a][1]) \in Seq(Trajectory)
  BY <1>1 DEF IInv, Types, TypeOK
<1>3. recvQueue' \in [Actors -> Seq(Trajectory)] /\ inHand' \in [Actors -> Seq(Trajectory)]
  BY <1>2 DEF IInv, Types, TypeOK, Admit
<1>4. Types'
  BY <1>3, TrajectoryFrame DEF IInv, Types, TypeOK, Admit
<1> QED BY <1>4, StoreFrame DEF IInv, Admit

\* The store after one iteration of _wait_for_rollout_store_ready.
LEMMA DrainedKeeps ==
  ASSUME IInv, NEW a \in Actors
  PROVE  LET z == Drained(a)
         IN  /\ z \in Seq(Trajectory) /\ Sorted(z) /\ Len(z) <= cfg.size /\ Fresh(z, version[a])
             /\ Len(store[a]) = cfg.size /\ Len(z) = cfg.size => Better(z, store[a])
<1> DEFINE r == store[a]
           s == Received(store[a], recvQueue[a], version[a])
           z == RemoveBelow(s, version[a] - cfg.threshold)
<1>1. /\ r \in Seq(Trajectory) /\ recvQueue[a] \in Seq(Trajectory) /\ Trajectory \subseteq Nat \X Nat
      /\ cfg.size \in Nat \ {0} /\ version[a] - cfg.threshold \in Int
      /\ Sorted(r) /\ Len(r) <= cfg.size
  BY Config1, TrajectoryPairs DEF IInv, Types, TypeOK, StoreInv
<1>2. r \in Stores(Trajectory, r)
  BY <1>1, BetterReflexive DEF Stores
<1>3. s \in Stores(Trajectory, r)
  BY <1>1, <1>2, ReceivedKeeps
<1>4. /\ s \in Seq(Trajectory) /\ Sorted(s) /\ Len(s) <= cfg.size
      /\ Len(r) = cfg.size => Better(s, r)
  BY <1>3 DEF Stores
<1> HIDE DEF s, r
<1>5. /\ z \in Seq(Trajectory) /\ Sorted(z) /\ Len(z) <= Len(s) /\ (Len(z) = Len(s) => z = s)
      /\ \A i \in 1..Len(z) : z[i][1] >= version[a] - cfg.threshold
  BY <1>1, <1>4, RemoveBelowKeeps
<1>6. Drained(a) = z
  BY DEF Drained, s
<1> HIDE DEF z
<1>7. Len(s) \in Nat /\ Len(z) \in Nat
  BY <1>4, <1>5
<1>8. Len(z) <= cfg.size
  BY <1>1, <1>4, <1>5, <1>7
<1>9. ASSUME Len(r) = cfg.size, Len(z) = cfg.size PROVE Better(z, r)
  <2>1. Len(z) = Len(s)
    BY <1>1, <1>4, <1>5, <1>7, <1>9
  <2> QED BY <1>4, <1>5, <1>9, <2>1
<1>10. Fresh(z, version[a])
  BY <1>5 DEF Fresh
<1> QED BY <1>5, <1>6, <1>8, <1>9, <1>10 DEF r

LEMMA WaitStep == ASSUME IInv, NEW a \in Actors, Wait(a) PROVE IInv'
<1> DEFINE z == Drained(a)
<1>1. z \in Seq(Trajectory) /\ Sorted(z) /\ Len(z) <= cfg.size /\ Fresh(z, version[a])
  BY DrainedKeeps
<1>2. Ready(z, version[a]) =>
        Len(z) = cfg.size /\ (cfg.share = 0 \/ ShareOf(z, version[a]) >= cfg.share)
  BY <1>1, Config1 DEF Ready, IInv, Types
<1> HIDE DEF z
<1>3. /\ store' = [store EXCEPT ![a] = z] /\ recvQueue' = [recvQueue EXCEPT ![a] = <<>>]
      /\ actor' = [actor EXCEPT ![a] = IF Ready(z, version[a]) THEN "barrier" ELSE "wait"]
      /\ UNCHANGED <<cfg, runner, began, weights, channel, version, inHand, batch>>
  BY DEF Wait, z
<1>4. Types'
  <2>1. store' \in [Actors -> Seq(Trajectory)] /\ recvQueue' \in [Actors -> Seq(Trajectory)]
    BY <1>1, <1>3 DEF IInv, Types, TypeOK
  <2>2. actor' \in [Actors -> {"idle", "wait", "barrier", "built"}]
    BY <1>3 DEF IInv, Types, TypeOK
  <2> QED BY <1>3, <2>1, <2>2, TrajectoryFrame DEF IInv, Types, TypeOK
<1>5. ASSUME NEW b \in Actors
      PROVE  /\ Sorted(store'[b]) /\ Len(store'[b]) <= cfg.size
             /\ actor'[b] \in {"barrier", "built"} => Chosen(b)'
             /\ actor'[b] = "built" => batch'[b] = TopN(store'[b])
  <2>1. CASE b = a
    <3>1. /\ store'[b] = z
          /\ actor'[b] # "built" /\ (actor'[b] = "barrier" => Ready(z, version[a]))
      BY <1>3, <2>1 DEF IInv, Types, TypeOK
    <3>2. actor'[b] = "barrier" => Chosen(b)'
      BY <1>1, <1>2, <1>3, <2>1, <3>1 DEF Chosen, Fresh, ShareOf
    <3> QED BY <1>1, <3>1, <3>2
  <2>2. CASE b # a
    <3>1. store'[b] = store[b] /\ actor'[b] = actor[b] /\ batch'[b] = batch[b]
      BY <1>3, <2>2 DEF IInv, Types, TypeOK
    <3> QED BY <1>3, <3>1 DEF IInv, StoreInv, Chosen, Fresh, ShareOf
  <2> QED BY <2>1, <2>2
<1>6. StoreInv'
  BY <1>3, <1>5 DEF StoreInv, TopN, Sorted, Lower
<1> QED BY <1>4, <1>6 DEF IInv

LEMMA BarrierStep == ASSUME IInv, Barrier PROVE IInv'
<1>1. \A a \in Actors : TopN(store[a]) \in Seq(Trajectory)
  <2> SUFFICES ASSUME NEW a \in Actors PROVE TopN(store[a]) \in Seq(Trajectory)
    OBVIOUS
  <2>1. store[a] \in Seq(Trajectory) /\ cfg.size \in Nat \ {0} /\ Len(store[a]) = cfg.size
    BY Config1 DEF IInv, Types, TypeOK, StoreInv, Chosen, Barrier
  <2> QED BY <2>1, TopOfFull
<1>2. Types'
  BY <1>1, TrajectoryFrame DEF IInv, Types, TypeOK, Barrier
<1>3. ASSUME NEW a \in Actors
      PROVE  /\ Sorted(store'[a]) /\ Len(store'[a]) <= cfg.size
             /\ Chosen(a)' /\ batch'[a] = TopN(store'[a])
  BY <1>3 DEF IInv, StoreInv, Barrier, Chosen, Fresh, ShareOf
<1>4. StoreInv'
  BY <1>3 DEF StoreInv, Barrier, TopN, Sorted, Lower
<1> QED BY <1>2, <1>4 DEF IInv

LEMMA TrainedStep == ASSUME IInv, Trained PROVE IInv'
<1>1. runner.step + 1 \in 0..cfg.steps
  BY Config1 DEF IInv, Types, TypeOK, Trained
<1>2. Types'
  BY <1>1, TrajectoryFrame DEF IInv, Types, TypeOK, Trained
<1>3. StoreInv'
  BY DEF IInv, StoreInv, Trained, Sorted, Lower
<1> QED BY <1>2, <1>3 DEF IInv

LEMMA SyncedStep == ASSUME IInv, Synced PROVE IInv'
<1>1. Types'
  BY TrajectoryFrame DEF IInv, Types, TypeOK, Synced
<1>2. ASSUME runner.step < cfg.steps PROVE StoreInv'
  <2>1. \A a \in Actors : actor'[a] = "wait"
    BY <1>2 DEF Synced
  <2>2. UNCHANGED <<cfg, store>>
    BY DEF Synced
  <2> QED BY <2>1, <2>2 DEF IInv, StoreInv, Sorted, Lower
<1>3. ASSUME ~(runner.step < cfg.steps) PROVE StoreInv'
  <2>1. UNCHANGED <<cfg, version, store, actor, batch>>
    BY <1>3 DEF Synced
  <2> QED BY <2>1, StoreFrame DEF IInv
<1> QED BY <1>1, <1>2, <1>3 DEF IInv

LEMMA NextIInv == IInv /\ [Next]_vars => IInv'
<1> SUFFICES ASSUME IInv, [Next]_vars PROVE IInv'
  OBVIOUS
<1>1. CASE UNCHANGED vars
  <2>1. Types'
    BY <1>1, TrajectoryFrame DEF vars, IInv, Types, TypeOK
  <2> QED BY <1>1, <2>1, StoreFrame DEF vars, IInv
<1>2. ASSUME NEW s \in Streams, Produce(s) \/ SyncWeights(s) PROVE IInv'
  BY <1>2, ProduceStep, SyncWeightsStep
<1>3. ASSUME NEW a \in Actors, Take(a) \/ Admit(a) \/ Wait(a) PROVE IInv'
  BY <1>3, TakeStep, AdmitStep, WaitStep
<1>4. CASE Barrier \/ Trained \/ Synced
  BY <1>4, BarrierStep, TrainedStep, SyncedStep
<1> QED BY <1>1, <1>2, <1>3, <1>4 DEF Next

-----------------------------------------------------------------------------
(* Versions *)

\* What a stream can have made: it does not end with an older policy than it
\* began with, and not with one the actor has not had.
Made == {t \in Nat \X Nat : t[1] <= t[2] /\ t[2] <= runner.step}

\* The ranks are at the runner's step, the streams too, or one behind it while
\* the weights are on their way; nothing on its way to a store, or in it, is
\* from the future; and a store holds nothing that was too old a step ago.
VersionInv ==
  /\ \A a \in Actors : version[a] = runner.step
  /\ \A s \in Streams :
       /\ began[s] <= weights[s] /\ weights[s] \in {runner.step - 1, runner.step}
       /\ runner.pc # "sync" => weights[s] = runner.step
  /\ channel \in Seq(Made)
  /\ \A a \in Actors :
       /\ inHand[a] \in Seq(Made) /\ recvQueue[a] \in Seq(Made) /\ store[a] \in Seq(Made)
       /\ \A i \in 1..Len(store[a]) : store[a][i][1] >= version[a] - cfg.threshold - 1

LEMMA InitVersions == Init => VersionInv
BY DEF Init, VersionInv

LEMMA MadePairs == Made \subseteq Nat \X Nat
BY DEF Made

LEMMA MadeFrame == runner' = runner => Made' = Made
BY DEF Made

\* Nothing is forgotten when the actor goes on.
LEMMA MadeGrows ==
  ASSUME runner.step \in Nat, runner'.step = runner.step + 1, NEW s \in Seq(Made)
  PROVE  s \in Seq(Made')
<1>1. Made \subseteq Made'
  BY DEF Made
<1> QED BY <1>1

\* What a drain leaves was in the store or in the queue.
LEMMA DrainedMade ==
  ASSUME IInv, VersionInv, NEW a \in Actors
  PROVE  Drained(a) \in Seq(Made)
<1> DEFINE r == store[a]
           s == Received(store[a], recvQueue[a], version[a])
<1>1. /\ r \in Seq(Made) /\ recvQueue[a] \in Seq(Made) /\ Made \subseteq Nat \X Nat
      /\ cfg.size \in Nat \ {0} /\ version[a] - cfg.threshold \in Int
      /\ Sorted(r) /\ Len(r) <= cfg.size
  BY Config1, MadePairs DEF IInv, Types, TypeOK, StoreInv, VersionInv
<1>2. r \in Stores(Made, r)
  BY <1>1, BetterReflexive DEF Stores
<1>3. s \in Stores(Made, r)
  BY <1>1, <1>2, ReceivedKeeps
<1>4. s \in Seq(Made) /\ Sorted(s)
  BY <1>3 DEF Stores
<1> HIDE DEF s, r
<1>5. RemoveBelow(s, version[a] - cfg.threshold) \in Seq(Made)
  BY <1>1, <1>4, RemoveBelowKeeps
<1> QED BY <1>5 DEF Drained, s

LEMMA StreamVersions ==
  ASSUME IInv, VersionInv, NEW s \in Streams, Produce(s) \/ SyncWeights(s)
  PROVE  VersionInv'
<1>1. /\ began \in [Streams -> 0..cfg.steps] /\ weights \in [Streams -> 0..cfg.steps]
      /\ runner.step \in Nat /\ runner' = runner
  BY Config1 DEF IInv, Types, TypeOK, Produce, SyncWeights
<1> DEFINE InStep(u) == /\ began[u] \in Nat /\ weights[u] \in Nat /\ began[u] <= weights[u]
                        /\ weights[u] <= runner.step /\ weights[u] \in {runner.step - 1, runner.step}
                        /\ runner.pc # "sync" => weights[u] = runner.step
<1>0. \A u \in Streams : InStep(u)
  <2> SUFFICES ASSUME NEW u \in Streams
               PROVE  /\ began[u] \in Nat /\ weights[u] \in Nat
                      /\ weights[u] \in {runner.step - 1, runner.step} => weights[u] <= runner.step
    BY DEF VersionInv
  <2>1. cfg.steps \in Nat
    BY Config1 DEF IInv, Types
  <2>2. 0..cfg.steps \subseteq Nat
    BY <2>1
  <2>3. began[u] \in Nat /\ weights[u] \in Nat
    BY <1>1, <2>2
  <2> QED BY <1>1, <2>3
<1> HIDE DEF InStep
<1>2. UNCHANGED <<cfg, version, inHand, recvQueue, store>>
  BY DEF Produce, SyncWeights
<1>3. channel' \in Seq(Made)
  <2>1. CASE Produce(s)
    <3>1. /\ began[s] \in Nat /\ weights[s] \in Nat /\ began[s] <= weights[s]
          /\ weights[s] <= runner.step
      <4>1. InStep(s)
        BY <1>0
      <4> QED BY <4>1 DEF InStep
    <3>2. <<began[s], weights[s]>> \in Made
      BY <3>1 DEF Made
    <3> QED BY <2>1, <3>2 DEF VersionInv, Produce
  <2>2. CASE SyncWeights(s)
    BY <2>2 DEF VersionInv, SyncWeights
  <2> QED BY <2>1, <2>2
<1>4. ASSUME NEW u \in Streams
      PROVE  /\ began'[u] <= weights'[u] /\ weights'[u] \in {runner.step - 1, runner.step}
             /\ runner.pc # "sync" => weights'[u] = runner.step
  <2>1. /\ began[u] \in Nat /\ weights[u] \in Nat /\ began[u] <= weights[u]
        /\ weights[u] <= runner.step /\ weights[u] \in {runner.step - 1, runner.step}
        /\ runner.pc # "sync" => weights[u] = runner.step
    <3>1. InStep(u)
      BY <1>0
    <3> QED BY <3>1 DEF InStep
  <2>2. CASE Produce(s)
    <3>1. weights' = weights /\ began'[u] \in {began[u], weights[u]}
      BY <1>1, <2>2 DEF Produce
    <3> QED BY <2>1, <3>1
  <2>3. CASE SyncWeights(s)
    <3>1. began' = began /\ runner.pc = "sync" /\ weights'[u] \in {weights[u], runner.step}
      BY <1>1, <2>3 DEF SyncWeights
    <3> QED BY <1>1, <2>1, <3>1
  <2> QED BY <2>2, <2>3
<1> QED BY <1>1, <1>2, <1>3, <1>4, MadeFrame DEF VersionInv

LEMMA ThreadVersions ==
  ASSUME IInv, VersionInv, NEW a \in Actors, Take(a) \/ Admit(a)
  PROVE  VersionInv'
<1>1. UNCHANGED <<cfg, runner, began, weights, version, store>>
  BY DEF Take, Admit
<1>2. inHand \in [Actors -> Seq(Trajectory)] /\ recvQueue \in [Actors -> Seq(Trajectory)]
  BY DEF IInv, Types, TypeOK
<1>3. channel' \in Seq(Made) /\ \A b \in Actors : inHand'[b] \in Seq(Made) /\ recvQueue'[b] \in Seq(Made)
  <2>1. CASE Take(a)
    <3>1. Head(channel) \in Made /\ Tail(channel) \in Seq(Made)
      BY <2>1 DEF VersionInv, Take
    <3>2. <<Head(channel)>> \in Seq(Made)
      BY <3>1
    <3> QED BY <1>2, <2>1, <3>1, <3>2 DEF VersionInv, Take
  <2>2. CASE Admit(a)
    <3>1. inHand[a][1] \in Made /\ recvQueue[a] \in Seq(Made)
      BY <2>2 DEF VersionInv, Admit
    <3>2. Append(recvQueue[a], inHand[a][1]) \in Seq(Made)
      BY <3>1
    <3>3. \A b \in Actors : /\ inHand'[b] \in {<<>>, inHand[b]}
                            /\ recvQueue'[b] \in {recvQueue[b], IF b = a THEN Append(recvQueue[a], inHand[a][1]) ELSE recvQueue[b]}
      BY <1>2, <2>2 DEF Admit
    <3> QED BY <2>2, <3>2, <3>3 DEF VersionInv, Admit
  <2> QED BY <2>1, <2>2
<1> QED BY <1>1, <1>3, MadeFrame DEF VersionInv

\* A drain throws out all that is too old, and adds nothing that is.
LEMMA WaitVersions ==
  ASSUME IInv, VersionInv, NEW a \in Actors, Wait(a)
  PROVE  VersionInv'
<1> DEFINE z == Drained(a)
<1>1. z \in Seq(Made) /\ Fresh(z, version[a]) /\ version[a] \in Int /\ cfg.threshold \in Int
  BY DrainedMade, DrainedKeeps, Config1 DEF IInv, Types, TypeOK
<1> HIDE DEF z
<1>2. z \in Seq(Nat \X Nat)
  BY <1>1, MadePairs
<1>3. \A i \in 1..Len(z) : z[i][1] >= version[a] - cfg.threshold - 1
  BY <1>1, <1>2 DEF Fresh
<1>4. /\ store' = [store EXCEPT ![a] = z] /\ recvQueue' = [recvQueue EXCEPT ![a] = <<>>]
      /\ UNCHANGED <<cfg, runner, began, weights, channel, version, inHand>>
  BY DEF Wait, z
<1>5. ASSUME NEW b \in Actors
      PROVE  /\ recvQueue'[b] \in Seq(Made) /\ store'[b] \in Seq(Made)
             /\ \A i \in 1..Len(store'[b]) : store'[b][i][1] >= version[b] - cfg.threshold - 1
  <2>1. CASE b = a
    BY <1>1, <1>3, <1>4, <2>1 DEF IInv, Types, TypeOK
  <2>2. CASE b # a
    BY <1>4, <2>2 DEF IInv, Types, TypeOK, VersionInv
  <2> QED BY <2>1, <2>2
<1> QED BY <1>4, <1>5, MadeFrame DEF VersionInv

\* What the ranks have trained on was fresh, so that it is one step too old at
\* most when their version moves on.
LEMMA TrainedVersions ==
  ASSUME IInv, VersionInv, Trained
  PROVE  VersionInv'
<1>1. /\ runner.step \in Nat /\ runner'.step = runner.step + 1 /\ runner'.pc = "sync"
      /\ UNCHANGED <<cfg, began, weights, channel, inHand, recvQueue, store>>
      /\ cfg.threshold \in Int
  BY Config1 DEF IInv, Types, TypeOK, Trained
<1>2. \A a \in Actors : version[a] = runner.step /\ version'[a] = runner.step + 1
  BY DEF VersionInv, Trained
<1>3. ASSUME NEW a \in Actors, NEW i \in 1..Len(store[a])
      PROVE  store[a][i][1] >= version'[a] - cfg.threshold - 1
  <2>1. Fresh(store[a], version[a])
    BY DEF IInv, StoreInv, Chosen, Trained
  <2>2. store[a][i][1] \in Nat
    BY MadePairs DEF VersionInv
  <2>3. store[a][i][1] >= version[a] - cfg.threshold
    BY <2>1 DEF Fresh
  <2> QED BY <1>1, <1>2, <2>2, <2>3
<1>4. channel' \in Seq(Made') /\ \A a \in Actors : /\ inHand'[a] \in Seq(Made') /\ recvQueue'[a] \in Seq(Made')
                                                   /\ store'[a] \in Seq(Made')
  BY <1>1, MadeGrows DEF VersionInv
<1>5. \A s \in Streams : began'[s] <= weights'[s] /\ weights'[s] \in {runner'.step - 1, runner'.step}
  <2>1. \A s \in Streams : began[s] <= weights[s] /\ weights[s] = runner.step
    BY DEF VersionInv, Trained
  <2>2. runner.step = runner'.step - 1
    BY <1>1
  <2> QED BY <1>1, <2>1, <2>2
<1> QED BY <1>1, <1>2, <1>3, <1>4, <1>5 DEF VersionInv

LEMMA OtherVersions ==
  ASSUME IInv, VersionInv, Barrier \/ Synced \/ UNCHANGED vars
  PROVE  VersionInv'
<1>1. /\ runner'.step = runner.step
      /\ runner' = runner \/ \A s \in Streams : weights[s] = runner.step
      /\ UNCHANGED <<cfg, began, weights, channel, version, inHand, recvQueue, store>>
  BY DEF IInv, Types, TypeOK, Barrier, Synced, vars
<1>2. Made' = Made
  BY <1>1 DEF Made
<1>3. \A s \in Streams : runner'.pc # "sync" => weights[s] = runner.step
  BY <1>1 DEF VersionInv
<1> QED BY <1>1, <1>2, <1>3 DEF VersionInv

LEMMA NextVersions == IInv /\ VersionInv /\ [Next]_vars => VersionInv'
BY StreamVersions, ThreadVersions, WaitVersions, TrainedVersions, OtherVersions DEF Next

-----------------------------------------------------------------------------
(* Theorems *)

\* A rank's store is sorted and within its size, and from the moment it leaves
\* the wait until it has trained, full of trajectories it may train on
\* (_wait_for_rollout_store_ready, topn).  Nothing in it, or on its way to it,
\* is of a version the actor has not reached, and what it keeps from one global
\* step to the next was fresh in the last (remove_below).
THEOREM Invariance == Spec => [](IInv /\ VersionInv)
<1>1. Init => IInv /\ VersionInv
  BY InitIInv, InitVersions
<1>2. IInv /\ VersionInv /\ [Next]_vars => IInv' /\ VersionInv'
  BY NextIInv, NextVersions
<1> QED BY <1>1, <1>2, PTL DEF Spec

\* Every variable stays within its type, no step goes beyond max_steps.
THEOREM Typed == Spec => []TypeOK
<1>1. IInv => TypeOK
  BY DEF IInv, Types
<1> QED BY <1>1, Invariance, PTL

LEMMA BuiltFromStore ==
  ASSUME IInv, NEW a \in Actors, actor[a] = "built"
  PROVE  /\ store[a] \in Seq(Trajectory) /\ Len(store[a]) = cfg.size /\ cfg.size \in Nat \ {0}
         /\ batch[a] \in Seq(Trajectory) /\ Len(batch[a]) = cfg.size
         /\ \A i \in 1..cfg.size : batch[a][i] = store[a][cfg.size - i + 1]
         /\ Chosen(a)
<1>1. /\ store[a] \in Seq(Trajectory) /\ Len(store[a]) = cfg.size /\ cfg.size \in Nat \ {0}
      /\ batch[a] = TopN(store[a]) /\ Chosen(a)
  BY Config1 DEF IInv, Types, TypeOK, StoreInv, Chosen
<1> QED BY <1>1, TopOfFull

\* A rank trains on as many trajectories as its store holds, none of them more
\* than staleness_threshold behind (construct_rollout_batch).
THEOREM Freshness == Spec => []TrainsFresh
<1>1. ASSUME IInv, NEW a \in Actors, actor[a] = "built"
      PROVE  /\ Len(batch[a]) = cfg.size
             /\ \A i \in DOMAIN batch[a] : batch[a][i][1] >= version[a] - cfg.threshold
  <2>1. DOMAIN batch[a] = 1..cfg.size
    BY <1>1, BuiltFromStore
  <2>2. ASSUME NEW i \in 1..cfg.size PROVE batch[a][i][1] >= version[a] - cfg.threshold
    <3>1. /\ cfg.size \in Nat /\ Len(store[a]) = cfg.size
          /\ batch[a][i] = store[a][cfg.size - i + 1]
      BY <1>1, BuiltFromStore
    <3>2. cfg.size - i + 1 \in 1..Len(store[a])
      BY <3>1
    <3> QED BY <1>1, <3>1, <3>2, BuiltFromStore DEF Chosen, Fresh
  <2> QED BY <1>1, <2>1, <2>2, BuiltFromStore
<1>2. IInv => TrainsFresh
  BY <1>1 DEF TrainsFresh
<1> QED BY <1>2, Invariance, PTL

\* Of the cells a rank trains on, at least on_policy_min_ratio are of the
\* version it trains: the ratio is taken of the whole store, and topn takes it
\* all (_wait_for_rollout_store_ready, construct_rollout_batch).
THEOREM OnPolicy == Spec => []OnPolicyShare
<1>1. ASSUME IInv, NEW a \in Actors, actor[a] = "built"
      PROVE  ShareOf(batch[a], version[a]) >= cfg.share
  <2>1. ShareOf(batch[a], version[a]) = ShareOf(store[a], version[a])
    <3>1. /\ DOMAIN store[a] = 1..cfg.size /\ DOMAIN batch[a] = 1..cfg.size
          /\ Len(store[a]) = cfg.size /\ Len(batch[a]) = cfg.size
          /\ cfg.size \in Nat /\ cfg.size # 0
          /\ \A i \in 1..cfg.size : batch[a][i] = store[a][cfg.size - i + 1]
      BY <1>1, BuiltFromStore
    <3> QED BY <3>1, ShareOfReversed
  <2>2. ShareOf(store[a], version[a]) \in Nat
    <3> DEFINE In(k) == {i \in DOMAIN store[a] : store[a][i][k] = version[a]}
    <3>1. \A k : Cardinality(In(k)) \in Nat
      <4> SUFFICES ASSUME NEW k PROVE Cardinality(In(k)) \in Nat
        OBVIOUS
      <4>0. cfg.size \in Nat /\ DOMAIN store[a] = 1..cfg.size
        BY <1>1, BuiltFromStore
      <4>1. In(k) \subseteq 1..cfg.size /\ IsFiniteSet(1..cfg.size)
        BY <4>0, FS_Interval
      <4> HIDE DEF In
      <4> QED BY <4>1, FS_Subset, FS_CardinalityType
    <3>2. ShareOf(store[a], version[a]) =
            IF store[a] = <<>> THEN 0
            ELSE (100 * (Cardinality(In(1)) + Cardinality(In(2)))) \div (2 * Len(store[a]))
      BY DEF ShareOf
    <3>3. Len(store[a]) \in Nat \ {0}
      BY <1>1, BuiltFromStore
    <3> HIDE DEF In
    <3>4. /\ 100 * (Cardinality(In(1)) + Cardinality(In(2))) \in Nat
          /\ 2 * Len(store[a]) \in Nat \ {0}
      BY <3>1, <3>3
    <3>5. \A m \in Nat, n \in Nat \ {0} : m \div n \in Nat
      OBVIOUS
    <3> QED BY <3>2, <3>4, <3>5
  <2>3. cfg.share = 0 \/ ShareOf(store[a], version[a]) >= cfg.share
    BY <1>1, BuiltFromStore DEF Chosen
  <2> QED BY <2>1, <2>2, <2>3
<1>2. IInv => OnPolicyShare
  BY <1>1 DEF OnPolicyShare
<1> QED BY <1>2, Invariance, PTL

\* A store that is full before and after a step never gets worse at any place
\* (PriorityStore.add, remove_below).
THEOREM NeverWorse == Spec => StoreImproves
<1> DEFINE A == \A a \in Actors : Len(store[a]) = cfg.size /\ Len(store'[a]) = cfg.size =>
                  \A i \in 1..cfg.size : ~Lower(store'[a][i], store[a][i])
<1>1. ASSUME IInv, UNCHANGED store PROVE A
  <2> SUFFICES ASSUME NEW a \in Actors, Len(store[a]) = cfg.size, NEW i \in 1..cfg.size
               PROVE  ~Lower(store[a][i], store[a][i])
    BY <1>1
  <2>1. store[a][i] \in Nat \X Nat
    BY <1>1, TrajectoryPairs, Entries DEF IInv, Types, TypeOK
  <2> QED BY <2>1, LowerOrder
<1>2. ASSUME IInv, NEW b \in Actors, Wait(b) PROVE A
  <2> SUFFICES ASSUME NEW a \in Actors, Len(store[a]) = cfg.size, Len(store'[a]) = cfg.size,
                      NEW i \in 1..cfg.size
               PROVE  ~Lower(store'[a][i], store[a][i])
    OBVIOUS
  <2>1. CASE a = b
    <3>1. store'[a] = Drained(a)
      BY <1>2, <2>1 DEF Wait, IInv, Types, TypeOK
    <3>2. Better(Drained(a), store[a])
      BY <1>2, <3>1, DrainedKeeps
    <3> QED BY <3>1, <3>2 DEF Better
  <2>2. CASE a # b
    <3>1. store'[a] = store[a] /\ store[a][i] \in Nat \X Nat
      BY <1>2, <2>2, TrajectoryPairs, Entries DEF Wait, IInv, Types, TypeOK
    <3> QED BY <3>1, LowerOrder
  <2> QED BY <2>1, <2>2
<1>3. IInv /\ [Next]_vars => [A]_vars
  <2> SUFFICES ASSUME IInv, Next PROVE A
    BY DEF vars
  <2>1. UNCHANGED store \/ \E b \in Actors : Wait(b)
    BY DEF Next, Produce, SyncWeights, Take, Admit, Barrier, Trained, Synced
  <2> HIDE DEF A
  <2> QED BY <1>1, <1>2, <2>1
<1> QED BY <1>3, Invariance, PTL DEF Spec, StoreImproves
=============================================================================
