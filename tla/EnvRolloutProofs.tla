-------------------------- MODULE EnvRolloutProofs --------------------------
(***************************************************************************)
(* Proofs of the safety of EnvRollout, for every set of configurations,     *)
(* every number of stages and every bound on the versions.  First what the  *)
(* rank maps compute and that splitting and merging are inverse, then that  *)
(* every step keeps the line of batches between two workers.                *)
(***************************************************************************)
EXTENDS EnvRolloutInv, WellFoundedInduction, SequenceTheorems, TLAPS

-----------------------------------------------------------------------------
(* Induction, in a form that needs no predicate *)

\* A set of natural numbers has a least element.
LEMMA LeastNumber ==
  ASSUME NEW T, T \subseteq Nat, T # {}
  PROVE  \E x \in T : \A y \in T : x <= y
<1> DEFINE R == {ss \in Nat \X Nat : ss[1] < ss[2]}
<1>1. IsWellFoundedOn(R, Nat)
  BY NatLessThanWellFounded DEF OpToRel
<1>2. PICK x \in T : \A y \in T : ~(<<y, x>> \in R)
  <2> HIDE DEF R
  <2> QED BY <1>1, WFMin
<1>3. \A y \in T : x <= y
  <2> SUFFICES ASSUME NEW y \in T, y < x PROVE FALSE
    OBVIOUS
  <2>1. <<y, x>> \in Nat \X Nat
    OBVIOUS
  <2> QED BY <1>2, <2>1
<1> QED BY <1>3

\* A set that has 0, and the next of each of its numbers, has all.
LEMMA Induction ==
  ASSUME NEW T, 0 \in T, \A n \in T \cap Nat : n + 1 \in T
  PROVE  Nat \subseteq T
<1> DEFINE S == Nat \ T
<1> SUFFICES ASSUME S # {} PROVE FALSE
  OBVIOUS
<1>1. PICK x \in S : \A y \in S : x <= y
  <2>1. S \subseteq Nat
    OBVIOUS
  <2> HIDE DEF S
  <2> QED BY <2>1, LeastNumber
<1>2. x - 1 \in Nat \cap T
  BY <1>1
<1>3. (x - 1) + 1 = x
  OBVIOUS
<1> QED BY <1>2, <1>3

\* f[i] is what base has become after i steps.
Iterated(f, m, B, base, step) ==
  /\ f \in [0..m -> B]
  /\ f[0] = base
  /\ \A i \in 1..m : f[i] = step[<<i, f[i - 1]>>]

\* A recursive function on Nat with values in B exists.
LEMMA Recursion ==
  ASSUME NEW B, NEW base \in B, NEW step \in [Nat \X B -> B], NEW m \in Nat
  PROVE  \E f : Iterated(f, m, B, base, step)
<1> DEFINE Steps(f, k) == f[0] = base /\ \A i \in 1..k : f[i] = step[<<i, f[i - 1]>>]
           T == {k \in Nat : \E f \in [0..k -> B] : Steps(f, k)}
<1>1. 0 \in T
  <2>1. [i \in 0..0 |-> base] \in [0..0 -> B] /\ Steps([i \in 0..0 |-> base], 0)
    OBVIOUS
  <2> QED BY <2>1
<1>2. ASSUME NEW k \in T PROVE k + 1 \in T
  <2>1. PICK f \in [0..k -> B] : Steps(f, k)
    OBVIOUS
  <2> DEFINE g == [i \in 0..k + 1 |-> IF i <= k THEN f[i] ELSE step[<<k + 1, f[k]>>]]
  <2>2. g \in [0..k + 1 -> B]
    OBVIOUS
  <2>3. Steps(g, k + 1)
    <3>1. g[0] = base
      BY <2>1
    <3>2. ASSUME NEW i \in 1..k + 1 PROVE g[i] = step[<<i, g[i - 1]>>]
      <4>1. CASE i <= k
        <5>1. g[i] = f[i] /\ g[i - 1] = f[i - 1] /\ i \in 1..k
          BY <3>2, <4>1
        <5> QED BY <2>1, <5>1
      <4>2. CASE i = k + 1
        <5>1. g[k + 1] = step[<<k + 1, f[k]>>] /\ g[k] = f[k] /\ (k + 1) - 1 = k
          OBVIOUS
        <5> QED BY <4>2, <5>1
      <4> QED BY <3>2, <4>1, <4>2
    <3> QED BY <3>1, <3>2
  <2> HIDE DEF g
  <2> QED BY <2>2, <2>3
<1>3. Nat \subseteq T
  <2> HIDE DEF T
  <2> QED BY <1>1, <1>2, Induction
<1>4. PICK f \in [0..m -> B] : Steps(f, m)
  BY <1>3
<1> QED BY <1>4 DEF Iterated

-----------------------------------------------------------------------------
(* The rank maps *)

\* What is needed of multiplication: a step adds the factor, and it is monotone.
LEMMA Times ==
  ASSUME NEW P \in Nat \ {0}
  PROVE  /\ \A q \in Nat : q * P \in Nat /\ (q + 1) * P = q * P + P /\ P <= (q + 1) * P
         /\ \A q, r \in Nat : q < r => q * P + P <= r * P
<1>1. \A q \in Nat : q * P \in Nat /\ (q + 1) * P = q * P + P
  OBVIOUS
<1>2. ASSUME NEW q \in Nat, NEW r \in Nat, q < r PROVE q * P + P <= r * P
  <2>1. r - (q + 1) \in Nat /\ r = (q + 1) + (r - (q + 1))
    BY <1>2
  <2>2. \A d \in Nat : ((q + 1) + d) * P = q * P + P + d * P
    OBVIOUS
  <2>3. r * P = q * P + P + (r - (q + 1)) * P
    BY <2>1, <2>2
  <2>4. (r - (q + 1)) * P \in Nat /\ q * P \in Nat
    BY <1>1, <2>1
  <2> QED BY <2>3, <2>4
<1> QED BY <1>1, <1>2

\* Quotient and remainder, and that no other number is the quotient.
LEMMA Divided ==
  ASSUME NEW P \in Nat \ {0}, NEW b \in Nat
  PROVE  /\ b \div P \in Nat /\ (b \div P) * P <= b /\ b < (b \div P) * P + P
         /\ b % P = b - (b \div P) * P /\ b % P \in 0..P - 1
         /\ \A q \in Nat : q * P <= b /\ b < q * P + P => b \div P = q
<1>1. b \div P \in Nat /\ b % P \in 0..P - 1
  OBVIOUS
<1>2. b = (b \div P) * P + (b % P)
  OBVIOUS
<1>3. ASSUME NEW q \in Nat, q * P <= b, b < q * P + P PROVE b \div P = q
  <2> DEFINE d == b \div P
  <2>1. d \in Nat /\ d * P <= b /\ b < d * P + P /\ d * P \in Nat /\ q * P \in Nat
    BY <1>1, <1>2
  <2> HIDE DEF d
  <2>2. ~(d < q) /\ ~(q < d)
    BY <1>3, <2>1, Times
  <2> QED BY <2>1, <2>2 DEF d
<1> QED BY <1>1, <1>2, <1>3

\* The quotient one step on.
LEMMA DividedNext ==
  ASSUME NEW P \in Nat \ {0}, NEW d \in Nat, NEW c \in Nat, c = d * P + P
  PROVE  c \div P = d + 1
<1>1. (d + 1) * P = d * P + P /\ d + 1 \in Nat
  BY Times
<1> DEFINE q == d + 1
<1>2. q \in Nat /\ q * P <= c /\ c < q * P + P
  BY <1>1
<1> HIDE DEF q
<1>3. c \div P = q
  BY <1>2, Divided
<1> QED BY <1>3 DEF q

\* Sequences of one length with the same elements are equal.
LEMMA SameSeq ==
  ASSUME NEW S, NEW s \in Seq(S), NEW t \in Seq(S), Len(s) = Len(t), \A i \in 1..Len(s) : s[i] = t[i]
  PROVE  s = t
OBVIOUS

\* The elements of a concatenation.
LEMMA ConcatIs ==
  ASSUME NEW S, NEW p \in Seq(S), NEW q \in Seq(S)
  PROVE  /\ p \o q \in Seq(S) /\ Len(p \o q) = Len(p) + Len(q)
         /\ Len(p) \in Nat /\ Len(q) \in Nat
         /\ \A j \in 1..Len(p) : (p \o q)[j] = p[j]
         /\ \A j \in 1..Len(q) : (p \o q)[Len(p) + j] = q[j]
OBVIOUS

\* Sequences are equal if their elements are.
LEMMA Joins ==
  ASSUME NEW S, NEW s \in Seq(S), NEW u \in Seq(S), NEW t \in Seq(S), Len(s) = Len(u) + Len(t),
         \A i \in 1..Len(u) : s[i] = u[i], \A i \in 1..Len(t) : s[Len(u) + i] = t[i]
  PROVE  s = u \o t
<1>1. u \o t \in Seq(S) /\ Len(u \o t) = Len(s)
  OBVIOUS
<1>2. ASSUME NEW i \in 1..Len(s) PROVE s[i] = (u \o t)[i]
  <2>1. CASE i <= Len(u)
    BY <2>1
  <2>2. CASE i > Len(u)
    <3>1. i - Len(u) \in 1..Len(t) /\ Len(u) + (i - Len(u)) = i
      BY <2>2
    <3> QED BY <2>2, <3>1
  <2> QED BY <2>1, <2>2
<1> DEFINE w == u \o t
<1>3. w \in Seq(S) /\ Len(s) = Len(w) /\ \A i \in 1..Len(s) : s[i] = w[i] BY <1>1, <1>2
<1> HIDE DEF w
<1>4. s = w BY <1>3, SameSeq
<1> QED BY <1>4 DEF w

\* Min of the community modules, on two numbers.
LEMMA MinIs == ASSUME NEW x \in Int, NEW y \in Int PROVE Min({x, y}) = MinOf(x, y)
BY DEF Min, MinOf

\* The ranks that own a slot from b up to end, of which each owns P, and how
\* many of these slots each owns.
Count(P, b, end) == IF b = end THEN 0 ELSE ((end - 1) \div P) - (b \div P) + 1

Shares(P, b, end) ==
  [i \in 1..Count(P, b, end) |->
    <<(b \div P) + i - 1, MinOf(((b \div P) + i) * P, end) - MaxOf(((b \div P) + i - 1) * P, b)>>]

\* The shares of a non-empty interval are a non-empty sequence of pairs.
LEMMA SharesType ==
  ASSUME NEW P \in Nat \ {0}, NEW b \in Nat, NEW end \in Nat, b <= end
  PROVE  /\ Count(P, b, end) \in Nat /\ (b < end => Count(P, b, end) # 0)
         /\ Shares(P, b, end) \in Seq(Nat \X Int)
         /\ Len(Shares(P, b, end)) = Count(P, b, end)
<1> DEFINE d == b \div P
           l == (end - 1) \div P
<1>1. d \in Nat /\ d * P <= b /\ b < d * P + P /\ d * P \in Nat
  BY Divided, Times
<1>2. ASSUME b < end PROVE l \in Nat /\ d <= l
  <2>1. end - 1 \in Nat /\ b <= end - 1
    BY <1>2
  <2>2. l \in Nat /\ end - 1 < l * P + P /\ l * P \in Nat
    BY <2>1, Divided, Times
  <2> HIDE DEF d, l
  <2> QED BY <1>1, <2>1, <2>2, Times
<1>3. Count(P, b, end) \in Nat /\ (b < end => Count(P, b, end) # 0)
  BY <1>1, <1>2 DEF Count
<1>4. ASSUME NEW i \in 1..Count(P, b, end)
      PROVE  <<d + i - 1, MinOf((d + i) * P, end) - MaxOf((d + i - 1) * P, b)>> \in Nat \X Int
  <2>1. d + i - 1 \in Nat /\ d + i \in Nat
    BY <1>1, <1>3
  <2>2. (d + i - 1) * P \in Nat /\ (d + i) * P \in Nat
    BY <2>1, Times
  <2> QED BY <2>1, <2>2 DEF MinOf, MaxOf
<1>5. Shares(P, b, end) =
        [i \in 1..Count(P, b, end) |-> <<d + i - 1, MinOf((d + i) * P, end) - MaxOf((d + i - 1) * P, b)>>]
  BY DEF Shares
<1> DEFINE S == Nat \X Int
           n == Count(P, b, end)
           z == [i \in 1..n |-> <<d + i - 1, MinOf((d + i) * P, end) - MaxOf((d + i - 1) * P, b)>>]
<1>6. n \in Nat /\ \A i \in 1..n : z[i] \in S
  BY <1>3, <1>4
<1>7. z \in [1..n -> S]
  <2> HIDE DEF S, n
  <2>1. z = [i \in 1..n |-> z[i]]
    OBVIOUS
  <2> HIDE DEF z
  <2> QED BY <1>6, <2>1
<1>8. Shares(P, b, end) = z
  BY <1>5
<1> HIDE DEF z, S, n
<1>9. z \in Seq(S) /\ Len(z) = n
  BY <1>6, <1>7
<1> QED BY <1>3, <1>8, <1>9 DEF n, S

\* The loop of get_dst_ranks takes the first of them.
LEMMA FirstShare ==
  ASSUME NEW P \in Nat \ {0}, NEW b \in Nat, NEW end \in Nat, b < end,
         NEW size, size = MinOf(P - (b % P), end - b)
  PROVE  /\ size \in 1..end - b
         /\ Shares(P, b, end) = <<<<b \div P, size>>>> \o Shares(P, b + size, end)
<1> DEFINE d == b \div P
           l == (end - 1) \div P
<1>1. d \in Nat /\ d * P <= b /\ b < d * P + P /\ d * P \in Nat /\ b % P = b - d * P
  BY Divided, Times
<1>2. end - 1 \in Nat /\ l \in Nat /\ l * P <= end - 1 /\ end - 1 < l * P + P /\ l * P \in Nat
  <2> DEFINE x == end - 1
  <2>1. x \in Nat
    OBVIOUS
  <2> HIDE DEF x
  <2>2. x \div P \in Nat /\ (x \div P) * P <= x /\ x < (x \div P) * P + P /\ (x \div P) * P \in Nat
    BY <2>1, Divided, Times
  <2> QED BY <2>1, <2>2 DEF x
<1>3. (d + 1) * P = d * P + P /\ \A q \in Nat : q * P \in Nat
  BY <1>1, Times
<1> HIDE DEF d, l
<1>4. size = MinOf((d + 1) * P, end) - b /\ size \in 1..end - b /\ b + size = MinOf((d + 1) * P, end)
  BY <1>1, <1>3 DEF MinOf
<1> DEFINE c == b + size
           M == (d + 1) * P
<1>c. c = b + size /\ c \in Nat /\ c = MinOf(M, end) /\ c <= end
  BY <1>1, <1>3, <1>4 DEF MinOf
<1>m. M = d * P + P /\ M \in Nat /\ d * P \in Nat /\ M <= M
  BY <1>1, <1>3
<1> HIDE DEF c, M
<1>5. d <= l
  BY <1>1, <1>2, Times
<1>6. Count(P, b, end) = l - d + 1
  BY <1>1 DEF Count, d, l
<1>7. Count(P, c, end) = l - d
  <2>1. CASE end <= M
    <3>1. l = d
      BY <1>1, <1>2, <1>m, <1>5, <2>1, Times
    <3> QED BY <1>1, <1>m, <1>c, <2>1, <3>1 DEF Count, MinOf
  <2>2. CASE ~(end <= M)
    <3>1. c = M /\ c # end /\ c \in Nat
      BY <1>m, <1>c, <2>2 DEF MinOf
    <3>2. (c) \div P = d + 1
      BY <1>1, <1>m, <3>1, DividedNext
    <3>3. Count(P, c, end) = l - (d + 1) + 1
      BY <3>1, <3>2 DEF Count, l
    <3> QED BY <1>1, <1>2, <3>3
  <2> QED BY <2>1, <2>2
<1>8. Shares(P, b, end)[1] = <<d, size>>
  <2>1. 1 \in 1..Count(P, b, end) /\ d + 1 - 1 = d
    BY <1>1, <1>2, <1>5, <1>6
  <2>2. Shares(P, b, end)[1] = <<d + 1 - 1, MinOf(M, end) - MaxOf((d + 1 - 1) * P, b)>>
    BY <2>1 DEF Shares, d, M
  <2>3. MaxOf((d + 1 - 1) * P, b) = b
    BY <1>1, <2>1 DEF MaxOf
  <2> QED BY <1>4, <2>1, <2>2, <2>3 DEF M
<1>9. ASSUME NEW i \in 2..(l - d + 1) PROVE Shares(P, b, end)[i] = Shares(P, c, end)[i - 1]
  <2>0. i \in 1..Count(P, b, end) /\ i - 1 \in 1..Count(P, c, end) /\ d < l
    BY <1>1, <1>2, <1>6, <1>7, <1>9
  <2>1. end > M
    BY <1>1, <1>2, <1>m, <2>0, Times
  <2>2. c = M /\ c \in Nat
    BY <1>m, <1>c, <2>1 DEF MinOf
  <2>3. (c) \div P = d + 1
    BY <1>1, <1>m, <2>2, DividedNext
  <2>4. Shares(P, b, end)[i] = <<d + i - 1, MinOf((d + i) * P, end) - MaxOf((d + i - 1) * P, b)>>
    BY <2>0 DEF Shares, d
  <2> DEFINE k == i - 1
  <2>5. Shares(P, c, end)[k] =
          <<(d + 1) + k - 1, MinOf(((d + 1) + k) * P, end) - MaxOf(((d + 1) + k - 1) * P, c)>>
    <3> HIDE DEF k
    <3>1. k \in 1..Count(P, c, end)
      BY <2>0 DEF k
    <3> QED BY <2>3, <3>1 DEF Shares
  <2>6. (d + 1) + k = d + i /\ (d + 1) + k - 1 = d + i - 1 /\ d + i - 1 \in Nat /\ d + 1 <= d + i - 1
    BY <1>1, <1>9, <2>0
  <2>7. M <= (d + i - 1) * P
    <3> DEFINE q == d + i - 1
               r == d + 1
    <3>1. r \in Nat /\ q \in Nat /\ (r < q \/ r = q) /\ r * P \in Nat /\ q * P \in Nat
      BY <1>1, <1>3, <2>6
    <3> HIDE DEF q, r
    <3>2. r * P <= q * P
      BY <3>1, Times
    <3> QED BY <3>2 DEF q, r, M
  <2>8. MaxOf((d + i - 1) * P, b) = (d + i - 1) * P /\ MaxOf((d + i - 1) * P, c) = (d + i - 1) * P
    <3>1. (d + i - 1) * P \in Nat /\ b <= (d + i - 1) * P
      BY <1>1, <1>3, <1>c, <1>4, <2>2, <2>6, <2>7
    <3> QED BY <2>2, <2>7, <3>1 DEF MaxOf
  <2> QED BY <2>4, <2>5, <2>6, <2>8
<1>10. /\ Shares(P, b, end) \in Seq(Nat \X Int) /\ Len(Shares(P, b, end)) = l - d + 1
       /\ Shares(P, c, end) \in Seq(Nat \X Int) /\ Len(Shares(P, c, end)) = l - d
  <2>1. c \in Nat /\ c <= end
    BY <1>c
  <2> QED BY <1>6, <1>7, <2>1, SharesType
<1> DEFINE s == Shares(P, b, end)
           t == Shares(P, c, end)
           u == <<<<d, size>>>>
           S == Nat \X Int
<1>11. /\ s \in Seq(S) /\ t \in Seq(S) /\ Len(s) = 1 + Len(t) /\ Len(t) = l - d
       /\ s[1] = <<d, size>> /\ <<d, size>> \in S
       /\ \A i \in 2..(l - d + 1) : s[i] = t[i - 1]
  <2> HIDE DEF S
  <2>1. <<d, size>> \in S
    BY <1>1, <1>4 DEF S
  <2> QED BY <1>1, <1>2, <1>8, <1>9, <1>10, <2>1 DEF S
<1> HIDE DEF s, t, S
<1>12. u \in Seq(S) /\ Len(u) = 1 /\ u[1] = <<d, size>>
  BY <1>11
<1>13. \A i \in 1..Len(t) : s[1 + i] = t[i]
  <2> SUFFICES ASSUME NEW i \in 1..Len(t) PROVE s[1 + i] = t[i]
    OBVIOUS
  <2>2. i \in 1..l - d /\ l \in Int /\ d \in Int BY <1>1, <1>2, <1>11
  <2>1. 1 + i \in 2..(l - d + 1) /\ (1 + i) - 1 = i
    BY <2>2
  <2> QED BY <1>11, <2>1
<1>14. s = u \o t
  <2> HIDE DEF u
  <2>1. Len(s) = Len(u) + Len(t)
    BY <1>11, <1>12
  <2>3. \A i \in 1..Len(u) : s[i] = u[i]
    <3>1. \A i \in 1..Len(u) : i = 1
      BY <1>12
    <3>2. s[1] = u[1]
      BY <1>11, <1>12
    <3> QED BY <3>1, <3>2
  <2>2. \A i \in 1..Len(t) : s[Len(u) + i] = t[i]
    BY <1>12, <1>13
  <2> QED BY <1>11, <1>12, <2>1, <2>2, <2>3, Joins
<1> QED BY <1>4, <1>14 DEF d, s, t, c

\* What the loop of get_dst_ranks recurs on.
Shared(h, per, end) ==
  h = [b \in 0..end |->
        IF b = end THEN <<>>
        ELSE LET size == Min({per - (b % per), end - b})
             IN <<<<b \div per, size>>>> \o h[b + size]]

\* An empty interval has no shares.
LEMMA NoShare == ASSUME NEW P, NEW end PROVE Shares(P, end, end) = <<>>
BY DEF Shares, Count

\* The shares obey the recursion of CommMapper.get_dst_ranks.
LEMMA SharesRecur ==
  ASSUME NEW P \in Nat \ {0}, NEW end \in Nat, NEW b \in 0..end, b # end,
         NEW size, size = Min({P - (b % P), end - b})
  PROVE  /\ size \in 1..end - b
         /\ Shares(P, b, end) = <<<<b \div P, size>>>> \o Shares(P, b + size, end)
<1>1. P - (b % P) \in Int /\ end - b \in Int /\ b \in Nat /\ b < end
  BY Divided
<1>2. size = MinOf(P - (b % P), end - b)
  BY <1>1, MinIs
<1> QED BY <1>1, <1>2, FirstShare, Zenon

\* A function that obeys the recursion gives the shares.
LEMMA SharedIs ==
  ASSUME NEW P \in Nat \ {0}, NEW end \in Nat, NEW h, Shared(h, P, end)
  PROVE  \A b \in 0..end : h[b] = Shares(P, b, end)
<1> DEFINE T == {k \in Nat : \A b \in 0..end : end - b <= k => h[b] = Shares(P, b, end)}
<1>1. h[end] = Shares(P, end, end)
  BY NoShare DEF Shared
<1>2. 0 \in T
  <2>1. \A b \in 0..end : end - b <= 0 => b = end
    OBVIOUS
  <2> QED BY <1>1, <2>1
<1>3. ASSUME NEW k \in T \cap Nat PROVE k + 1 \in T
  <2> SUFFICES ASSUME NEW b \in 0..end, end - b <= k + 1 PROVE h[b] = Shares(P, b, end)
    OBVIOUS
  <2>1. CASE b = end
    BY <1>1, <2>1
  <2>2. CASE b # end
    <3> DEFINE size == Min({P - (b % P), end - b})
    <3>1. h[b] = <<<<b \div P, size>>>> \o h[b + size]
      BY <2>2 DEF Shared
    <3> HIDE DEF size
    <3>2. size \in 1..end - b /\ Shares(P, b, end) = <<<<b \div P, size>>>> \o Shares(P, b + size, end)
      BY <2>2, SharesRecur DEF size
    <3>3. b + size \in 0..end /\ end - (b + size) <= k
      BY <3>2
    <3> QED BY <3>1, <3>2, <3>3
  <2> QED BY <2>1, <2>2
<1>4. \A k \in Nat : k \in T
  <2> HIDE DEF T
  <2> QED BY <1>2, <1>3, Induction
<1> QED BY <1>4

\* There is one, so that DstRanks, which chooses it, is well defined.
LEMMA SharedExists == ASSUME NEW P \in Nat \ {0}, NEW end \in Nat PROVE \E g : Shared(g, P, end)
<1> DEFINE g == [b \in 0..end |-> Shares(P, b, end)]
<1>1. ASSUME NEW b \in 0..end
      PROVE  g[b] = IF b = end THEN <<>>
                    ELSE LET size == Min({P - (b % P), end - b})
                         IN <<<<b \div P, size>>>> \o g[b + size]
  <2>1. CASE b = end
    BY <2>1, NoShare
  <2>2. CASE b # end
    <3> DEFINE size == Min({P - (b % P), end - b})
    <3>1. size \in 1..end - b /\ Shares(P, b, end) = <<<<b \div P, size>>>> \o Shares(P, b + size, end)
      <4> HIDE DEF size, g
      <4> QED BY <2>2, SharesRecur, Zenon DEF size
    <3> HIDE DEF size
    <3>2. b + size \in 0..end
      BY <3>1
    <3> QED BY <2>2, <3>1, <3>2 DEF size
  <2> QED BY <2>1, <2>2
<1> HIDE DEF g
<1>2. g = [b \in 0..end |-> g[b]]
  BY DEF g
<1> QED BY <1>1, <1>2 DEF Shared

\* p and q are the shares of the two worlds.
Parts(slots, n, p, m, q) == slots \div n = p /\ slots \div m = q

\* The destinations of a rank are the shares of its interval of slots.
LEMMA DstRanksAre ==
  ASSUME NEW slots, NEW n, NEW m, NEW src \in Nat, NEW pn \in Nat \ {0}, NEW pm \in Nat \ {0},
         Parts(slots, n, pn, m, pm)
  PROVE  DstRanks(slots, n, m, src) = Shares(pm, src * pn, (src + 1) * pn)
<1> DEFINE end == (src + 1) * pn
           start == src * pn
           h == CHOOSE f : f = [b \in 0..end |->
                 IF b = end THEN <<>>
                 ELSE LET size == Min({pm - (b % pm), end - b})
                      IN <<<<b \div pm, size>>>> \o f[b + size]]
<1>1. end \in Nat /\ start \in 0..end
  BY Times
<1>2. DstRanks(slots, n, m, src) = h[start]
  BY Zenon DEF DstRanks, Parts
<1>3. Shared(h, pm, end)
  <2>1. \E f : Shared(f, pm, end)
    <3> HIDE DEF end
    <3> QED BY <1>1, SharedExists
  <2> HIDE DEF end
  <2> QED BY <2>1, Zenon DEF Shared
<1> HIDE DEF h, end, start
<1>4. h[start] = Shares(pm, start, end)
  BY <1>1, <1>3, SharedIs
<1> QED BY <1>2, <1>4 DEF start, end

Peers(p, q, a) == Count(q, a * p, (a + 1) * p)

\* The destinations are consecutive ranks, at least one, and what each gets is what the two intervals have in common.
LEMMA PeersType ==
  ASSUME NEW p \in Nat \ {0}, NEW q \in Nat \ {0}, NEW a \in Nat
  PROVE  /\ FirstPeer(p, q, a) \in Nat /\ Peers(p, q, a) \in Nat \ {0}
         /\ Shares(q, a * p, (a + 1) * p) =
              [i \in 1..Peers(p, q, a) |->
                <<FirstPeer(p, q, a) + i - 1, Common(p, a, q, FirstPeer(p, q, a) + i - 1)>>]
<1> DEFINE b == a * p
           end == (a + 1) * p
<1>1. b \in Nat /\ end \in Nat /\ b < end
  BY Times
<1> HIDE DEF b, end
<1>2. b \div q \in Nat
  BY <1>1, Divided
<1>3. Count(q, b, end) \in Nat \ {0}
  BY <1>1, SharesType
<1> DEFINE d == b \div q
<1> HIDE DEF d
<1>4. \A i \in 1..Count(q, b, end) : (d + i - 1) + 1 = d + i
  BY <1>2, <1>3 DEF d
<1>5. Shares(q, b, end) = [i \in 1..Count(q, b, end) |->
         <<d + i - 1, MinOf(((d + i - 1) + 1) * q, end) - MaxOf((d + i - 1) * q, b)>>]
  BY <1>4 DEF Shares, d
<1> QED BY <1>2, <1>3, <1>5 DEF FirstPeer, Peers, Common, b, end, d

\* Their number and the first of them are natural numbers.
LEMMA PeersNat ==
  ASSUME NEW p \in Nat \ {0}, NEW q \in Nat \ {0}, NEW a \in Nat
  PROVE  FirstPeer(p, q, a) \in Nat /\ Peers(p, q, a) \in Nat \ {0}
BY PeersType

\* Two ranks have slots in common if each is a peer of the other.
LEMMA Meeting ==
  ASSUME NEW p \in Nat \ {0}, NEW q \in Nat \ {0}, NEW a \in Nat, NEW b \in Nat
  PROVE  /\ Common(p, a, q, b) \in Int /\ Common(q, b, p, a) = Common(p, a, q, b)
         /\ Common(p, a, q, b) > 0 <=>
              FirstPeer(p, q, a) <= b /\ b < FirstPeer(p, q, a) + Peers(p, q, a)
<1> DEFINE x == a * p
           y == b * q
           d == x \div q
           l == (x + p - 1) \div q
<1>1. x \in Nat /\ y \in Nat /\ (a + 1) * p = x + p /\ (b + 1) * q = y + q
  BY Times
<1> HIDE DEF x, y
<1>2. d \in Nat /\ d * q <= x /\ x < d * q + q /\ d * q \in Nat
  BY <1>1, Divided, Times
<1>3. l \in Nat /\ l * q <= x + p - 1 /\ x + p - 1 < l * q + q /\ l * q \in Nat
  <2> DEFINE z == x + p - 1
  <2>1. z \in Nat
    BY <1>1
  <2> HIDE DEF z
  <2>2. z \div q \in Nat /\ (z \div q) * q <= z /\ z < (z \div q) * q + q /\ (z \div q) * q \in Nat
    BY <2>1, Divided, Times
  <2> QED BY <2>2 DEF z
<1>4. Common(p, a, q, b) = MinOf(y + q, x + p) - MaxOf(y, x)
  BY <1>1 DEF Common, x, y
<1>5. Common(q, b, p, a) = MinOf(x + p, y + q) - MaxOf(x, y)
  BY <1>1 DEF Common, x, y
<1>6. Common(p, a, q, b) > 0 <=> y < x + p /\ x < y + q
  BY <1>1, <1>4 DEF MinOf, MaxOf
<1>7. FirstPeer(p, q, a) = d /\ Peers(p, q, a) = l - d + 1
  BY <1>1 DEF FirstPeer, Peers, Count, x
<1> HIDE DEF d, l
<1>8. ASSUME d <= b, b <= l PROVE y < x + p /\ x < y + q
  <2>1. d = b \/ d * q + q <= y
    BY <1>2, <1>8, Times DEF y
  <2>2. l = b \/ y + q <= l * q
    BY <1>3, <1>8, Times DEF y
  <2>3. (d = b => d * q = y) /\ (l = b => l * q = y)
    BY DEF y
  <2> QED BY <1>1, <1>2, <1>3, <2>1, <2>2, <2>3
<1>9. ASSUME y < x + p, x < y + q PROVE d <= b /\ b <= l
  <2>1. b < d => y + q <= d * q
    BY <1>2, Times DEF y
  <2>2. l < b => l * q + q <= y
    BY <1>3, Times DEF y
  <2> QED BY <1>1, <1>2, <1>3, <1>9, <2>1, <2>2
<1>10. Common(p, a, q, b) \in Int /\ Common(q, b, p, a) = Common(p, a, q, b)
  BY <1>1, <1>4, <1>5 DEF MinOf, MaxOf
<1>11. (b < d + (l - d + 1)) <=> b <= l
  BY <1>2, <1>3
<1> QED BY <1>6, <1>7, <1>8, <1>9, <1>10, <1>11

\* What a rank has in common with its peers follows one on another, from its
\* first slot to its last.
LEMMA PeersCut ==
  ASSUME NEW p \in Nat \ {0}, NEW q \in Nat \ {0}, NEW a \in Nat,
         NEW F, F = FirstPeer(p, q, a), NEW C, C = Peers(p, q, a)
  PROVE  /\ Begin(p, a, q, F) = a * p
         /\ \A i \in 1..C : Begin(p, a, q, F + i - 1) \in Nat /\ Common(p, a, q, F + i - 1) > 0
         /\ \A i \in 1..C : i < C => Begin(p, a, q, F + i - 1) + Common(p, a, q, F + i - 1)
                                       = Begin(p, a, q, F + (i + 1) - 1)
         /\ Begin(p, a, q, F + C - 1) + Common(p, a, q, F + C - 1) = (a + 1) * p
<1> DEFINE x == a * p
<1>0. F \in Nat /\ C \in Nat \ {0}
  BY PeersType
<1>1. x \in Nat /\ (a + 1) * p = x + p
  BY Times
<1>2. \A b \in Nat : b * q \in Nat /\ (b + 1) * q = b * q + q
  BY Times
<1>3. \A b \in Nat : /\ Begin(p, a, q, b) = MaxOf(b * q, x)
                     /\ Common(p, a, q, b) = MinOf(b * q + q, x + p) - MaxOf(b * q, x)
  BY <1>1, <1>2 DEF Begin, Common
<1>4. F * q <= x
  BY <1>1, Divided DEF FirstPeer
<1>5. \A b \in Nat : Common(p, a, q, b) > 0 <=> F <= b /\ b < F + C
  BY Meeting
<1>m. \A b \in Nat : MinOf(b * q + q, x + p) > MaxOf(b * q, x) <=> b * q < x + p /\ x < b * q + q
  BY <1>1, <1>2 DEF MinOf, MaxOf
<1> HIDE DEF x
<1>6. Begin(p, a, q, F) = x
  BY <1>0, <1>1, <1>2, <1>3, <1>4 DEF MaxOf
<1>7. ASSUME NEW i \in 1..C PROVE Begin(p, a, q, F + i - 1) \in Nat /\ Common(p, a, q, F + i - 1) > 0
  <2> DEFINE b == F + i - 1
  <2>1. b \in Nat /\ F <= b /\ b < F + C
    BY <1>0
  <2> HIDE DEF b
  <2>2. Begin(p, a, q, b) \in Nat /\ Common(p, a, q, b) > 0
    BY <1>1, <1>2, <1>3, <1>5, <2>1 DEF MaxOf
  <2> QED BY <2>2 DEF b
<1>8. ASSUME NEW i \in 1..C, i < C
      PROVE  Begin(p, a, q, F + i - 1) + Common(p, a, q, F + i - 1) = Begin(p, a, q, F + (i + 1) - 1)
  <2> DEFINE b == F + i - 1
             c == b + 1
  <2>1. b \in Nat /\ F <= b /\ b < F + C /\ c \in Nat /\ F <= c /\ c < F + C /\ F + (i + 1) - 1 = c
    BY <1>0, <1>8
  <2>2. c * q = b * q + q /\ b * q \in Nat
    BY <1>2, <2>1
  <2> HIDE DEF b, c
  <2>3. /\ Begin(p, a, q, b) = MaxOf(b * q, x)
        /\ Common(p, a, q, b) = MinOf(c * q, x + p) - MaxOf(b * q, x)
        /\ Begin(p, a, q, c) = MaxOf(c * q, x)
    BY <1>3, <2>1, <2>2
  <2>4. x < c * q /\ c * q < x + p
    <3>1. Common(p, a, q, b) > 0 /\ Common(p, a, q, c) > 0
      BY <1>5, <2>1
    <3>2. MinOf(b * q + q, x + p) - MaxOf(b * q, x) > 0 /\ MinOf(c * q + q, x + p) - MaxOf(c * q, x) > 0
      BY <1>3, <2>1, <3>1
    <3> QED BY <1>1, <2>2, <3>2 DEF MinOf, MaxOf
  <2>5. Begin(p, a, q, b) + Common(p, a, q, b) = Begin(p, a, q, c)
    BY <1>1, <2>2, <2>3, <2>4 DEF MinOf, MaxOf
  <2> QED BY <2>1, <2>5 DEF b
<1>9. Begin(p, a, q, F + C - 1) + Common(p, a, q, F + C - 1) = x + p
  <2> DEFINE b == F + C - 1
             c == b + 1
  <2>1. b \in Nat /\ F <= b /\ b < F + C /\ c \in Nat /\ ~(c < F + C)
    BY <1>0
  <2>2. c * q = b * q + q /\ b * q \in Nat
    BY <1>2, <2>1
  <2> HIDE DEF b, c
  <2>3. /\ Begin(p, a, q, b) = MaxOf(b * q, x)
        /\ Common(p, a, q, b) = MinOf(b * q + q, x + p) - MaxOf(b * q, x)
        /\ Common(p, a, q, c) = MinOf(c * q + q, x + p) - MaxOf(c * q, x)
    BY <1>3, <2>1
  <2>4. Common(p, a, q, b) > 0 /\ ~(Common(p, a, q, c) > 0)
    BY <1>5, <2>1
  <2>5. Begin(p, a, q, b) + Common(p, a, q, b) = x + p
    BY <1>1, <2>2, <2>3, <2>4 DEF MinOf, MaxOf
  <2> QED BY <2>5 DEF b
<1> QED BY <1>1, <1>6, <1>7, <1>8, <1>9 DEF x

\* p slots for each of n ranks are as many as q for each of m.
Even(n, p, m, q) == n * p = m * q

\* Every destination is a rank of the other group.
LEMMA PeersExist ==
  ASSUME NEW n \in Nat \ {0}, NEW m \in Nat \ {0}, NEW p \in Nat \ {0}, NEW q \in Nat \ {0},
         Even(n, p, m, q), NEW a \in 0..n - 1
  PROVE  FirstPeer(p, q, a) + Peers(p, q, a) <= m
<1>1. a \in Nat /\ m \in Nat /\ FirstPeer(p, q, a) \in Nat /\ Peers(p, q, a) \in Nat \ {0}
  <2>1. a \in Nat
    OBVIOUS
  <2> QED BY <2>1, PeersNat
<1>2. ~(Common(p, a, q, m) > 0)
  <2> DEFINE x == a * p
             y == m * q
  <2>1. x \in Nat /\ y \in Nat /\ (a + 1) * p = x + p /\ (m + 1) * q = y + q
    BY <1>1, Times
  <2>2. x + p <= y
    <3>1. a < n /\ n \in Nat
      OBVIOUS
    <3>2. (a + 1) * p <= n * p
      <4>1. a + 1 = n \/ a + 1 < n
        BY <1>1, <3>1
      <4>2. (a + 1) * p \in Nat /\ n * p \in Nat /\ a + 1 \in Nat
        BY <1>1, Times
      <4>3. a + 1 < n => (a + 1) * p + p <= n * p
        BY <4>2, Times
      <4>4. a + 1 = n => (a + 1) * p = n * p
        OBVIOUS
      <4> QED BY <4>1, <4>2, <4>3, <4>4
    <3> QED BY <2>1, <3>2 DEF Even
  <2>3. Common(p, a, q, m) = MinOf(y + q, x + p) - MaxOf(y, x)
    BY <2>1 DEF Common
  <2> HIDE DEF x, y
  <2> QED BY <2>1, <2>2, <2>3 DEF MinOf, MaxOf
<1>3. m < FirstPeer(p, q, a) + Peers(p, q, a) => FirstPeer(p, q, a) > m
  BY <1>1, <1>2, Meeting
<1>4. FirstPeer(p, q, a) < m
  <2> DEFINE x == a * p
             d == x \div q
  <2>1. x \in Nat /\ (a + 1) * p = x + p
    BY <1>1, Times
  <2>2. x + p <= m * q
    <3>1. a < n /\ n \in Nat
      OBVIOUS
    <3>2. a * p + p <= n * p
      BY <1>1, <3>1, Times
    <3> QED BY <3>2 DEF Even
  <2> HIDE DEF x
  <2>3. d \in Nat /\ d * q <= x /\ d * q \in Nat /\ m * q \in Nat
    BY <2>1, Divided, Times
  <2> HIDE DEF d
  <2>4. d < m
    <3>1. m < d => m * q + q <= d * q
      BY <2>3, Times
    <3>2. m = d => m * q = d * q
      OBVIOUS
    <3> QED BY <2>1, <2>2, <2>3, <3>1, <3>2
  <2> QED BY <2>4 DEF FirstPeer, d, x
<1> QED BY <1>1, <1>3, <1>4

\* A rank sends to those it has slots in common with.
LEMMA SendsIfMeets ==
  ASSUME NEW slots, NEW n, NEW m, NEW p \in Nat \ {0}, NEW q \in Nat \ {0},
         Parts(slots, n, p, m, q), NEW a \in Nat, NEW b \in Nat
  PROVE  Sends(slots, n, m, a, b) <=> Common(p, a, q, b) > 0
<1> DEFINE F == FirstPeer(p, q, a)
           C == Peers(p, q, a)
           d == DstRanks(slots, n, m, a)
<1>1. F \in Nat /\ C \in Nat \ {0} /\ d = [i \in 1..C |-> <<F + i - 1, Common(p, a, q, F + i - 1)>>]
  <2>1. F \in Nat /\ C \in Nat \ {0}
    BY PeersNat
  <2>2. d = Shares(q, a * p, (a + 1) * p)
    BY DstRanksAre
  <2> HIDE DEF d
  <2> QED BY <2>1, <2>2, PeersType
<1> HIDE DEF d
<1>2. Sends(slots, n, m, a, b) <=> \E i \in 1..C : F + i - 1 = b
  <2>1. Sends(slots, n, m, a, b) <=> \E s \in ToSet(d) : s[1] = b
    BY DEF Sends, d
  <2> HIDE DEF F, C
  <2>2. ToSet(d) = {d[i] : i \in 1..C} /\ \A i \in 1..C : d[i][1] = F + i - 1
    BY <1>1 DEF ToSet
  <2> QED BY <2>1, <2>2
<1>3. Common(p, a, q, b) > 0 <=> F <= b /\ b < F + C
  BY Meeting
<1> HIDE DEF F, C
<1>4. ASSUME F <= b, b < F + C PROVE \E i \in 1..C : F + i - 1 = b
  <2>1. b - F + 1 \in 1..C /\ F + (b - F + 1) - 1 = b
    BY <1>1, <1>4
  <2> QED BY <2>1
<1>5. \A i \in 1..C : F <= F + i - 1 /\ F + i - 1 < F + C
  BY <1>1
<1> QED BY <1>2, <1>3, <1>4, <1>5

\* Of the first k ranks those from F on, C at most.
Within(F, C, k) == [i \in 1..(IF k <= F THEN 0 ELSE MinOf(k - F, C)) |-> F + i - 1]

\* The ranks of an interval below k, one rank on.
LEMMA WithinNext ==
  ASSUME NEW F \in Nat, NEW C \in Nat, NEW k \in Nat \ {0}
  PROVE  /\ Within(F, C, 0) = <<>>
         /\ Within(F, C, k) = Within(F, C, k - 1) \o
              (IF F <= k - 1 /\ k - 1 < F + C THEN <<k - 1>> ELSE <<>>)
<1> DEFINE s == Within(F, C, k)
           u == Within(F, C, k - 1)
           t == IF F <= k - 1 /\ k - 1 < F + C THEN <<k - 1>> ELSE <<>>
<1>1. Within(F, C, 0) = <<>>
  BY DEF Within
<1>2. s \in Seq(Nat) /\ u \in Seq(Nat) /\ t \in Seq(Nat)
  BY DEF Within, MinOf
<1>3. Len(s) = Len(u) + Len(t)
  BY DEF Within, MinOf
<1>4. \A i \in 1..Len(u) : s[i] = u[i]
  BY DEF Within, MinOf
<1>5. \A i \in 1..Len(t) : s[Len(u) + i] = t[i]
  BY DEF Within, MinOf
<1> HIDE DEF s, u, t
<1>6. s = u \o t
  BY <1>2, <1>3, <1>4, <1>5, Joins
<1> QED BY <1>1, <1>6 DEF s, u, t

\* The peers of a, in order.
PeersOf(p, q, a) == [i \in 1..Peers(p, q, a) |-> FirstPeer(p, q, a) + i - 1]

\* CommMapper.get_src_ranks lists exactly the ranks whose slots meet, in order.
LEMMA SrcRanksAre ==
  ASSUME NEW slots, NEW n \in Nat \ {0}, NEW m \in Nat \ {0}, NEW p \in Nat \ {0}, NEW q \in Nat \ {0},
         Parts(slots, n, p, m, q), Even(n, p, m, q), NEW b \in 0..m - 1
  PROVE  SrcRanks(slots, n, m, b) = PeersOf(q, p, b)
<1> DEFINE F == FirstPeer(q, p, b)
           C == Peers(q, p, b)
           W(k) == Within(F, C, k)
           New(s) == IF Sends(slots, n, m, s - 1, b) THEN <<s - 1>> ELSE <<>>
           g == [s \in 0..n |-> W(s)]
           h == CHOOSE f : f = [s \in 0..n |->
                  IF s = 0 THEN <<>> ELSE f[s - 1] \o New(s)]
           T == {k \in Nat : k <= n => h[k] = W(k)}
<1>1. F \in Nat /\ C \in Nat \ {0} /\ b \in Nat /\ F + C <= n
  <2>1. b \in Nat /\ Even(m, q, n, p)
    BY DEF Even
  <2> QED BY <2>1, PeersNat, PeersExist
<1>2. SrcRanks(slots, n, m, b) = h[n]
  BY DEF SrcRanks
<1>3. W(0) = <<>> /\ \A s \in 1..n : W(s) = W(s - 1) \o New(s)
  <2>1. ASSUME NEW s \in 1..n PROVE W(s) = W(s - 1) \o New(s)
    <3> DEFINE a == s - 1
    <3>1. a \in Nat
      OBVIOUS
    <3> HIDE DEF a, F, C, g, h, T, W
    <3>2. Sends(slots, n, m, a, b) <=> Common(p, a, q, b) > 0
      BY <1>1, <3>1, SendsIfMeets
    <3>3. Common(p, a, q, b) > 0 <=> F <= a /\ a < F + C
      <4>1. Common(q, b, p, a) > 0 <=> FirstPeer(q, p, b) <= a /\ a < FirstPeer(q, p, b) + Peers(q, p, b)
        BY <1>1, <3>1, Meeting, Zenon
      <4>2. Common(q, b, p, a) = Common(p, a, q, b)
        BY <1>1, <3>1, Meeting
      <4> QED BY <4>1, <4>2 DEF F, C
    <3>5. s \in Nat \ {0}
      OBVIOUS
    <3>4. Within(F, C, s) = Within(F, C, s - 1) \o
              (IF F <= s - 1 /\ s - 1 < F + C THEN <<s - 1>> ELSE <<>>)
      BY <1>1, <3>5, WithinNext, Zenon
    <3> QED BY <3>2, <3>3, <3>4 DEF a, W
  <2> HIDE DEF F, C
  <2>2. W(0) = <<>>
    BY <1>1, WithinNext, Zenon
  <2> HIDE DEF W, New
  <2> QED BY <2>1, <2>2
<1> HIDE DEF F, C, W, New
<1>4. h = [s \in 0..n |-> IF s = 0 THEN <<>> ELSE h[s - 1] \o New(s)]
  <2>1. g = [s \in 0..n |-> IF s = 0 THEN <<>> ELSE g[s - 1] \o New(s)]
    <3>1. ASSUME NEW s \in 0..n PROVE W(s) = IF s = 0 THEN <<>> ELSE g[s - 1] \o New(s)
      <4>1. CASE s = 0
        BY <1>3, <4>1
      <4>2. CASE s # 0
        <5>1. s \in 1..n /\ s - 1 \in 0..n
          BY <4>2
        <5>2. g[s - 1] = W(s - 1)
          BY <5>1
        <5> QED BY <1>3, <4>2, <5>1, <5>2
      <4> QED BY <4>1, <4>2
    <3> QED BY <3>1
  <2> HIDE DEF g
  <2> QED BY <2>1, Zenon
<1> HIDE DEF h
<1>5. 0 \in T
  BY <1>3, <1>4
<1>6. ASSUME NEW k \in T \cap Nat PROVE k + 1 \in T
  <2> SUFFICES ASSUME k + 1 <= n PROVE h[k + 1] = W(k + 1)
    OBVIOUS
  <2>1. h[k] = W(k) /\ k + 1 \in 1..n /\ (k + 1) - 1 = k
    OBVIOUS
  <2>2. h[k + 1] = h[k] \o New(k + 1)
    <3> DEFINE i == k + 1
    <3>1. i \in 0..n /\ i # 0 /\ i - 1 = k
      OBVIOUS
    <3> HIDE DEF i, T, g
    <3>2. h[i] = h[k] \o New(i)
      BY <1>4, <3>1
    <3> QED BY <3>2 DEF i
  <2>3. W(k + 1) = W(k) \o New(k + 1)
    BY <1>3, <2>1
  <2> QED BY <2>1, <2>2, <2>3
<1>7. n \in T
  <2> HIDE DEF T
  <2> QED BY <1>5, <1>6, Induction
<1>8. W(n) = [i \in 1..C |-> F + i - 1]
  BY <1>1 DEF W, Within, MinOf
<1>9. h[n] = W(n)
  BY <1>7
<1> QED BY <1>2, <1>8, <1>9 DEF F, C, PeersOf

-----------------------------------------------------------------------------
(* Splitting and merging *)

\* What FlattenSeq recurs on.
Flattens(h, seqs, n) ==
  h = [i \in 1 .. n |-> IF i = 1 THEN seqs[i] ELSE h[i - 1] \o seqs[i]]

\* FlattenSeq adds one sequence after the other.
LEMMA FlattenUnfolds ==
  ASSUME NEW S, NEW n \in Nat \ {0}, NEW seqs, Len(seqs) = n, \A k \in 1 .. n : seqs[k] \in Seq(S)
  PROVE  \E h : FlattenSeq(seqs) = h[n] /\ Flattens(h, seqs, n)
<1> DEFINE B == Seq(S)
           base == <<>>
           step == [p \in Nat \X B |-> IF p[1] \in 1 .. n THEN p[2] \o seqs[p[1]] ELSE p[2]]
<1>1. base \in B /\ step \in [Nat \X B -> B] /\ \A b \in B : <<>> \o b = b
  <2>1. \A p \in Nat \X B : (IF p[1] \in 1 .. n THEN p[2] \o seqs[p[1]] ELSE p[2]) \in B
    OBVIOUS
  <2> QED BY <2>1
<1>2. \A k \in 1 .. n, b \in B : step[<<k, b>>] = b \o seqs[k]
  <2> HIDE DEF B
  <2> SUFFICES ASSUME NEW k \in 1 .. n, NEW b \in B PROVE step[<<k, b>>] = b \o seqs[k]
    OBVIOUS
  <2> DEFINE p == <<k, b>>
  <2>1. p \in Nat \X B /\ p[1] = k /\ p[2] = b
    OBVIOUS
  <2> HIDE DEF p
  <2>2. step[p] = p[2] \o seqs[p[1]]
    BY <2>1
  <2> QED BY <2>1, <2>2 DEF p
<1>3. \A k \in 1 .. n : seqs[k] \in B
  OBVIOUS
<1> HIDE DEF B, base, step
<1>4. PICK f : Iterated(f, n, B, base, step)
  BY <1>1, Recursion
<1>5. f \in [0 .. n -> B] /\ f[0] = base /\ \A k \in 1 .. n : f[k] = step[<<k, f[k - 1]>>]
  BY <1>4 DEF Iterated
<1> DEFINE g == [i \in 1 .. n |-> f[i]]
<1>6. g = [i \in 1 .. n |-> IF i = 1 THEN seqs[i] ELSE g[i - 1] \o seqs[i]]
  <2>1. ASSUME NEW i \in 1 .. n PROVE f[i] = IF i = 1 THEN seqs[i] ELSE g[i - 1] \o seqs[i]
    <3>1. f[i] = f[i - 1] \o seqs[i]
      <4>1. i - 1 \in 0 .. n
        OBVIOUS
      <4> QED BY <1>2, <1>5, <4>1
    <3>2. CASE i = 1
      <4>1. f[i] = <<>> \o seqs[i]
        BY <1>5, <3>1, <3>2 DEF base
      <4>2. seqs[i] \in Seq(S)
        BY <1>3 DEF B
      <4>3. f[i] = seqs[i]
        BY <4>1, <4>2
      <4> QED BY <3>2, <4>3, Zenon
    <3>3. CASE i # 1
      <4>1. i - 1 \in 1 .. n
        BY <3>3
      <4> QED BY <3>1, <3>3, <4>1, Zenon
    <3> QED BY <3>2, <3>3
  <2> QED BY <2>1
<1> HIDE DEF g
<1> DEFINE h == CHOOSE z : z = [i \in 1 .. n |-> IF i = 1 THEN seqs[i] ELSE z[i - 1] \o seqs[i]]
<1>7. h = [i \in 1 .. n |-> IF i = 1 THEN seqs[i] ELSE h[i - 1] \o seqs[i]]
  BY <1>6, Zenon
<1>8. FlattenSeq(seqs) = h[n]
  BY DEF FlattenSeq
<1> HIDE DEF h
<1> QED BY <1>7, <1>8 DEF Flattens

\* n elements after the first k.
PartOf(s, k, n) == [j \in 1..n |-> s[k + j]]

\* A slice of a sequence, element by element.
LEMMA PartIs ==
  ASSUME NEW S, NEW s \in Seq(S), NEW k \in Nat, NEW n \in Nat, k + n <= Len(s)
  PROVE  /\ SubSeq(s, k + 1, k + n) = PartOf(s, k, n)
         /\ PartOf(s, k, n) \in Seq(S) /\ Len(PartOf(s, k, n)) = n
         /\ \A j \in 1..n : PartOf(s, k, n)[j] = s[k + j]
<1>1. PartOf(s, k, n) \in Seq(S) /\ Len(PartOf(s, k, n)) = n
  BY DEF PartOf
<1>2. \A j \in 1..n : PartOf(s, k, n)[j] = s[k + j]
  BY DEF PartOf
<1> DEFINE u == SubSeq(s, k + 1, k + n)
<1>3. u \in Seq(S) /\ Len(u) = n /\ \A j \in 1..n : u[j] = s[k + j]
  <2>1. k + 1 \in Int /\ k + n \in Int /\ k + n - (k + 1) + 1 = n
    OBVIOUS
  <2>2. \A j \in 1..n : (k + 1) + j - 1 = k + j
    OBVIOUS
  <2> QED BY <2>1, <2>2
<1> DEFINE t == PartOf(s, k, n)
<1> HIDE DEF u, t
<1>4. t \in Seq(S) /\ Len(t) = n /\ \A j \in 1..n : t[j] = s[k + j]
  BY <1>1, <1>2 DEF t
<1>5. u = t
  <2>1. Len(u) = Len(t) /\ \A j \in 1..Len(u) : u[j] = t[j]
    BY <1>3, <1>4
  <2> QED BY <1>3, <1>4, <2>1, SameSeq
<1> QED BY <1>1, <1>2, <1>5 DEF u, t

\* A fact with a name, for the provers to find.
Slices(s, k, n) == SubSeq(s, k + 1, k + n) = PartOf(s, k, n)

\* A slice within the sequence is the part.
LEMMA SlicesAre ==
  ASSUME NEW S, NEW s \in Seq(S), NEW k \in Nat, NEW n \in Nat, k + n <= Len(s)
  PROVE  Slices(s, k, n)
BY PartIs DEF Slices

\* Where the parts of a batch begin.
Parting(cut, C, z) ==
  /\ cut \in [1..C + 1 -> Nat]
  /\ \A i \in 1..C : z[i] \in Nat /\ cut[i] + z[i] = cut[i + 1]

\* The cuts of a parting go up.
LEMMA PartingGrows ==
  ASSUME NEW C \in Nat, NEW cut, NEW z, Parting(cut, C, z)
  PROVE  \A i, k \in 1..C + 1 : i <= k => cut[i] <= cut[k]
<1> SUFFICES ASSUME NEW i \in 1..C + 1 PROVE \A k \in 1..C + 1 : i <= k => cut[i] <= cut[k]
  OBVIOUS
<1> DEFINE T == {d \in Nat : i + d <= C + 1 => cut[i] <= cut[i + d]}
<1>1. 0 \in T
  BY DEF Parting
<1>2. ASSUME NEW d \in T \cap Nat PROVE d + 1 \in T
  <2> SUFFICES ASSUME i + (d + 1) <= C + 1 PROVE cut[i] <= cut[i + (d + 1)]
    OBVIOUS
  <2> DEFINE k == i + d
  <2>1. k \in 1..C /\ cut[i] <= cut[k] /\ i + (d + 1) = k + 1 /\ k + 1 \in 1..C + 1 /\ k \in 1..C + 1
    OBVIOUS
  <2> HIDE DEF k, T
  <2>2. cut[k] + z[k] = cut[k + 1] /\ z[k] \in Nat /\ cut[k] \in Nat /\ cut[i] \in Nat
    BY <2>1 DEF Parting
  <2> QED BY <2>1, <2>2
<1>3. \A d \in Nat : d \in T
  <2> HIDE DEF T
  <2> QED BY <1>1, <1>2, Induction
<1>4. ASSUME NEW k \in 1..C + 1, i <= k PROVE cut[i] <= cut[k]
  <2>1. k - i \in Nat /\ i + (k - i) = k
    BY <1>4
  <2>2. k - i \in T
    BY <1>3, <2>1
  <2> QED BY <2>1, <2>2
<1> QED BY <1>4

\* C batches of the sizes z.
Fits(S, seqs, C, z) ==
  Len(seqs) = C /\ \A i \in 1..C : seqs[i] \in Seq(S) /\ Len(seqs[i]) = z[i]

\* flat has the parts at their places.
Placed(S, flat, seqs, C, cut, z) ==
  /\ flat \in Seq(S) /\ Len(flat) = cut[C + 1] - cut[1]
  /\ \A i \in 1..C : \A j \in 1..z[i] : flat[cut[i] - cut[1] + j] = seqs[i][j]

\* The elements of the parts, put one after the other, stand where the cuts say.
LEMMA Merged ==
  ASSUME NEW S, NEW C \in Nat \ {0}, NEW seqs, NEW cut, NEW z, Parting(cut, C, z),
         Fits(S, seqs, C, z)
  PROVE  Placed(S, FlattenSeq(seqs), seqs, C, cut, z)
<1>0. Len(seqs) = C /\ \A k \in 1..C : seqs[k] \in Seq(S)
  BY DEF Fits
<1>z. \A k \in 1..C : Len(seqs[k]) = z[k]
  BY DEF Fits
<1>1. PICK h : FlattenSeq(seqs) = h[C] /\ Flattens(h, seqs, C)
  BY <1>0, FlattenUnfolds
<1> DEFINE Good(k) == /\ h[k] \in Seq(S) /\ Len(h[k]) = cut[k + 1] - cut[1]
                      /\ \A i \in 1..k : \A j \in 1..z[i] : h[k][cut[i] - cut[1] + j] = seqs[i][j]
           T == {k \in Nat : k \in 1..C => Good(k)}
<1>c. \A i \in 1..C : /\ cut[i] \in Nat /\ cut[i + 1] \in Nat /\ z[i] \in Nat
                      /\ cut[i] + z[i] = cut[i + 1] /\ cut[1] <= cut[i]
  <2>1. \A i \in 1..C : i \in 1..C + 1 /\ i + 1 \in 1..C + 1 /\ 1 \in 1..C + 1 /\ 1 <= i
    OBVIOUS
  <2> QED BY <2>1, PartingGrows DEF Parting
<1>2. 0 \in T
  OBVIOUS
<1>3. ASSUME NEW k \in T \cap Nat PROVE k + 1 \in T
  <2> SUFFICES ASSUME k + 1 \in 1..C PROVE Good(k + 1)
    OBVIOUS
  <2>1. CASE k = 0
    <3>1. h[1] = seqs[1] /\ k + 1 = 1
      BY <1>1, <2>1 DEF Flattens
    <3>2. 1 \in 1..C /\ 1 + 1 = 2 /\ cut[1] + z[1] = cut[1 + 1] /\ cut[1] \in Nat /\ z[1] \in Nat
      BY <1>c
    <3>3. \A j \in 1..z[1] : cut[1] - cut[1] + j = j
      BY <3>2
    <3>4. seqs[1] \in Seq(S) /\ Len(seqs[1]) = z[1]
      BY <1>0, <1>z, <3>2
    <3>5. \A i \in 1..1 : i = 1
      OBVIOUS
    <3>6. Good(1)
      BY <3>1, <3>2, <3>3, <3>4, <3>5
    <3> QED BY <3>1, <3>6
  <2>2. CASE k # 0
    <3>1. Good(k) /\ k \in 1..C /\ h[k + 1] = h[k] \o seqs[k + 1]
      <4> DEFINE m == k + 1
      <4>1. k \in 1..C /\ m - 1 = k /\ m # 1 /\ m \in 1..C
        BY <2>2
      <4>2. Good(k)
        BY <4>1
      <4> HIDE DEF m, Good, T
      <4>3. h[m] = h[k] \o seqs[m]
        BY <1>1, <4>1 DEF Flattens
      <4> QED BY <4>1, <4>2, <4>3 DEF m
    <3> DEFINE s == h[k]
               t == seqs[k + 1]
               m == k + 1
               u == s \o t
    <3>2. m \in 1..C /\ s \in Seq(S) /\ t \in Seq(S) /\ Len(t) = z[m] /\ Len(s) = cut[m] - cut[1]
      BY <1>0, <1>z, <3>1
    <3>3. \A i \in 1..k : \A j \in 1..z[i] : s[cut[i] - cut[1] + j] = seqs[i][j]
      BY <3>1
    <3> HIDE DEF s, t
    <3>4. u \in Seq(S) /\ Len(u) = cut[m + 1] - cut[1]
      <4>1. Len(u) = Len(s) + Len(t) /\ u \in Seq(S)
        <5>1. s \in Seq(S) /\ t \in Seq(S)
          BY <3>2
        <5> HIDE DEF m, T, Good
        <5> QED BY <5>1
      <4>2. cut[m] \in Nat /\ z[m] \in Nat /\ cut[m] + z[m] = cut[m + 1] /\ cut[1] \in Nat
        <5> HIDE DEF m
        <5>1. 1 \in 1..C
          OBVIOUS
        <5> QED BY <1>c, <3>2, <5>1
      <4> HIDE DEF u, m
      <4> QED BY <3>2, <4>1, <4>2
    <3>5. ASSUME NEW i \in 1..m, NEW j \in 1..z[i] PROVE u[cut[i] - cut[1] + j] = seqs[i][j]
      <4>1. CASE i = m
        <5>1. cut[i] - cut[1] = Len(s) /\ j \in 1..Len(t)
          BY <3>2, <4>1
        <5>2. u[Len(s) + j] = t[j]
          BY <3>2, <5>1
        <5> HIDE DEF u
        <5> QED BY <4>1, <5>1, <5>2 DEF t, m
      <4>2. CASE i # m
        <5>1. i \in 1..k /\ i \in 1..C
          BY <4>2
        <5>2. cut[i] - cut[1] + j \in 1..Len(s)
          <6>1. cut[i + 1] <= cut[m]
            <7>1. i + 1 \in 1..C + 1 /\ m \in 1..C + 1 /\ i + 1 <= m
              BY <5>1
            <7> HIDE DEF m
            <7> QED BY <7>1, PartingGrows
          <6>2. cut[i] + z[i] = cut[i + 1] /\ cut[1] <= cut[i] /\ cut[i] \in Nat /\ z[i] \in Nat /\ cut[m] \in Nat
                /\ cut[1] \in Nat
            <7>1. m \in 1..C /\ 1 \in 1..C
              BY <3>2
            <7> HIDE DEF m
            <7> QED BY <1>c, <5>1, <7>1
          <6> DEFINE a == cut[i]
                     b == cut[i + 1]
                     c == cut[m]
                     d == cut[1]
                     y == z[i]
          <6>3. b <= c /\ a + y = b /\ d <= a /\ a \in Nat /\ y \in Nat /\ c \in Nat /\ d \in Nat
                /\ j \in 1..y /\ Len(s) = c - d
            BY <3>2, <6>1, <6>2
          <6> HIDE DEF a, b, c, d, y
          <6>4. a - d + j \in 1..Len(s)
            BY <6>3
          <6> QED BY <6>4 DEF a, d
        <5> DEFINE x == cut[i] - cut[1] + j
        <5> HIDE DEF x
        <5>3. u[x] = s[x]
          BY <3>2, <5>2 DEF x
        <5> QED BY <3>3, <5>1, <5>3 DEF x
      <4> QED BY <4>1, <4>2
    <3> HIDE DEF u
    <3> QED BY <3>1, <3>4, <3>5 DEF u, s, t, m
  <2> QED BY <2>1, <2>2
<1>4. C \in T
  <2> HIDE DEF T
  <2> QED BY <1>2, <1>3, Induction
<1>5. C \in 1..C
  OBVIOUS
<1>6. Good(C)
  BY <1>4, <1>5
<1> QED BY <1>1, <1>6 DEF Placed

PeerCuts(p, q, a) ==
  [i \in 1..Peers(p, q, a) + 1 |->
    IF i <= Peers(p, q, a) THEN Begin(p, a, q, FirstPeer(p, q, a) + i - 1) ELSE (a + 1) * p]

PeerSizes(p, q, a) == [i \in 1..Peers(p, q, a) |-> Common(p, a, q, FirstPeer(p, q, a) + i - 1)]

\* The slots of a rank are parted among its peers, without gap or overlap.
LEMMA PeerParting ==
  ASSUME NEW p \in Nat \ {0}, NEW q \in Nat \ {0}, NEW a \in Nat
  PROVE  /\ Parting(PeerCuts(p, q, a), Peers(p, q, a), PeerSizes(p, q, a))
         /\ PeerCuts(p, q, a)[1] = a * p
         /\ PeerCuts(p, q, a)[Peers(p, q, a) + 1] = (a + 1) * p
         /\ a * p \in Nat /\ (a + 1) * p = a * p + p
<1> DEFINE F == FirstPeer(p, q, a)
           C == Peers(p, q, a)
           B == [i \in 1..C |-> Begin(p, a, q, F + i - 1)]
           z == [i \in 1..C |-> Common(p, a, q, F + i - 1)]
           e == (a + 1) * p
           cut == [i \in 1..C + 1 |-> IF i <= C THEN B[i] ELSE e]
<1>1. F \in Nat /\ C \in Nat \ {0}
  BY PeersNat
<1>2. a * p \in Nat /\ e = a * p + p /\ e \in Nat
  BY Times
<1>3. \A i \in 1..C : Common(p, a, q, F + i - 1) \in Int
  <2> SUFFICES ASSUME NEW i \in 1..C PROVE Common(p, a, q, F + i - 1) \in Int
    OBVIOUS
  <2> DEFINE b == F + i - 1
  <2>1. b \in Nat
    BY <1>1
  <2> HIDE DEF b
  <2>2. Common(p, a, q, b) \in Int
    BY <2>1, Meeting
  <2> QED BY <2>2 DEF b
<1>4. /\ Begin(p, a, q, F) = a * p
      /\ \A i \in 1..C : Begin(p, a, q, F + i - 1) \in Nat /\ Common(p, a, q, F + i - 1) > 0
      /\ \A i \in 1..C : i < C => Begin(p, a, q, F + i - 1) + Common(p, a, q, F + i - 1)
                                    = Begin(p, a, q, F + (i + 1) - 1)
      /\ Begin(p, a, q, F + C - 1) + Common(p, a, q, F + C - 1) = e
  BY PeersCut
<1>5. /\ \A i \in 1..C : B[i] \in Nat /\ z[i] \in Nat
      /\ \A i \in 1..C : i < C => B[i] + z[i] = B[i + 1]
      /\ B[C] + z[C] = e
  <2>1. \A i \in 1..C : B[i] \in Nat /\ z[i] \in Nat
    BY <1>3, <1>4
  <2>2. ASSUME NEW i \in 1..C, i < C PROVE B[i] + z[i] = B[i + 1]
    <3>1. i + 1 \in 1..C
      BY <1>1, <2>2
    <3> QED BY <1>4, <2>2, <3>1
  <2>3. C \in 1..C
    BY <1>1
  <2> QED BY <1>4, <2>1, <2>2, <2>3
<1>6. B[1] = a * p
  <2>1. 1 \in 1..C /\ F + 1 - 1 = F
    BY <1>1
  <2> QED BY <1>4, <2>1
<1> HIDE DEF F, C, B, z, e
<1>7. Parting(cut, C, z)
  <2>1. cut \in [1..C + 1 -> Nat]
    BY <1>1, <1>2, <1>5
  <2>2. ASSUME NEW i \in 1..C PROVE z[i] \in Nat /\ cut[i] + z[i] = cut[i + 1]
    <3>1. i \in 1..C + 1 /\ i + 1 \in 1..C + 1 /\ cut[i] = B[i]
      BY <1>1
    <3>2. CASE i < C
      <4>1. i + 1 <= C
        BY <1>1, <3>2
      <4>2. cut[i + 1] = B[i + 1]
        BY <3>1, <4>1
      <4> HIDE DEF cut
      <4> QED BY <1>5, <3>1, <3>2, <4>2
    <3>3. CASE ~(i < C)
      <4>1. i = C /\ ~(i + 1 <= C)
        BY <1>1, <3>3
      <4>2. cut[i + 1] = e
        BY <3>1, <4>1
      <4> HIDE DEF cut
      <4> QED BY <1>5, <3>1, <4>1, <4>2
    <3> QED BY <3>2, <3>3
  <2> HIDE DEF cut
  <2> QED BY <2>1, <2>2 DEF Parting
<1>8. cut[1] = a * p /\ cut[C + 1] = e
  BY <1>1, <1>6
<1>9. PeerCuts(p, q, a) = cut /\ PeerSizes(p, q, a) = z
  <2>1. PeerSizes(p, q, a) = z
    BY DEF PeerSizes, z, F, C
  <2>2. PeerCuts(p, q, a) = [i \in 1..C + 1 |-> IF i <= C THEN Begin(p, a, q, F + i - 1) ELSE e]
    BY DEF PeerCuts, F, C, e
  <2>3. \A i \in 1..C + 1 : i <= C => B[i] = Begin(p, a, q, F + i - 1)
    BY <1>1 DEF B
  <2> QED BY <2>1, <2>2, <2>3
<1> HIDE DEF cut
<1> QED BY <1>2, <1>7, <1>8, <1>9 DEF C, e

\* Where the part of a peer begins and how long it is.
LEMMA PeerPlaces ==
  ASSUME NEW p \in Nat \ {0}, NEW q \in Nat \ {0}, NEW a \in Nat,
         NEW i \in 1..Peers(p, q, a), NEW b, b = FirstPeer(p, q, a) + i - 1
  PROVE  /\ PeerSizes(p, q, a)[i] = Common(p, a, q, b) /\ PeerCuts(p, q, a)[i] = Begin(p, a, q, b)
         /\ b \in Nat /\ Common(p, a, q, b) \in Nat \ {0}
         /\ Offset(p, a, q, b) \in Nat /\ Offset(p, a, q, b) + Common(p, a, q, b) <= p
<1> DEFINE C == Peers(p, q, a)
           cut == PeerCuts(p, q, a)
           z == PeerSizes(p, q, a)
<1>1. FirstPeer(p, q, a) \in Nat /\ C \in Nat \ {0} /\ b \in Nat
  <2>1. FirstPeer(p, q, a) \in Nat /\ C \in Nat \ {0}
    BY PeersNat
  <2> HIDE DEF C
  <2>2. i \in 1..C
    BY DEF C
  <2> QED BY <2>1, <2>2
<1>2. z[i] = Common(p, a, q, b) /\ cut[i] = Begin(p, a, q, b)
  <2>1. i \in 1..C + 1 /\ i <= C
    BY <1>1
  <2> QED BY <2>1 DEF PeerSizes, PeerCuts
<1>3. Common(p, a, q, b) > 0
  <2>1. FirstPeer(p, q, a) <= b /\ b < FirstPeer(p, q, a) + C
    BY <1>1
  <2> QED BY <1>1, <2>1, Meeting
<1>4. /\ Parting(cut, C, z) /\ cut[1] = a * p /\ cut[C + 1] = a * p + p /\ a * p \in Nat
  BY PeerParting
<1> HIDE DEF cut, z
<1>5. cut[1] <= cut[i] /\ cut[i + 1] <= cut[C + 1] /\ cut[i] + z[i] = cut[i + 1] /\ z[i] \in Nat /\ cut[i] \in Nat
  <2>1. i \in 1..C /\ i \in 1..C + 1 /\ i + 1 \in 1..C + 1 /\ 1 \in 1..C + 1 /\ C + 1 \in 1..C + 1
        /\ 1 <= i /\ i + 1 <= C + 1
    BY <1>1
  <2> HIDE DEF C
  <2>2. C \in Nat
    BY <1>1
  <2> QED BY <1>4, <2>1, <2>2, PartingGrows DEF Parting
<1> DEFINE x == a * p
<1>6. x \in Nat /\ cut[1] = x /\ cut[C + 1] = x + p
  BY <1>4
<1> HIDE DEF x, C
<1>7. /\ Begin(p, a, q, b) - x \in Nat /\ Begin(p, a, q, b) - x + Common(p, a, q, b) <= p
      /\ Common(p, a, q, b) \in Nat \ {0}
  BY <1>2, <1>3, <1>5, <1>6
<1> QED BY <1>1, <1>2, <1>7 DEF Offset, x, cut, z

\* Every slot of a rank it has in common with a peer.
Covers(p, a, q, b, x) ==
  /\ Common(p, a, q, b) > 0
  /\ \E j \in 1..Common(p, a, q, b) : x = Offset(p, a, q, b) + j

\* Every slot of a rank belongs to one of its peers.
LEMMA Covered ==
  ASSUME NEW p \in Nat \ {0}, NEW q \in Nat \ {0}, NEW a \in Nat, NEW x \in 1..p
  PROVE  \E b \in Nat : Covers(p, a, q, b, x)
<1> DEFINE y == a * p
           s == y + x - 1
           b == s \div q
           w == b * q
<1>1. y \in Nat /\ (a + 1) * p = y + p
  BY Times
<1>2. s \in Nat
  BY <1>1
<1> HIDE DEF y, s
<1>3. b \in Nat /\ w <= s /\ s < w + q /\ w \in Nat /\ (b + 1) * q = w + q
  BY <1>2, Divided, Times
<1> HIDE DEF b
<1>4. Common(p, a, q, b) = MinOf(w + q, y + p) - MaxOf(w, y) /\ Begin(p, a, q, b) = MaxOf(w, y)
  BY <1>1, <1>3 DEF Common, Begin, y
<1> HIDE DEF w
<1>5. y <= s /\ s < y + p /\ x = s - y + 1
  BY <1>1 DEF s
<1>6. Common(p, a, q, b) > 0
  BY <1>1, <1>3, <1>4, <1>5, <1>2 DEF MinOf, MaxOf
<1> DEFINE j == x - (MaxOf(w, y) - y)
<1>7. j \in 1..Common(p, a, q, b) /\ x = (MaxOf(w, y) - y) + j
  BY <1>1, <1>2, <1>3, <1>4, <1>5 DEF MinOf, MaxOf
<1> QED BY <1>3, <1>4, <1>6, <1>7 DEF Offset, Covers, y

\* A rank that merges the parts of its peers has all slots in order.
LEMMA MergedPeers ==
  ASSUME NEW p \in Nat \ {0}, NEW q \in Nat \ {0}, NEW a \in Nat, NEW S, NEW seqs,
         Fits(S, seqs, Peers(p, q, a), PeerSizes(p, q, a))
  PROVE  /\ FlattenSeq(seqs) \in Seq(S) /\ Len(FlattenSeq(seqs)) = p
         /\ \A i \in 1..Peers(p, q, a) :
              \A j \in 1..Common(p, a, q, FirstPeer(p, q, a) + i - 1) :
                FlattenSeq(seqs)[Offset(p, a, q, FirstPeer(p, q, a) + i - 1) + j] = seqs[i][j]
<1> DEFINE cut == PeerCuts(p, q, a)
           z == PeerSizes(p, q, a)
           C == Peers(p, q, a)
           F == FirstPeer(p, q, a)
           y == a * p
           e == (a + 1) * p
<1>1. C \in Nat \ {0}
  BY PeersNat
<1>2. Parting(cut, C, z) /\ cut[1] = y /\ cut[C + 1] = e /\ y \in Nat /\ e = y + p
  BY PeerParting
<1>3. \A i \in 1..C : z[i] = Common(p, a, q, F + i - 1) /\ cut[i] = Begin(p, a, q, F + i - 1)
  BY PeerPlaces
<1>4. \A i \in 1..C : Offset(p, a, q, F + i - 1) = Begin(p, a, q, F + i - 1) - y
  BY DEF Offset
<1>f. Fits(S, seqs, C, z)
  OBVIOUS
<1> HIDE DEF cut, z, C, F, y, e
<1>5. /\ FlattenSeq(seqs) \in Seq(S) /\ Len(FlattenSeq(seqs)) = cut[C + 1] - cut[1]
      /\ \A i \in 1..C : \A j \in 1..z[i] : FlattenSeq(seqs)[cut[i] - cut[1] + j] = seqs[i][j]
  <2>1. C \in Nat \ {0} /\ Parting(cut, C, z) /\ Fits(S, seqs, C, z)
    BY <1>1, <1>2, <1>f
  <2>2. Placed(S, FlattenSeq(seqs), seqs, C, cut, z)
    BY <2>1, Merged
  <2> QED BY <2>2 DEF Placed
<1>6. cut[C + 1] - cut[1] = p
  BY <1>2
<1>7. ASSUME NEW i \in 1..C, NEW j \in 1..Common(p, a, q, F + i - 1)
      PROVE  FlattenSeq(seqs)[Offset(p, a, q, F + i - 1) + j] = seqs[i][j]
  <2>1. cut[i] - cut[1] = Offset(p, a, q, F + i - 1) /\ j \in 1..z[i]
    BY <1>2, <1>3, <1>4
  <2>2. FlattenSeq(seqs)[cut[i] - cut[1] + j] = seqs[i][j]
    BY <1>5, <2>1
  <2> QED BY <2>1, <2>2
<1> QED BY <1>5, <1>6, <1>7 DEF C, F

\* The offsets of Split.
Offsets(o, dsts) == o = [i \in DOMAIN dsts |-> IF i = 1 THEN 0 ELSE o[i - 1] + dsts[i - 1][2]]

SplitOffset(dsts) == CHOOSE o : Offsets(o, dsts)

Sizes(dsts, C, z) == DOMAIN dsts = 1..C /\ \A i \in 1..C : dsts[i][2] = z[i]

Starts(o, C, cut) == \A i \in 1..C : o[i] = cut[i] - cut[1]

\* The offsets at which a batch is split are the cuts of that parting.
LEMMA OffsetsAre ==
  ASSUME NEW C \in Nat \ {0}, NEW cut, NEW z, Parting(cut, C, z), NEW dsts, Sizes(dsts, C, z)
  PROVE  Starts(SplitOffset(dsts), C, cut)
<1> DEFINE o == SplitOffset(dsts)
           g == [i \in 1..C |-> cut[i] - cut[1]]
           Good(f) == \A i \in 1..C : f[i] = IF i = 1 THEN 0 ELSE f[i - 1] + dsts[i - 1][2]
           T == {k \in Nat : k \in 1..C => o[k] = cut[k] - cut[1]}
<1>0. DOMAIN dsts = 1..C /\ \A i \in 1..C : dsts[i][2] = z[i]
  BY DEF Sizes
<1>1. ASSUME NEW k \in 1..C
      PROVE  /\ cut[k] \in Nat /\ cut[1] \in Nat
             /\ k # 1 => /\ k - 1 \in 1..C /\ cut[k - 1] + dsts[k - 1][2] = cut[k]
                         /\ cut[k - 1] \in Nat /\ dsts[k - 1][2] \in Nat
  <2>1. k \in 1..C + 1 /\ 1 \in 1..C + 1
    OBVIOUS
  <2>2. CASE k # 1
    <3> DEFINE i == k - 1
    <3>1. i \in 1..C /\ i \in 1..C + 1 /\ i + 1 = k
      BY <2>2
    <3> HIDE DEF i
    <3>2. z[i] \in Nat /\ cut[i] + z[i] = cut[k] /\ dsts[i][2] = z[i] /\ cut[i] \in Nat
      BY <1>0, <3>1 DEF Parting
    <3> QED BY <2>1, <3>1, <3>2 DEF i, Parting
  <2> QED BY <2>1, <2>2 DEF Parting
<1>2. Offsets(g, dsts)
  <2>1. ASSUME NEW i \in 1..C PROVE cut[i] - cut[1] = IF i = 1 THEN 0 ELSE g[i - 1] + dsts[i - 1][2]
    <3>1. CASE i = 1
      BY <1>1, <3>1
    <3>2. CASE i # 1
      <4>1. /\ i - 1 \in 1..C /\ cut[i - 1] + dsts[i - 1][2] = cut[i]
            /\ cut[i - 1] \in Nat /\ dsts[i - 1][2] \in Nat /\ cut[i] \in Nat /\ cut[1] \in Nat
        BY <1>1, <3>2
      <4>2. g[i - 1] = cut[i - 1] - cut[1]
        BY <4>1
      <4> QED BY <3>2, <4>1, <4>2
    <3> QED BY <3>1, <3>2
  <2> QED BY <1>0, <2>1 DEF Offsets
<1>3. Offsets(o, dsts)
  <2> HIDE DEF g
  <2> QED BY <1>2 DEF SplitOffset
<1> HIDE DEF o
<1>4. Good(o)
  BY <1>0, <1>3 DEF Offsets
<1> HIDE DEF Good
<1>5. 0 \in T
  OBVIOUS
<1>6. ASSUME NEW k \in T \cap Nat PROVE k + 1 \in T
  <2> SUFFICES ASSUME k + 1 \in 1..C PROVE o[k + 1] = cut[k + 1] - cut[1]
    OBVIOUS
  <2> DEFINE m == k + 1
  <2>1. m \in 1..C /\ m - 1 = k /\ (m # 1 => o[k] = cut[k] - cut[1])
    OBVIOUS
  <2> HIDE DEF m, T
  <2>2. o[m] = IF m = 1 THEN 0 ELSE o[m - 1] + dsts[m - 1][2]
    BY <1>4, <2>1 DEF Good
  <2>3. o[m] = cut[m] - cut[1]
    BY <1>1, <2>1, <2>2
  <2> QED BY <2>3 DEF m
<1>7. \A k \in Nat : k \in T
  <2> HIDE DEF T
  <2> QED BY <1>5, <1>6, Induction
<1> QED BY <1>7 DEF o, Starts

\* A batch of rank a has been split: each of its peers has got what they have
\* in common.
IsSplit(new, old, kind, p, a, q, batch) ==
  /\ new = [k \in DOMAIN old |-> new[k]]
  /\ \A k \in DOMAIN old : k # kind => new[k] = old[k]
  /\ new[kind] = [pair \in DOMAIN old[kind] |-> new[kind][pair]]
  /\ \A x, b \in Nat : <<x, b>> \in DOMAIN old[kind] =>
       new[kind][<<x, b>>] =
         IF x = a /\ Common(p, a, q, b) > 0
         THEN Append(old[kind][<<x, b>>], PartOf(batch, Offset(p, a, q, b), Common(p, a, q, b)))
         ELSE old[kind][<<x, b>>]

\* After a split every peer has its part of the batch behind its queue, and nobody else has anything new.
LEMMA SplitIs ==
  ASSUME NEW p \in Nat \ {0}, NEW q \in Nat \ {0}, NEW a \in Nat, NEW S,
         NEW batch \in Seq(S), Len(batch) = p, NEW old, NEW kind \in DOMAIN old,
         NEW dsts, dsts = [i \in 1..Peers(p, q, a) |->
           <<FirstPeer(p, q, a) + i - 1, Common(p, a, q, FirstPeer(p, q, a) + i - 1)>>]
  PROVE  IsSplit(Split(old, kind, a, dsts, batch), old, kind, p, a, q, batch)
<1> DEFINE F == FirstPeer(p, q, a)
           C == Peers(p, q, a)
           z == PeerSizes(p, q, a)
           cut == PeerCuts(p, q, a)
           o == SplitOffset(dsts)
           part(i) == SubSeq(batch, o[i] + 1, o[i] + dsts[i][2])
           D == DOMAIN old[kind]
           to(pair) == {i \in DOMAIN dsts : pair = <<a, dsts[i][1]>>}
           row == [pair \in D |-> IF to(pair) = {} THEN old[kind][pair]
                                  ELSE Append(old[kind][pair], part(CHOOSE i \in to(pair) : TRUE))]
           new == [old EXCEPT ![kind] = row]
<1>1. Split(old, kind, a, dsts, batch) = new
  BY DEF Split, SplitOffset, Offsets
<1>2. F \in Nat /\ C \in Nat \ {0}
  BY PeersNat
<1>3. DOMAIN dsts = 1..C /\ \A i \in 1..C : dsts[i][1] = F + i - 1 /\ dsts[i][2] = Common(p, a, q, F + i - 1)
  OBVIOUS
<1>4. /\ Parting(cut, C, z) /\ cut[1] = a * p
      /\ \A i \in 1..C : z[i] = Common(p, a, q, F + i - 1) /\ cut[i] = Begin(p, a, q, F + i - 1)
  <2>1. Parting(cut, C, z) /\ cut[1] = a * p
    BY PeerParting
  <2>2. \A i \in 1..C : z[i] = Common(p, a, q, F + i - 1) /\ cut[i] = Begin(p, a, q, F + i - 1)
    BY PeerPlaces
  <2> QED BY <2>1, <2>2
<1>5. \A i \in 1..C : o[i] = Offset(p, a, q, F + i - 1)
  <2> HIDE DEF o, C, F, cut, z
  <2>1. \A i \in 1..C : o[i] = cut[i] - cut[1]
    <3>1. Sizes(dsts, C, z)
      BY <1>3, <1>4 DEF Sizes
    <3>2. Starts(SplitOffset(dsts), C, cut)
      BY <1>2, <1>4, <3>1, OffsetsAre
    <3> QED BY <3>2 DEF o, Starts
  <2> QED BY <1>4, <2>1 DEF Offset
<1>6. ASSUME NEW b \in Nat
      PROVE  Common(p, a, q, b) > 0 <=> F <= b /\ b < F + C
  BY Meeting
<1>7. ASSUME NEW i \in 1..C
      PROVE  part(i) = PartOf(batch, Offset(p, a, q, F + i - 1), Common(p, a, q, F + i - 1))
  <2> DEFINE b == F + i - 1
             k == Offset(p, a, q, b)
             n == Common(p, a, q, b)
  <2>1. k \in Nat /\ n \in Nat /\ k + n <= p
    BY <1>2, PeerPlaces
  <2>2. o[i] = k /\ dsts[i][2] = n
    BY <1>3, <1>5
  <2> HIDE DEF o, k, n, b
  <2>3. SubSeq(batch, k + 1, k + n) = PartOf(batch, k, n)
    <3>1. k \in Nat /\ n \in Nat /\ k + n <= Len(batch) BY <2>1
    <3>2. Slices(batch, k, n) BY <3>1, SlicesAre
    <3> QED BY <3>2 DEF Slices
  <2> QED BY <2>2, <2>3 DEF k, n, b
<1> HIDE DEF o, C, F, cut, z, part
<1>8. ASSUME NEW x \in Nat, NEW b \in Nat
      PROVE  /\ to(<<x, b>>) = IF x = a /\ Common(p, a, q, b) > 0 THEN {b - F + 1} ELSE {}
             /\ x = a /\ Common(p, a, q, b) > 0 => b - F + 1 \in 1..C /\ F + (b - F + 1) - 1 = b
  <2>1. to(<<x, b>>) = {i \in 1..C : x = a /\ b = F + i - 1}
    BY <1>3
  <2>2. \A i \in 1..C : b = F + i - 1 <=> i = b - F + 1
    BY <1>2
  <2>3. b - F + 1 \in 1..C <=> F <= b /\ b < F + C
    BY <1>2
  <2>4. F + (b - F + 1) - 1 = b
    BY <1>2
  <2> HIDE DEF to
  <2> QED BY <1>6, <2>1, <2>2, <2>3, <2>4
<1>9. ASSUME NEW x \in Nat, NEW b \in Nat, <<x, b>> \in D
      PROVE  row[<<x, b>>] =
               IF x = a /\ Common(p, a, q, b) > 0
               THEN Append(old[kind][<<x, b>>], PartOf(batch, Offset(p, a, q, b), Common(p, a, q, b)))
               ELSE old[kind][<<x, b>>]
  <2> DEFINE pair == <<x, b>>
  <2>1. row[pair] = IF to(pair) = {} THEN old[kind][pair]
                    ELSE Append(old[kind][pair], part(CHOOSE i \in to(pair) : TRUE))
    BY <1>9
  <2> HIDE DEF row, to, D
  <2>2. CASE x = a /\ Common(p, a, q, b) > 0
    <3> DEFINE i == b - F + 1
    <3>1. to(pair) = {i} /\ i \in 1..C /\ F + i - 1 = b
      BY <1>8, <2>2
    <3> HIDE DEF i, pair
    <3>2. (CHOOSE j \in to(pair) : TRUE) = i /\ to(pair) # {}
      BY <3>1
    <3>3. part(i) = PartOf(batch, Offset(p, a, q, b), Common(p, a, q, b))
      BY <1>7, <3>1
    <3> QED BY <2>1, <2>2, <3>2, <3>3 DEF pair
  <2>3. CASE ~(x = a /\ Common(p, a, q, b) > 0)
    BY <1>8, <2>1, <2>3
  <2> QED BY <2>2, <2>3
<1>10. /\ new = [k \in DOMAIN old |-> new[k]] /\ new[kind] = row /\ row = [pair \in D |-> row[pair]]
       /\ \A k \in DOMAIN old : k # kind => new[k] = old[k]
  <2>1. row = [pair \in D |-> row[pair]]
    <3> HIDE DEF to, D
    <3> QED OBVIOUS
  <2> HIDE DEF row
  <2>2. new = [k \in DOMAIN old |-> IF k = kind THEN row ELSE old[k]]
    OBVIOUS
  <2>3. \A k \in DOMAIN old : new[k] = IF k = kind THEN row ELSE old[k]
    BY <2>2
  <2>4. new = [k \in DOMAIN old |-> new[k]]
    BY <2>2, <2>3
  <2> QED BY <2>1, <2>3, <2>4
<1> HIDE DEF new, row, D
<1> QED BY <1>1, <1>9, <1>10 DEF IsSplit, D

-----------------------------------------------------------------------------
(* Who has slots in common with whom *)

\* A number divides evenly into its shares.
LEMMA EvenShares ==
  ASSUME NEW s \in Nat \ {0}, NEW n \in Nat \ {0}, s % n = 0
  PROVE  s \div n \in Nat \ {0} /\ n * (s \div n) = s
<1>1. s \in Nat /\ s \div n \in Nat /\ s % n = s - (s \div n) * n
  BY Divided
<1>2. (s \div n) * n = s
  BY <1>1, Times
<1> DEFINE d == s \div n
<1>3. d \in Nat /\ d * n = s
  BY <1>1, <1>2
<1> HIDE DEF d
<1>4. n * d = s /\ d # 0
  BY <1>3
<1> QED BY <1>3, <1>4 DEF d

\* The shares of the workers are whole, and the rank maps are peers.
LEMMA ShareType ==
  ASSUME cfg \in Configs
  PROVE  /\ PE \in Nat \ {0} /\ PR \in Nat \ {0}
         /\ cfg.envs \in Nat \ {0} /\ cfg.rollouts \in Nat \ {0}
         /\ Even(cfg.envs, PE, cfg.rollouts, PR) /\ Even(cfg.rollouts, PR, cfg.envs, PE)
         /\ Parts(cfg.slots, cfg.envs, PE, cfg.rollouts, PR)
         /\ Parts(cfg.slots, cfg.rollouts, PR, cfg.envs, PE)
<1>1. /\ cfg.slots \in Nat \ {0} /\ cfg.envs \in Nat \ {0} /\ cfg.rollouts \in Nat \ {0}
      /\ cfg.slots % cfg.envs = 0 /\ cfg.slots % cfg.rollouts = 0
  BY ConfigsAssumption DEF Config
<1>2. PE \in Nat \ {0} /\ cfg.envs * PE = cfg.slots
  BY <1>1, EvenShares DEF PE
<1>3. PR \in Nat \ {0} /\ cfg.rollouts * PR = cfg.slots
  BY <1>1, EvenShares DEF PR
<1> QED BY <1>1, <1>2, <1>3 DEF Even, Parts, PE, PR

\* The destinations and sources of an env worker.
LEMMA EnvRoutes ==
  ASSUME cfg \in Configs, NEW e \in Envs
  PROVE  /\ e \in Nat
         /\ EnvDsts(e) = [i \in 1..Peers(PE, PR, e) |->
              <<FirstPeer(PE, PR, e) + i - 1, Common(PE, e, PR, FirstPeer(PE, PR, e) + i - 1)>>]
         /\ EnvSrcs(e) = PeersOf(PE, PR, e)
<1>0. e \in Nat /\ e \in 0..cfg.envs - 1
  BY ShareType DEF Envs
<1>1. EnvDsts(e) = DstRanks(cfg.slots, cfg.envs, cfg.rollouts, e)
      /\ EnvSrcs(e) = SrcRanks(cfg.slots, cfg.rollouts, cfg.envs, e)
  BY <1>0 DEF EnvDsts, EnvSrcs, RankMaps
<1>2. DstRanks(cfg.slots, cfg.envs, cfg.rollouts, e) = Shares(PR, e * PE, (e + 1) * PE)
  BY <1>0, ShareType, DstRanksAre
<1>3. SrcRanks(cfg.slots, cfg.rollouts, cfg.envs, e) = PeersOf(PE, PR, e)
  BY <1>0, ShareType, SrcRanksAre
<1>4. Shares(PR, e * PE, (e + 1) * PE) = [i \in 1..Peers(PE, PR, e) |->
        <<FirstPeer(PE, PR, e) + i - 1, Common(PE, e, PR, FirstPeer(PE, PR, e) + i - 1)>>]
  BY <1>0, ShareType, PeersType
<1> QED BY <1>0, <1>1, <1>2, <1>3, <1>4

\* The destinations and sources of a rollout worker.
LEMMA RolloutRoutes ==
  ASSUME cfg \in Configs, NEW r \in Rollouts
  PROVE  /\ r \in Nat
         /\ RolloutDsts(r) = [i \in 1..Peers(PR, PE, r) |->
              <<FirstPeer(PR, PE, r) + i - 1, Common(PR, r, PE, FirstPeer(PR, PE, r) + i - 1)>>]
         /\ RolloutSrcs(r) = PeersOf(PR, PE, r)
<1>0. r \in Nat /\ r \in 0..cfg.rollouts - 1
  BY ShareType DEF Rollouts
<1>1. RolloutDsts(r) = DstRanks(cfg.slots, cfg.rollouts, cfg.envs, r)
      /\ RolloutSrcs(r) = SrcRanks(cfg.slots, cfg.envs, cfg.rollouts, r)
  BY <1>0 DEF RolloutDsts, RolloutSrcs, RankMaps
<1>2. DstRanks(cfg.slots, cfg.rollouts, cfg.envs, r) = Shares(PE, r * PR, (r + 1) * PR)
  BY <1>0, ShareType, DstRanksAre
<1>3. SrcRanks(cfg.slots, cfg.envs, cfg.rollouts, r) = PeersOf(PR, PE, r)
  BY <1>0, ShareType, SrcRanksAre
<1>4. Shares(PE, r * PR, (r + 1) * PR) = [i \in 1..Peers(PR, PE, r) |->
        <<FirstPeer(PR, PE, r) + i - 1, Common(PR, r, PE, FirstPeer(PR, PE, r) + i - 1)>>]
  BY <1>0, ShareType, PeersType
<1> QED BY <1>0, <1>1, <1>2, <1>3, <1>4

\* The sources of a worker are the ranks it has slots in common with.
LEMMA EnvSources ==
  ASSUME cfg \in Configs, NEW e \in Envs
  PROVE  /\ EnvSrcs(e) \in Seq(Rollouts) /\ Len(EnvSrcs(e)) = Peers(PE, PR, e) /\ Len(EnvSrcs(e)) \in Nat \ {0}
         /\ \A r \in Rollouts : /\ Of(e, r) \in Int
                                /\ Near(e, r) <=> Of(e, r) \in 1..Len(EnvSrcs(e))
         /\ \A i \in 1..Len(EnvSrcs(e)) :
              /\ EnvSrcs(e)[i] \in Rollouts /\ Near(e, EnvSrcs(e)[i])
              /\ \A r \in Rollouts : EnvSrcs(e)[i] = r <=> i = Of(e, r)
<1> DEFINE F == FirstPeer(PE, PR, e)
           C == Peers(PE, PR, e)
           s == [i \in 1..C |-> F + i - 1]
<1>1. e \in Nat /\ EnvSrcs(e) = s
  BY EnvRoutes DEF PeersOf
<1>2. F \in Nat /\ C \in Nat \ {0} /\ F + C <= cfg.rollouts /\ cfg.rollouts \in Nat
  <2>1. e \in 0..cfg.envs - 1
    BY DEF Envs
  <2> QED BY <2>1, <1>1, ShareType, PeersExist, PeersNat
<1>3. ASSUME NEW r \in Rollouts
      PROVE  /\ r \in Nat /\ Of(e, r) = r - F + 1
             /\ Near(e, r) <=> F <= r /\ r < F + C
  <2>1. r \in Nat
    BY RolloutRoutes
  <2>2. Common(PE, e, PR, r) > 0 <=> F <= r /\ r < F + C
    BY <1>1, <2>1, ShareType, Meeting
  <2> QED BY <2>1, <2>2 DEF Of, Near
<1> HIDE DEF F, C
<1>4. \A i \in 1..C : F + i - 1 \in Rollouts
  BY <1>2 DEF Rollouts
<1>5. s \in Seq(Rollouts) /\ Len(s) = C
  BY <1>2, <1>4
<1>6. \A r \in Rollouts : /\ Of(e, r) \in Int
                          /\ Near(e, r) <=> Of(e, r) \in 1..C
  BY <1>2, <1>3
<1>7. ASSUME NEW i \in 1..C
      PROVE  /\ s[i] = F + i - 1 /\ s[i] \in Rollouts
             /\ \A r \in Rollouts : s[i] = r <=> i = Of(e, r)
  <2>1. s[i] = F + i - 1 /\ s[i] \in Rollouts
    BY <1>4
  <2>2. ASSUME NEW r \in Rollouts PROVE s[i] = r <=> i = Of(e, r)
    BY <1>2, <1>3, <2>1
  <2> QED BY <2>1, <2>2
<1>8. \A i \in 1..C : Near(e, s[i])
  <2> SUFFICES ASSUME NEW i \in 1..C PROVE Near(e, s[i])
    OBVIOUS
  <2> DEFINE r == s[i]
  <2>1. r \in Rollouts /\ i = Of(e, r)
    BY <1>7
  <2> HIDE DEF r
  <2>2. Near(e, r)
    BY <1>6, <2>1
  <2> QED BY <2>2 DEF r
<1> HIDE DEF s
<1> QED BY <1>1, <1>2, <1>5, <1>6, <1>7, <1>8 DEF C

\* A rollout worker's sources are the env workers it shares slots with, each once.
LEMMA RolloutSources ==
  ASSUME cfg \in Configs, NEW r \in Rollouts
  PROVE  /\ RolloutSrcs(r) \in Seq(Envs) /\ Len(RolloutSrcs(r)) = Peers(PR, PE, r) /\ Len(RolloutSrcs(r)) \in Nat \ {0}
         /\ \A e \in Envs : /\ By(r, e) \in Int
                            /\ Near(e, r) <=> By(r, e) \in 1..Len(RolloutSrcs(r))
         /\ \A i \in 1..Len(RolloutSrcs(r)) :
              /\ RolloutSrcs(r)[i] \in Envs /\ Near(RolloutSrcs(r)[i], r)
              /\ \A e \in Envs : RolloutSrcs(r)[i] = e <=> i = By(r, e)
<1> DEFINE F == FirstPeer(PR, PE, r)
           C == Peers(PR, PE, r)
           s == [i \in 1..C |-> F + i - 1]
<1>1. r \in Nat /\ RolloutSrcs(r) = s
  BY RolloutRoutes DEF PeersOf
<1>2. F \in Nat /\ C \in Nat \ {0} /\ F + C <= cfg.envs /\ cfg.envs \in Nat
  <2>1. r \in 0..cfg.rollouts - 1
    BY DEF Rollouts
  <2> QED BY <2>1, <1>1, ShareType, PeersExist, PeersNat
<1>3. ASSUME NEW e \in Envs
      PROVE  /\ e \in Nat /\ By(r, e) = e - F + 1
             /\ Near(e, r) <=> F <= e /\ e < F + C
  <2>1. e \in Nat
    BY EnvRoutes
  <2>2. Common(PR, r, PE, e) > 0 <=> F <= e /\ e < F + C
    BY <1>1, <2>1, ShareType, Meeting
  <2>3. Common(PR, r, PE, e) = Common(PE, e, PR, r)
    <3>1. r \in Nat /\ e \in Nat /\ PE \in Nat \ {0} /\ PR \in Nat \ {0}
      BY <1>1, <2>1, ShareType
    <3> QED BY <3>1, Meeting
  <2> QED BY <2>1, <2>2, <2>3 DEF By, Near
<1> HIDE DEF F, C
<1>4. \A i \in 1..C : F + i - 1 \in Envs
  BY <1>2 DEF Envs
<1>5. s \in Seq(Envs) /\ Len(s) = C
  BY <1>2, <1>4
<1>6. \A e \in Envs : /\ By(r, e) \in Int
                      /\ Near(e, r) <=> By(r, e) \in 1..C
  BY <1>2, <1>3
<1>7. ASSUME NEW i \in 1..C
      PROVE  /\ s[i] = F + i - 1 /\ s[i] \in Envs
             /\ \A e \in Envs : s[i] = e <=> i = By(r, e)
  <2>1. s[i] = F + i - 1 /\ s[i] \in Envs
    BY <1>4
  <2>2. ASSUME NEW e \in Envs PROVE s[i] = e <=> i = By(r, e)
    BY <1>2, <1>3, <2>1
  <2> QED BY <2>1, <2>2
<1>8. \A i \in 1..C : Near(s[i], r)
  <2> SUFFICES ASSUME NEW i \in 1..C PROVE Near(s[i], r)
    OBVIOUS
  <2> DEFINE e == s[i]
  <2>1. e \in Envs /\ i = By(r, e)
    BY <1>7
  <2> HIDE DEF e
  <2>2. Near(e, r)
    BY <1>6, <2>1
  <2> QED BY <2>2 DEF e
<1> HIDE DEF s
<1> QED BY <1>1, <1>2, <1>5, <1>6, <1>7, <1>8 DEF C

\* Element y of what has been merged is an element of the part of some peer.
IsFrom(p, q, a, seqs, y, i) ==
  \E j \in 1..Common(p, a, q, FirstPeer(p, q, a) + i - 1) :
    /\ y = Offset(p, a, q, FirstPeer(p, q, a) + i - 1) + j
    /\ FlattenSeq(seqs)[y] = seqs[i][j]

\* Every row of a merged batch comes from one part.
LEMMA MergedAt ==
  ASSUME NEW p \in Nat \ {0}, NEW q \in Nat \ {0}, NEW a \in Nat, NEW S, NEW seqs,
         Fits(S, seqs, Peers(p, q, a), PeerSizes(p, q, a)), NEW y \in 1..p
  PROVE  \E i \in 1..Peers(p, q, a) : IsFrom(p, q, a, seqs, y, i)
<1> DEFINE F == FirstPeer(p, q, a)
           C == Peers(p, q, a)
<1>1. PICK b \in Nat : /\ Common(p, a, q, b) > 0
                       /\ \E j \in 1..Common(p, a, q, b) : y = Offset(p, a, q, b) + j
  <2>1. PICK b \in Nat : Covers(p, a, q, b, y)
    BY Covered
  <2> QED BY <2>1 DEF Covers
<1>2. F \in Nat /\ C \in Nat \ {0}
  BY PeersNat
<1>3. F <= b /\ b < F + C
  BY <1>1, Meeting
<1>4. \A i \in 1..C : \A j \in 1..Common(p, a, q, F + i - 1) :
        FlattenSeq(seqs)[Offset(p, a, q, F + i - 1) + j] = seqs[i][j]
  BY MergedPeers
<1> HIDE DEF F, C
<1> DEFINE i == b - F + 1
<1>5. i \in 1..C /\ F + i - 1 = b
  BY <1>2, <1>3
<1> HIDE DEF i
<1>6. PICK j \in 1..Common(p, a, q, b) : y = Offset(p, a, q, b) + j
  BY <1>1
<1>7. FlattenSeq(seqs)[y] = seqs[i][j]
  BY <1>4, <1>5, <1>6
<1> QED BY <1>5, <1>6, <1>7 DEF F, C, IsFrom

-----------------------------------------------------------------------------
(* Batches *)

\* Its part of rank a, and of this what a and b have in common.
Whole(k, x, p, a) == [j \in 1..p |-> CellAt(k, x, a * p + j - 1)]

\* The type of a cell.
LEMMA CellType ==
  ASSUME NEW k \in Kinds, NEW x \in Nat, NEW s \in Nat
  PROVE  CellAt(k, x, s) \in CellSet
<1>1. x % Stages \in Nat /\ x \div Stages \in Nat
  BY StagesAssumption, Divided
<1> QED BY <1>1 DEF CellAt, CellSet

\* What two ranks have in common, without regard to their order.
LEMMA PartIsPart ==
  ASSUME NEW p \in Nat \ {0}, NEW q \in Nat \ {0}, NEW a \in Nat, NEW b \in Nat,
         Common(p, a, q, b) > 0, NEW k \in Kinds, NEW x \in Nat
  PROVE  /\ PartOf(Whole(k, x, p, a), Offset(p, a, q, b), Common(p, a, q, b)) = Part(k, x, p, a, q, b)
         /\ Part(k, x, q, b, p, a) = Part(k, x, p, a, q, b)
         /\ Part(k, x, p, a, q, b) \in Seq(CellSet)
         /\ Len(Part(k, x, p, a, q, b)) = Common(p, a, q, b)
         /\ Common(p, a, q, b) \in Nat /\ Begin(p, a, q, b) \in Nat
         /\ Offset(p, a, q, b) \in Nat /\ Offset(p, a, q, b) + Common(p, a, q, b) <= p
         /\ Begin(p, a, q, b) = a * p + Offset(p, a, q, b) /\ a * p \in Nat
<1> DEFINE y == a * p
           B == Begin(p, a, q, b)
           c == Common(p, a, q, b)
           o == Offset(p, a, q, b)
           F == FirstPeer(p, q, a)
           C == Peers(p, q, a)
<1>1. y \in Nat /\ b * q \in Nat
  BY Times
<1>2. B \in Nat /\ o = B - y /\ Begin(q, b, p, a) = B
  <2> DEFINE w == b * q
  <2>1. B = MaxOf(w, y) /\ Begin(q, b, p, a) = MaxOf(y, w) /\ o = B - y
    BY DEF Begin, Offset
  <2> HIDE DEF B, w, y, o
  <2> QED BY <1>1, <2>1 DEF MaxOf, w
<1>3. F \in Nat /\ C \in Nat \ {0} /\ F <= b /\ b < F + C
  BY PeersNat, Meeting
<1>4. c \in Nat /\ o \in Nat /\ o + c <= p
  <2> DEFINE i == b - F + 1
  <2> HIDE DEF F, C, c, o
  <2>1. i \in 1..C /\ b = F + i - 1
    BY <1>3
  <2> HIDE DEF i
  <2> QED BY <2>1, PeerPlaces DEF F, C, c, o
<1>5. Common(q, b, p, a) = c
  BY Meeting
<1>6. Part(k, x, p, a, q, b) = [j \in 1..c |-> CellAt(k, x, B + j - 1)]
  BY DEF Part
<1>7. Part(k, x, q, b, p, a) = [j \in 1..c |-> CellAt(k, x, B + j - 1)]
  BY <1>2, <1>5 DEF Part
<1>8. Whole(k, x, p, a) = [j \in 1..p |-> CellAt(k, x, y + j - 1)]
  BY DEF Whole
<1> HIDE DEF y, B, c, o, F, C
<1>9. \A j \in 1..c : B + j - 1 \in Nat /\ o + j \in 1..p /\ y + (o + j) - 1 = B + j - 1
  BY <1>1, <1>2, <1>4
<1>10. \A j \in 1..c : CellAt(k, x, B + j - 1) \in CellSet
  BY <1>9, CellType
<1>11. \A j \in 1..c : Whole(k, x, p, a)[o + j] = CellAt(k, x, B + j - 1)
  BY <1>8, <1>9
<1>12. PartOf(Whole(k, x, p, a), o, c) = [j \in 1..c |-> CellAt(k, x, B + j - 1)]
  BY <1>11 DEF PartOf
<1> DEFINE part == [j \in 1..c |-> CellAt(k, x, B + j - 1)]
<1>13. part \in Seq(CellSet) /\ Len(part) = c
  BY <1>4, <1>10
<1>14. B = y + o
  BY <1>1, <1>2
<1> HIDE DEF part
<1> QED BY <1>1, <1>2, <1>4, <1>6, <1>7, <1>12, <1>13, <1>14 DEF part, c, o, B, y

\* The type of a batch.
LEMMA WholeType ==
  ASSUME NEW p \in Nat \ {0}, NEW a \in Nat, NEW k \in Kinds, NEW x \in Nat
  PROVE  /\ Whole(k, x, p, a) \in Seq(CellSet) /\ Len(Whole(k, x, p, a)) = p
         /\ DOMAIN Whole(k, x, p, a) = 1..p
<1> DEFINE y == a * p
<1>1. y \in Nat
  BY Times
<1>2. Whole(k, x, p, a) = [j \in 1..p |-> CellAt(k, x, y + j - 1)]
  BY DEF Whole
<1> HIDE DEF y
<1>3. \A j \in 1..p : y + j - 1 \in Nat
  BY <1>1
<1>4. \A j \in 1..p : CellAt(k, x, y + j - 1) \in CellSet
  BY <1>3, CellType
<1> QED BY <1>2, <1>4

\* Observation numbers the batches of a worker one after the other: number and stage are quotient and remainder.
LEMMA ObservationIs ==
  ASSUME cfg \in Configs, NEW e \in Envs, NEW k \in Kinds, NEW x \in Nat
  PROVE  Observation(k, e, x % Stages, x \div Stages) = Whole(k, x, PE, e)
<1>1. Cells(e) = [j \in 1..PE |-> e * PE + j - 1]
  BY DEF Cells, PE
<1>2. DOMAIN Cells(e) = 1..PE /\ \A j \in 1..PE : Cells(e)[j] = e * PE + j - 1
  BY <1>1
<1> QED BY <1>2 DEF Observation, Whole, CellAt

\* Batch x has been sent by e, or answered by r.
ObsSent(new, old, k, x, e) ==
  /\ new \in ObsType
  /\ \A kk \in Kinds, ee \in Envs, r \in Rollouts :
       new[kk][<<ee, r>>] =
         IF kk = k /\ ee = e /\ Near(e, r) THEN Append(old[kk][<<ee, r>>], Piece(k, x, e, r))
         ELSE old[kk][<<ee, r>>]

ResSent(new, old, k, x, r, v) ==
  /\ new \in ResType
  /\ \A kk \in Kinds, e \in Envs, rr \in Rollouts :
       new[kk][<<rr, e>>] =
         IF kk = k /\ rr = r /\ Near(e, r) THEN Append(old[kk][<<rr, e>>], Answer(k, x, e, r, v))
         ELSE old[kk][<<rr, e>>]

\* The type of an answer.
LEMMA LabelledType ==
  ASSUME NEW s \in Seq(CellSet), NEW v \in Int
  PROVE  /\ Labelled(s, v) \in Seq(LabelledSet) /\ Len(Labelled(s, v)) = Len(s)
         /\ \A j \in 1..Len(s) : Labelled(s, v)[j] = [cell |-> s[j], version |-> v]
<1> DEFINE t == [j \in 1..Len(s) |-> [cell |-> s[j], version |-> v]]
<1>1. DOMAIN s = 1..Len(s) /\ Len(s) \in Nat
  OBVIOUS
<1>2. Labelled(s, v) = t
  BY <1>1 DEF Labelled
<1>3. \A j \in 1..Len(s) : s[j] \in CellSet
  OBVIOUS
<1>4. \A j \in 1..Len(s) : [cell |-> s[j], version |-> v] \in LabelledSet
  BY <1>3 DEF LabelledSet
<1>5. \A j \in 1..Len(s) : t[j] = [cell |-> s[j], version |-> v]
  OBVIOUS
<1>6. t \in Seq(LabelledSet) /\ Len(t) = Len(s)
  BY <1>1, <1>4
<1> HIDE DEF t
<1> QED BY <1>2, <1>5, <1>6

\* The type of the part two workers share.
LEMMA PieceType ==
  ASSUME cfg \in Configs, NEW e \in Envs, NEW r \in Rollouts, Near(e, r),
         NEW k \in Kinds, NEW x \in Nat
  PROVE  /\ Piece(k, x, e, r) \in Seq(CellSet)
         /\ \A v \in Int : Answer(k, x, e, r, v) \in Seq(LabelledSet)
<1>1. e \in Nat /\ r \in Nat
  BY EnvRoutes, RolloutRoutes
<1> DEFINE s == Piece(k, x, e, r)
<1>2. s \in Seq(CellSet)
  BY <1>1, ShareType, PartIsPart DEF Piece, Near
<1> HIDE DEF s
<1>3. ASSUME NEW v \in Int PROVE Labelled(s, v) \in Seq(LabelledSet)
  BY <1>2, LabelledType
<1> QED BY <1>2, <1>3 DEF s, Answer

\* Sending an observation appends to each peer's queue its part.
LEMMA ObsSplit ==
  ASSUME cfg \in Configs, NEW old \in ObsType, NEW e \in Envs, NEW k \in Kinds, NEW x \in Nat
  PROVE  ObsSent(Split(old, k, e, EnvDsts(e), Observation(k, e, x % Stages, x \div Stages)), old, k, x, e)
<1> DEFINE batch == Whole(k, x, PE, e)
           dsts == EnvDsts(e)
           new == Split(old, k, e, dsts, batch)
<1>1. e \in Nat /\ PE \in Nat \ {0} /\ PR \in Nat \ {0}
  BY EnvRoutes, ShareType
<1>2. batch \in Seq(CellSet) /\ Len(batch) = PE
  BY <1>1, WholeType
<1>3. k \in DOMAIN old /\ DOMAIN old = Kinds /\ DOMAIN old[k] = Envs \X Rollouts
  BY DEF ObsType
<1>4. IsSplit(new, old, k, PE, e, PR, batch)
  <2> HIDE DEF batch
  <2> QED BY <1>1, <1>2, <1>3, EnvRoutes, SplitIs
<1>5. \A kk \in Kinds : kk # k => new[kk] = old[kk]
  BY <1>3, <1>4 DEF IsSplit
<1>6. ASSUME NEW ee \in Envs, NEW r \in Rollouts
      PROVE  new[k][<<ee, r>>] =
               IF ee = e /\ Near(e, r) THEN Append(old[k][<<ee, r>>], Piece(k, x, e, r))
               ELSE old[k][<<ee, r>>]
  <2>1. ee \in Nat /\ r \in Nat /\ <<ee, r>> \in DOMAIN old[k]
    BY <1>3, EnvRoutes, RolloutRoutes
  <2>2. new[k][<<ee, r>>] =
         IF ee = e /\ Common(PE, e, PR, r) > 0
         THEN Append(old[k][<<ee, r>>], PartOf(batch, Offset(PE, e, PR, r), Common(PE, e, PR, r)))
         ELSE old[k][<<ee, r>>]
    <3> HIDE DEF batch, new
    <3> QED BY <1>4, <2>1 DEF IsSplit
  <2>3. Common(PE, e, PR, r) > 0 =>
          PartOf(batch, Offset(PE, e, PR, r), Common(PE, e, PR, r)) = Piece(k, x, e, r)
    BY <1>1, <2>1, PartIsPart DEF Piece
  <2> HIDE DEF new, batch
  <2> QED BY <2>2, <2>3 DEF Near
<1> HIDE DEF new, batch
<1>7. new \in ObsType
  <2>1. ASSUME NEW ee \in Envs, NEW r \in Rollouts PROVE new[k][<<ee, r>>] \in Seq(Seq(CellSet))
    <3>1. old[k][<<ee, r>>] \in Seq(Seq(CellSet))
      BY DEF ObsType
    <3>2. ee = e /\ Near(e, r) => Piece(k, x, e, r) \in Seq(CellSet)
      BY PieceType
    <3> DEFINE s == old[k][<<ee, r>>]
               t == Piece(k, x, e, r)
               S == Seq(CellSet)
    <3>3. s \in Seq(S) /\ (t \in S => Append(s, t) \in Seq(S))
      BY <3>1
    <3> HIDE DEF s, t, S
    <3> QED BY <1>6, <3>2, <3>3 DEF s, t, S
  <2>2. new[k] \in [Envs \X Rollouts -> Seq(Seq(CellSet))]
    <3>1. new[k] = [pair \in Envs \X Rollouts |-> new[k][pair]]
      BY <1>3, <1>4 DEF IsSplit
    <3>2. \A pair \in Envs \X Rollouts : new[k][pair] \in Seq(Seq(CellSet))
      BY <2>1
    <3> DEFINE f == new[k]
    <3> HIDE DEF f
    <3>3. f = [pair \in Envs \X Rollouts |-> f[pair]] /\ \A pair \in Envs \X Rollouts : f[pair] \in Seq(Seq(CellSet))
      BY <3>1, <3>2 DEF f
    <3> QED BY <3>3 DEF f
  <2>3. \A kk \in Kinds : new[kk] \in [Envs \X Rollouts -> Seq(Seq(CellSet))]
    BY <1>5, <2>2 DEF ObsType
  <2>4. new = [kk \in Kinds |-> new[kk]]
    BY <1>3, <1>4 DEF IsSplit
  <2> QED BY <2>3, <2>4 DEF ObsType
<1>8. ObsSent(new, old, k, x, e)
  BY <1>5, <1>6, <1>7 DEF ObsSent
<1>9. Observation(k, e, x % Stages, x \div Stages) = batch
  BY ObservationIs DEF batch
<1> QED BY <1>8, <1>9 DEF new

\* The part of an answer is the answer to the part.
LEMMA LabelledPart ==
  ASSUME NEW s \in Seq(CellSet), NEW v \in Int, NEW o \in Nat, NEW c \in Nat, o + c <= Len(s)
  PROVE  PartOf(Labelled(s, v), o, c) = Labelled(PartOf(s, o, c), v)
<1>1. \A j \in 1..Len(s) : Labelled(s, v)[j] = [cell |-> s[j], version |-> v]
  BY LabelledType
<1>2. PartOf(s, o, c) = [j \in 1..c |-> s[o + j]]
  BY DEF PartOf
<1>3. \A j \in 1..c : o + j \in 1..Len(s)
  OBVIOUS
<1> DEFINE t == PartOf(s, o, c)
<1>4. DOMAIN t = 1..c /\ \A j \in 1..c : t[j] = s[o + j]
  BY <1>2
<1> HIDE DEF t
<1>5. Labelled(t, v) = [j \in 1..c |-> [cell |-> s[o + j], version |-> v]]
  BY <1>4 DEF Labelled
<1>6. PartOf(Labelled(s, v), o, c) = [j \in 1..c |-> Labelled(s, v)[o + j]]
  BY DEF PartOf
<1>7. PartOf(Labelled(s, v), o, c) = [j \in 1..c |-> [cell |-> s[o + j], version |-> v]]
  BY <1>1, <1>3, <1>6
<1> QED BY <1>5, <1>7 DEF t

\* Sending an answer appends to each peer's queue its part.
LEMMA ResSplit ==
  ASSUME cfg \in Configs, NEW old \in ResType, NEW r \in Rollouts, NEW k \in Kinds, NEW x \in Nat,
         NEW v \in Int
  PROVE  ResSent(Split(old, k, r, RolloutDsts(r), Labelled(Whole(k, x, PR, r), v)), old, k, x, r, v)
<1> DEFINE w == Whole(k, x, PR, r)
           batch == Labelled(w, v)
           dsts == RolloutDsts(r)
           new == Split(old, k, r, dsts, batch)
<1>1. r \in Nat /\ PE \in Nat \ {0} /\ PR \in Nat \ {0}
  BY RolloutRoutes, ShareType
<1>2. w \in Seq(CellSet) /\ Len(w) = PR
  BY <1>1, WholeType
<1>b. batch \in Seq(LabelledSet) /\ Len(batch) = PR
  <2> HIDE DEF w
  <2> QED BY <1>2, LabelledType
<1>3. k \in DOMAIN old /\ DOMAIN old = Kinds /\ DOMAIN old[k] = Rollouts \X Envs
  BY DEF ResType
<1>4. IsSplit(new, old, k, PR, r, PE, batch)
  <2> HIDE DEF batch
  <2> QED BY <1>1, <1>b, <1>3, RolloutRoutes, SplitIs
<1>5. \A kk \in Kinds : kk # k => new[kk] = old[kk]
  BY <1>3, <1>4 DEF IsSplit
<1>6. ASSUME NEW rr \in Rollouts, NEW e \in Envs
      PROVE  new[k][<<rr, e>>] =
               IF rr = r /\ Near(e, r) THEN Append(old[k][<<rr, e>>], Answer(k, x, e, r, v))
               ELSE old[k][<<rr, e>>]
  <2>1. rr \in Nat /\ e \in Nat /\ <<rr, e>> \in DOMAIN old[k]
    BY <1>3, EnvRoutes, RolloutRoutes
  <2>2. new[k][<<rr, e>>] =
         IF rr = r /\ Common(PR, r, PE, e) > 0
         THEN Append(old[k][<<rr, e>>], PartOf(batch, Offset(PR, r, PE, e), Common(PR, r, PE, e)))
         ELSE old[k][<<rr, e>>]
    <3> HIDE DEF batch, new
    <3> QED BY <1>4, <2>1 DEF IsSplit
  <2>4. Common(PR, r, PE, e) > 0 <=> Near(e, r)
    BY <1>1, <2>1, Meeting DEF Near
  <2>3. Common(PR, r, PE, e) > 0 =>
          PartOf(batch, Offset(PR, r, PE, e), Common(PR, r, PE, e)) = Answer(k, x, e, r, v)
    <3> SUFFICES ASSUME Common(PR, r, PE, e) > 0
                 PROVE  PartOf(batch, Offset(PR, r, PE, e), Common(PR, r, PE, e)) = Answer(k, x, e, r, v)
      OBVIOUS
    <3> DEFINE o == Offset(PR, r, PE, e)
               c == Common(PR, r, PE, e)
    <3>1. PartOf(w, o, c) = Part(k, x, PR, r, PE, e) /\ o \in Nat /\ c \in Nat /\ o + c <= PR
      BY <1>1, <2>1, PartIsPart
    <3>2. Part(k, x, PR, r, PE, e) = Part(k, x, PE, e, PR, r)
      BY <1>1, <2>1, <2>4, PartIsPart DEF Near
    <3> HIDE DEF w, o, c
    <3>3. PartOf(Labelled(w, v), o, c) = Labelled(PartOf(w, o, c), v)
      BY <1>2, <3>1, LabelledPart
    <3> QED BY <3>1, <3>2, <3>3 DEF o, c, Answer, Piece
  <2> HIDE DEF new, batch
  <2> QED BY <2>2, <2>3, <2>4
<1> HIDE DEF new, batch
<1>7. new \in ResType
  <2>1. ASSUME NEW rr \in Rollouts, NEW e \in Envs PROVE new[k][<<rr, e>>] \in Seq(Seq(LabelledSet))
    <3>1. old[k][<<rr, e>>] \in Seq(Seq(LabelledSet))
      BY DEF ResType
    <3>2. rr = r /\ Near(e, r) => Answer(k, x, e, r, v) \in Seq(LabelledSet)
      BY PieceType
    <3> DEFINE s == old[k][<<rr, e>>]
               t == Answer(k, x, e, r, v)
               S == Seq(LabelledSet)
    <3>3. s \in Seq(S) /\ (t \in S => Append(s, t) \in Seq(S))
      BY <3>1
    <3> HIDE DEF s, t, S
    <3> QED BY <1>6, <3>2, <3>3 DEF s, t, S
  <2>2. new[k] \in [Rollouts \X Envs -> Seq(Seq(LabelledSet))]
    <3>1. new[k] = [pair \in Rollouts \X Envs |-> new[k][pair]]
      BY <1>3, <1>4 DEF IsSplit
    <3>2. \A pair \in Rollouts \X Envs : new[k][pair] \in Seq(Seq(LabelledSet))
      BY <2>1
    <3> DEFINE f == new[k]
    <3> HIDE DEF f
    <3>3. f = [pair \in Rollouts \X Envs |-> f[pair]] /\ \A pair \in Rollouts \X Envs : f[pair] \in Seq(Seq(LabelledSet))
      BY <3>1, <3>2 DEF f
    <3> QED BY <3>3 DEF f
  <2>3. \A kk \in Kinds : new[kk] \in [Rollouts \X Envs -> Seq(Seq(LabelledSet))]
    BY <1>5, <2>2 DEF ResType
  <2>4. new = [kk \in Kinds |-> new[kk]]
    BY <1>3, <1>4 DEF IsSplit
  <2> QED BY <2>3, <2>4 DEF ResType
<1>8. ResSent(new, old, k, x, r, v)
  BY <1>5, <1>6, <1>7 DEF ResSent
<1> QED BY <1>8 DEF new, batch

\* The parts of a batch that r has from all its sources are all its slots.
ObsParts(got, k, x, r) ==
  /\ Len(got) = Len(RolloutSrcs(r))
  /\ \A i \in 1..Len(RolloutSrcs(r)) : got[i] = Piece(k, x, RolloutSrcs(r)[i], r)

\* The parts of one observation, merged in the order of the sources, are the whole batch: the merge is the inverse of the senders' splits.
LEMMA ObsMerged ==
  ASSUME cfg \in Configs, NEW r \in Rollouts, NEW k \in Kinds, NEW x \in Nat, NEW got,
         ObsParts(got, k, x, r)
  PROVE  FlattenSeq(got) = Whole(k, x, PR, r)
<1> DEFINE F == FirstPeer(PR, PE, r)
           C == Peers(PR, PE, r)
           z == PeerSizes(PR, PE, r)
           w == Whole(k, x, PR, r)
           flat == FlattenSeq(got)
<1>1. r \in Nat /\ PE \in Nat \ {0} /\ PR \in Nat \ {0} /\ Len(RolloutSrcs(r)) = C
  BY RolloutRoutes, RolloutSources, ShareType
<1>2. ASSUME NEW i \in 1..C
      PROVE  /\ RolloutSrcs(r)[i] = F + i - 1 /\ F + i - 1 \in Nat
             /\ got[i] = Part(k, x, PR, r, PE, F + i - 1)
             /\ got[i] \in Seq(CellSet) /\ Len(got[i]) = z[i]
             /\ z[i] = Common(PR, r, PE, F + i - 1)
             /\ Common(PR, r, PE, F + i - 1) > 0
  <2>1. RolloutSrcs(r)[i] = F + i - 1
    BY RolloutRoutes DEF PeersOf
  <2> DEFINE e == F + i - 1
  <2>2. e \in Nat /\ z[i] = Common(PR, r, PE, e) /\ Common(PR, r, PE, e) \in Nat \ {0}
    BY <1>1, PeerPlaces
  <2>3. got[i] = Part(k, x, PE, e, PR, r)
    BY <1>1, <2>1 DEF ObsParts, Piece
  <2> HIDE DEF e, z, C, F
  <2>4. Common(PR, r, PE, e) > 0
    BY <2>2
  <2>5. /\ Part(k, x, PE, e, PR, r) = Part(k, x, PR, r, PE, e)
        /\ Part(k, x, PR, r, PE, e) \in Seq(CellSet)
        /\ Len(Part(k, x, PR, r, PE, e)) = Common(PR, r, PE, e)
    BY <1>1, <2>2, <2>4, PartIsPart
  <2> QED BY <2>1, <2>2, <2>3, <2>4, <2>5 DEF e
<1>3. Fits(CellSet, got, C, z)
  BY <1>1, <1>2 DEF Fits, ObsParts
<1>4. flat \in Seq(CellSet) /\ Len(flat) = PR
  BY <1>1, <1>3, MergedPeers
<1>5. w \in Seq(CellSet) /\ Len(w) = PR
  BY <1>1, WholeType
<1>6. ASSUME NEW y \in 1..PR PROVE flat[y] = w[y]
  <2>1. PICK i \in 1..C : \E j \in 1..Common(PR, r, PE, F + i - 1) :
           y = Offset(PR, r, PE, F + i - 1) + j /\ flat[y] = got[i][j]
    <3>1. PICK i \in 1..C : IsFrom(PR, PE, r, got, y, i)
      BY <1>1, <1>3, MergedAt
    <3> QED BY <3>1 DEF IsFrom
  <2> DEFINE e == F + i - 1
  <2>2. PICK j \in 1..Common(PR, r, PE, e) : y = Offset(PR, r, PE, e) + j /\ flat[y] = got[i][j]
    BY <2>1
  <2>3. e \in Nat /\ got[i] = Part(k, x, PR, r, PE, e) /\ Common(PR, r, PE, e) > 0
    BY <1>2
  <2> HIDE DEF e, flat
  <2>4. flat[y] = CellAt(k, x, Begin(PR, r, PE, e) + j - 1)
    BY <2>2, <2>3 DEF Part
  <2>5. w[y] = CellAt(k, x, r * PR + y - 1)
    BY DEF Whole
  <2>6. Begin(PR, r, PE, e) = r * PR + Offset(PR, r, PE, e) /\ Offset(PR, r, PE, e) \in Nat /\ r * PR \in Nat
    BY <1>1, <2>3, PartIsPart
  <2> DEFINE o == Offset(PR, r, PE, e)
             B == Begin(PR, r, PE, e)
             m == r * PR
  <2>7. B = m + o /\ o \in Nat /\ m \in Nat /\ y = o + j /\ j \in Nat
    BY <2>2, <2>6
  <2> HIDE DEF o, B, m
  <2>8. B + j - 1 = m + y - 1
    BY <2>7
  <2> QED BY <2>4, <2>5, <2>8 DEF B, m
<1> HIDE DEF flat, w
<1>7. flat = w
  BY <1>1, <1>4, <1>5, <1>6, SameSeq
<1> QED BY <1>7 DEF flat, w

\* The parts of the answers to a batch that e has from all its sources answer
\* all its observations, each with the version of its rollout worker.
ResParts(got, k, x, e, vs) ==
  /\ Len(got) = Len(EnvSrcs(e))
  /\ \A i \in 1..Len(EnvSrcs(e)) : vs[i] \in Int /\ got[i] = Answer(k, x, e, EnvSrcs(e)[i], vs[i])

Rows(rows, k, x, e, vs) ==
  /\ rows \in Seq(LabelledSet) /\ Len(rows) = PE
  /\ \A y \in 1..PE : rows[y].cell = Whole(k, x, PE, e)[y]
  /\ \A i \in 1..Len(EnvSrcs(e)) : \A y \in 1..PE : IsRowOf(y, e, i) => rows[y].version = vs[i]

\* So are the parts of an answer, each with the version of its sender.
LEMMA ResMerged ==
  ASSUME cfg \in Configs, NEW e \in Envs, NEW k \in Kinds, NEW x \in Nat, NEW got, NEW vs,
         ResParts(got, k, x, e, vs)
  PROVE  Rows(FlattenSeq(got), k, x, e, vs) /\ \A y \in 1..PE : \E i \in 1..Len(EnvSrcs(e)) : IsRowOf(y, e, i)
<1> DEFINE F == FirstPeer(PE, PR, e)
           C == Peers(PE, PR, e)
           z == PeerSizes(PE, PR, e)
           w == Whole(k, x, PE, e)
           flat == FlattenSeq(got)
<1>1. e \in Nat /\ PE \in Nat \ {0} /\ PR \in Nat \ {0} /\ Len(EnvSrcs(e)) = C /\ Len(EnvSrcs(e)) \in Nat
  BY EnvRoutes, EnvSources, ShareType
<1>2. ASSUME NEW i \in 1..C
      PROVE  /\ EnvSrcs(e)[i] = F + i - 1 /\ F + i - 1 \in Nat
             /\ got[i] \in Seq(LabelledSet) /\ Len(got[i]) = z[i]
             /\ z[i] = Common(PE, e, PR, F + i - 1)
             /\ \A j \in 1..z[i] : got[i][j] =
                  [cell |-> CellAt(k, x, Begin(PE, e, PR, F + i - 1) + j - 1), version |-> vs[i]]
             /\ Common(PE, e, PR, F + i - 1) > 0 /\ vs[i] \in Int
  <2>1. EnvSrcs(e)[i] = F + i - 1
    BY EnvRoutes DEF PeersOf
  <2> DEFINE r == F + i - 1
             s == Part(k, x, PE, e, PR, r)
  <2>2. r \in Nat /\ z[i] = Common(PE, e, PR, r) /\ Common(PE, e, PR, r) \in Nat \ {0}
    BY <1>1, PeerPlaces
  <2>3. got[i] = Labelled(s, vs[i]) /\ vs[i] \in Int
    BY <1>1, <2>1 DEF ResParts, Answer, Piece
  <2> HIDE DEF r, z, C, F
  <2>4. Common(PE, e, PR, r) > 0
    BY <2>2
  <2>5. s \in Seq(CellSet) /\ Len(s) = Common(PE, e, PR, r)
    BY <1>1, <2>2, <2>4, PartIsPart
  <2>6. \A j \in 1..Common(PE, e, PR, r) : s[j] = CellAt(k, x, Begin(PE, e, PR, r) + j - 1)
    BY DEF Part
  <2> HIDE DEF s
  <2>7. /\ got[i] \in Seq(LabelledSet) /\ Len(got[i]) = Len(s)
        /\ \A j \in 1..Len(s) : got[i][j] = [cell |-> s[j], version |-> vs[i]]
    BY <2>3, <2>5, LabelledType
  <2> QED BY <2>1, <2>2, <2>3, <2>4, <2>5, <2>6, <2>7 DEF r
<1>3. Fits(LabelledSet, got, C, z)
  BY <1>1, <1>2 DEF Fits, ResParts
<1>4. flat \in Seq(LabelledSet) /\ Len(flat) = PE
  BY <1>1, <1>3, MergedPeers
<1>5. \A i \in 1..C : \A j \in 1..Common(PE, e, PR, F + i - 1) : flat[Offset(PE, e, PR, F + i - 1) + j] = got[i][j]
  BY <1>1, <1>3, MergedPeers
<1>6. ASSUME NEW y \in 1..PE
      PROVE  flat[y].cell = w[y] /\ \E i \in 1..C : IsRowOf(y, e, i)
  <2>1. PICK i \in 1..C : \E j \in 1..Common(PE, e, PR, F + i - 1) :
           y = Offset(PE, e, PR, F + i - 1) + j /\ flat[y] = got[i][j]
    <3>1. PICK i \in 1..C : IsFrom(PE, PR, e, got, y, i)
      BY <1>1, <1>3, MergedAt
    <3> QED BY <3>1 DEF IsFrom
  <2> DEFINE r == F + i - 1
  <2>2. PICK j \in 1..Common(PE, e, PR, r) : y = Offset(PE, e, PR, r) + j /\ flat[y] = got[i][j]
    BY <2>1
  <2>3. /\ r \in Nat /\ EnvSrcs(e)[i] = r /\ Common(PE, e, PR, r) > 0
        /\ got[i][j] = [cell |-> CellAt(k, x, Begin(PE, e, PR, r) + j - 1), version |-> vs[i]]
    BY <1>2
  <2> HIDE DEF r, flat
  <2>4. flat[y].cell = CellAt(k, x, Begin(PE, e, PR, r) + j - 1)
    BY <2>2, <2>3
  <2>5. w[y] = CellAt(k, x, e * PE + y - 1)
    BY DEF Whole
  <2>6. Begin(PE, e, PR, r) = e * PE + Offset(PE, e, PR, r) /\ Offset(PE, e, PR, r) \in Nat /\ e * PE \in Nat
    BY <1>1, <2>3, PartIsPart
  <2> DEFINE o == Offset(PE, e, PR, r)
             B == Begin(PE, e, PR, r)
             m == e * PE
  <2>7. B = m + o /\ o \in Nat /\ m \in Nat /\ y = o + j /\ j \in Nat
    BY <2>2, <2>6
  <2> HIDE DEF o, B, m
  <2>8. B + j - 1 = m + y - 1
    BY <2>7
  <2>9. IsRowOf(y, e, i)
    BY <2>2, <2>3 DEF IsRowOf
  <2> QED BY <2>4, <2>5, <2>8, <2>9 DEF B, m
<1>7. ASSUME NEW i \in 1..C, NEW y \in 1..PE, IsRowOf(y, e, i) PROVE flat[y].version = vs[i]
  <2> DEFINE r == F + i - 1
  <2>1. PICK j \in 1..Common(PE, e, PR, r) : y = Offset(PE, e, PR, r) + j
    BY <1>2, <1>7 DEF IsRowOf
  <2>2. flat[y] = got[i][j]
    BY <1>5, <2>1
  <2>3. got[i][j] = [cell |-> CellAt(k, x, Begin(PE, e, PR, r) + j - 1), version |-> vs[i]]
    BY <1>2, <2>1
  <2> HIDE DEF flat, r
  <2> QED BY <2>2, <2>3
<1> HIDE DEF flat, w
<1> QED BY <1>1, <1>4, <1>6, <1>7 DEF flat, w, Rows

-----------------------------------------------------------------------------
(* Positions *)

\* y is i after M times S.
IsAfter(y, M, S, i) == y = M * S + i

\* Quotient and remainder after whole rounds.
LEMMA Shifted ==
  ASSUME NEW S \in Nat \ {0}, NEW M \in Nat, NEW i \in Nat, NEW y, IsAfter(y, M, S, i)
  PROVE  y \in Nat /\ y \div S = M + (i \div S) /\ y % S = i % S
<1> DEFINE d == i \div S
           ms == M * S
           ds == d * S
           q == M + d
<1>1. d \in Nat /\ ds <= i /\ i < ds + S /\ i % S = i - ds /\ ds \in Nat /\ ms \in Nat
  BY Divided, Times
<1>2. q * S = ms + ds /\ q \in Nat
  <2>1. \A u, v \in Nat : (u + v) * S = u * S + v * S
    OBVIOUS
  <2> QED BY <1>1, <2>1
<1>0. y = ms + i
  BY DEF IsAfter
<1>3. y \in Nat
  BY <1>0, <1>1
<1> DEFINE qs == q * S
<1>4. qs <= y /\ y < qs + S /\ y - qs = i - ds
  <2>1. qs = ms + ds
    BY <1>2
  <2> HIDE DEF qs, ms, ds, d, q
  <2> QED BY <1>0, <1>1, <2>1
<1> HIDE DEF q
<1>5. y \div S = q
  BY <1>2, <1>3, <1>4, Divided
<1>6. y % S = y - (y \div S) * S
  BY <1>3, Divided
<1>7. y % S = i % S
  BY <1>1, <1>4, <1>5, <1>6
<1> QED BY <1>3, <1>5, <1>7 DEF q

\* A chunk is before another if its positions are.
LEMMA ChunkLess ==
  ASSUME NEW S \in Nat \ {0}, NEW c \in Nat, NEW i \in Nat
  PROVE  i \div S < c <=> i < c * S
<1> DEFINE d == i \div S
           ds == d * S
           cs == c * S
<1>1. d \in Nat /\ ds <= i /\ i < ds + S /\ ds \in Nat /\ cs \in Nat
  BY Divided, Times
<1>2. (d < c => ds + S <= cs) /\ (c < d => cs + S <= ds) /\ (c = d => cs = ds)
  BY <1>1, Times
<1> HIDE DEF d, ds, cs
<1>3. d < c <=> i < cs
  BY <1>1, <1>2
<1> QED BY <1>3 DEF d, cs

\* The chunks of an epoch, with the one for the bootstrap values.
Chunks(k) == IF k = "train" THEN cfg.chunks + 1 ELSE cfg.evalChunks

\* The positions of an epoch: a multiple of the stages, at least one round.
LEMMA PositionsType ==
  ASSUME cfg \in Configs, NEW k \in Kinds
  PROVE  /\ Chunks(k) \in Nat \ {0} /\ Positions(k) = Chunks(k) * Stages
         /\ Positions(k) \in Nat \ {0} /\ Stages \in Nat \ {0} /\ Stages <= Positions(k)
         /\ Positions(k) \div Stages = Chunks(k)
         /\ cfg.epochs \in Nat \ {0} /\ RolloutPositions(k) \in Nat
         /\ \A i \in Nat : Chunk(i) < Chunks(k) - 1 <=> i + Stages < Positions(k)
<1>0. Stages \in Nat \ {0}
  BY StagesAssumption
<1>1. /\ cfg.chunks \in Nat \ {0} /\ cfg.evalChunks \in Nat \ {0} /\ cfg.epochs \in Nat \ {0}
  BY ConfigsAssumption DEF Config
<1>2. Chunks(k) \in Nat \ {0} /\ Positions(k) = Chunks(k) * Stages
  BY <1>1 DEF Chunks, Positions
<1> DEFINE G == Chunks(k)
           g == G - 1
           gs == g * Stages
           P == Positions(k)
<1>3. g \in Nat /\ G = g + 1
  BY <1>2
<1>4. P = gs + Stages /\ gs \in Nat
  <2> HIDE DEF g
  <2>1. (g + 1) * Stages = g * Stages + Stages
    BY <1>0, <1>3, Times
  <2>2. P = G * Stages
    BY <1>2
  <2> HIDE DEF G, P
  <2> QED BY <1>0, <1>3, <2>1, <2>2, Times
<1>5. P \div Stages = G
  <2>1. P \in Nat /\ G * Stages <= P /\ P < G * Stages + Stages /\ G \in Nat
    BY <1>0, <1>2, <1>4
  <2> HIDE DEF P, G
  <2> QED BY <1>0, <2>1, Divided
<1>6. \A i \in Nat : Chunk(i) < g <=> i < gs
  BY <1>0, <1>3, ChunkLess DEF Chunk
<1> HIDE DEF gs, P
<1>7. \A i \in Nat : Chunk(i) < g <=> i + Stages < P
  BY <1>0, <1>4, <1>6
<1>8. P \in Nat \ {0} /\ Stages <= P
  BY <1>0, <1>4
<1>9. RolloutPositions(k) \in Nat
  BY <1>1, <1>8, Times DEF RolloutPositions, P
<1> QED BY <1>0, <1>1, <1>2, <1>5, <1>7, <1>8, <1>9 DEF P

\* Number and stage of a position are those of its batch in the call.
LEMMA BatchIs ==
  ASSUME cfg \in Configs, NEW k \in Kinds, NEW epoch \in Nat, NEW i \in Nat,
         NEW x, x = Base(k, epoch) + i
  PROVE  /\ Base(k, epoch) \in Nat /\ x \in Nat
         /\ Stage(i) = x % Stages /\ Number(k, epoch, i) = x \div Stages
         /\ Stage(i) = (x + Stages) % Stages /\ Number(k, epoch, i) + 1 = (x + Stages) \div Stages
<1> DEFINE G == Chunks(k)
           M == epoch * G
           d == i \div Stages
<1>1. G \in Nat /\ Stages \in Nat \ {0} /\ Positions(k) = G * Stages /\ Positions(k) \div Stages = G
  BY PositionsType
<1>2. M \in Nat
  BY <1>1
<1>3. Base(k, epoch) = M * Stages
  <2>1. \A u, v, w \in Nat : u * (v * w) = (u * v) * w
    OBVIOUS
  <2> QED BY <1>1, <2>1 DEF Base
<1>4. Number(k, epoch, i) = M + d
  BY <1>1 DEF Number, Chunk
<1> HIDE DEF M, G
<1>5. x \in Nat /\ x \div Stages = M + d /\ x % Stages = i % Stages
  <2>1. IsAfter(x, M, Stages, i)
    BY <1>3 DEF IsAfter
  <2> QED BY <1>1, <1>2, <2>1, Shifted
<1>6. d \in Nat
  BY <1>1, Divided
<1>7. x + Stages \in Nat /\ (x + Stages) \div Stages = (x \div Stages) + 1 /\ (x + Stages) % Stages = x % Stages
  <2> DEFINE y == x + Stages
  <2>1. IsAfter(y, 1, Stages, x)
    BY <1>1, <1>5 DEF IsAfter
  <2> HIDE DEF y
  <2>2. y \in Nat /\ y \div Stages = 1 + (x \div Stages) /\ y % Stages = x % Stages
    BY <1>1, <1>5, <2>1, Shifted
  <2>3. x \div Stages \in Nat
    BY <1>2, <1>5, <1>6
  <2> HIDE DEF d
  <2> QED BY <1>1, <1>5, <2>2, <2>3 DEF y
<1>8. Base(k, epoch) \in Nat
  BY <1>1, <1>2, <1>3, Times
<1> HIDE DEF d
<1> QED BY <1>4, <1>5, <1>6, <1>7, <1>8, <1>2 DEF Stage

\* The epochs of a call follow one another and end where the call does.
LEMMA Epochs ==
  ASSUME cfg \in Configs, NEW k \in Kinds, NEW epoch \in Nat, epoch < cfg.epochs
  PROVE  /\ Base(k, epoch) \in Nat /\ RolloutPositions(k) \in Nat /\ Positions(k) \in Nat \ {0}
         /\ Base(k, epoch + 1) = Base(k, epoch) + Positions(k)
         /\ epoch + 1 = cfg.epochs => RolloutPositions(k) = Base(k, epoch) + Positions(k)
         /\ epoch + 1 < cfg.epochs =>
              Base(k, epoch) + Positions(k) + Positions(k) <= RolloutPositions(k)
         /\ Base(k, epoch) + Positions(k) <= RolloutPositions(k)
         /\ Base(k, 0) = 0 /\ cfg.epochs \in Nat
<1> DEFINE P == Positions(k)
           N == cfg.epochs
           b == epoch * P
           c == (epoch + 1) * P
           T == N * P
<1>1. P \in Nat \ {0} /\ N \in Nat
  BY PositionsType
<1>2. b \in Nat /\ T \in Nat /\ c = b + P /\ 0 * P = 0 /\ epoch + 1 \in Nat
  BY <1>1, Times
<1>3. epoch + 1 = N => T = c
  OBVIOUS
<1>4. epoch + 1 < N => c + P <= T
  BY <1>1, <1>2, Times
<1>5. Base(k, epoch) = b /\ Base(k, epoch + 1) = c /\ RolloutPositions(k) = T /\ Base(k, 0) = 0 * P
  BY DEF Base, RolloutPositions
<1>6. epoch + 1 = N \/ epoch + 1 < N
  BY <1>1
<1> HIDE DEF P, N, b, c, T
<1> QED BY <1>1, <1>2, <1>3, <1>4, <1>5, <1>6 DEF P, N

\* An env worker has sent at most one observation per stage beyond its position, and none beyond the call.
LEMMA SentRange ==
  ASSUME cfg \in Configs, NEW k \in Kinds, NEW me, Busy(k, me), NEW pre
  PROVE  /\ PosOf(k, me) \in Nat /\ SentOf(k, me, pre) \in Nat /\ RolloutPositions(k) \in Nat
         /\ PosOf(k, me) < RolloutPositions(k) /\ Stages \in Nat \ {0}
         /\ PosOf(k, me) <= SentOf(k, me, pre) /\ SentOf(k, me, pre) <= PosOf(k, me) + Stages
         /\ SentOf(k, me, pre) <= RolloutPositions(k)
<1> DEFINE P == Positions(k)
           b == Base(k, me.epoch)
           i == me.i
           T == RolloutPositions(k)
<1>1. i \in Nat /\ i < P /\ me.epoch \in Nat /\ me.epoch < cfg.epochs /\ me.pc # "idle"
  BY DEF Busy, EnvSet
<1>2. b \in Nat /\ T \in Nat /\ P \in Nat \ {0} /\ b + P <= T
  BY <1>1, Epochs
<1>3. Stages \in Nat \ {0} /\ Stages <= P
  BY PositionsType
<1>4. PosOf(k, me) = b + i
  BY <1>1 DEF PosOf
<1>5. \/ SentOf(k, me, pre) = b + i
      \/ SentOf(k, me, pre) = MinOf(b + i + Stages, T)
      \/ SentOf(k, me, pre) = b + MinOf(i + Stages, P)
  BY <1>1, <1>4 DEF SentOf
<1> HIDE DEF P, b, i, T
<1> QED BY <1>1, <1>2, <1>3, <1>4, <1>5 DEF MinOf, T

\* Where Advance goes: the next position of the epoch, the next epoch, or the
\* end of the call.
LEMMA AdvanceIs ==
  ASSUME cfg \in Configs, NEW e, NEW k, Busy(k, env[e])
  PROVE  /\ Advance(e) \in EnvSet /\ Advance(e).kind = k /\ Advance(e).got = <<>>
         /\ env[e].i + 1 < Positions(k) =>
              Advance(e).epoch = env[e].epoch /\ Advance(e).i = env[e].i + 1 /\ Advance(e).pc \in {"yield", "recv"}
         /\ env[e].i + 1 = Positions(k) /\ env[e].epoch + 1 < cfg.epochs =>
              Advance(e).epoch = env[e].epoch + 1 /\ Advance(e).i = 0 /\ Advance(e).pc = "boot"
         /\ env[e].i + 1 = Positions(k) /\ env[e].epoch + 1 = cfg.epochs =>
              Advance(e).epoch = 0 /\ Advance(e).i = 0 /\ Advance(e).pc = IF cfg.async THEN "boot" ELSE "idle"
<1> DEFINE me == env[e]
           P == Positions(k)
           N == cfg.epochs
           turn == Turn(k, me.i + 1)
           n1 == [[me EXCEPT !.got = <<>>] EXCEPT !.i = me.i + 1, !.pc = turn]
           n2 == [[me EXCEPT !.got = <<>>] EXCEPT !.epoch = me.epoch + 1, !.i = 0, !.pc = "boot"]
           n3 == [[me EXCEPT !.got = <<>>] EXCEPT !.epoch = 0, !.i = 0, !.pc = IF cfg.async THEN "boot" ELSE "idle"]
<1>1. me \in EnvSet /\ me.kind = k
  BY DEF Busy
<1>2. Advance(e) = CASE me.i + 1 < P -> n1
                     [] me.i + 1 = P /\ me.epoch + 1 < N -> n2
                     [] OTHER -> n3
  BY <1>1 DEF Advance
<1>3. turn \in {"yield", "recv"}
  BY DEF Turn
<1>4. <<>> \in Seq(Seq(LabelledSet)) /\ me.i + 1 \in Nat /\ me.epoch + 1 \in Nat
  BY <1>1 DEF EnvSet
<1> HIDE DEF turn, me, P, N
<1>5. n1 \in EnvSet /\ n1.kind = k /\ n1.got = <<>> /\ n1.epoch = me.epoch /\ n1.i = me.i + 1 /\ n1.pc = turn
  BY <1>1, <1>3, <1>4 DEF EnvSet
<1>6. n2 \in EnvSet /\ n2.kind = k /\ n2.got = <<>> /\ n2.epoch = me.epoch + 1 /\ n2.i = 0 /\ n2.pc = "boot"
  BY <1>1, <1>4 DEF EnvSet
<1>7. n3 \in EnvSet /\ n3.kind = k /\ n3.got = <<>> /\ n3.epoch = 0 /\ n3.i = 0 /\ n3.pc = IF cfg.async THEN "boot" ELSE "idle"
  BY <1>1, <1>4 DEF EnvSet
<1>8. P \in Nat /\ N \in Nat /\ me.i \in Nat /\ me.epoch \in Nat /\ me.i < P /\ me.epoch < N
  <2>1. P \in Nat /\ N \in Nat
    BY <1>1, PositionsType DEF P, N, EnvSet
  <2> QED BY <1>1, <2>1 DEF Busy, EnvSet, me, P, N
<1> HIDE DEF n1, n2, n3
<1>9. /\ me.i + 1 < P => Advance(e) = n1
      /\ me.i + 1 = P /\ me.epoch + 1 < N => Advance(e) = n2
      /\ me.i + 1 = P /\ me.epoch + 1 = N => Advance(e) = n3
      /\ Advance(e) \in {n1, n2, n3}
  BY <1>2, <1>8
<1> QED BY <1>3, <1>5, <1>6, <1>7, <1>9 DEF me, P, N

\* One position on in the call, with one observation more if there is one to
\* send; the last position is the end of the call.
LEMMA AdvanceMoves ==
  ASSUME cfg \in Configs, NEW e, NEW k \in Kinds, Busy(k, env[e]), env[e].pc = "recv", NEW pre,
         k = "train" => ~pre, NEW x, x = PosOf(k, env[e]), NEW s, s = SentOf(k, env[e], pre)
  PROVE  /\ x + 1 < RolloutPositions(k) =>
              /\ Busy(k, Advance(e)) /\ PosOf(k, Advance(e)) = x + 1
              /\ SentOf(k, Advance(e), pre) = s + (IF SendsNext(k, env[e].epoch, env[e].i) THEN 1 ELSE 0)
         /\ x + 1 = RolloutPositions(k) =>
              /\ ~SendsNext(k, env[e].epoch, env[e].i) /\ s = RolloutPositions(k)
              /\ Advance(e).epoch = 0 /\ Advance(e).i = 0
              /\ Advance(e).pc = IF cfg.async THEN "boot" ELSE "idle"
              /\ cfg.async /\ k = "train" =>
                   Busy(k, Advance(e)) /\ PosOf(k, Advance(e)) = 0 /\ SentOf(k, Advance(e), pre) = 0
         /\ SendsNext(k, env[e].epoch, env[e].i) => s = x + Stages
<1> DEFINE me == env[e]
           next == Advance(e)
           P == Positions(k)
           N == cfg.epochs
           b == Base(k, me.epoch)
           T == RolloutPositions(k)
           more == SendsNext(k, me.epoch, me.i)
<1>1. /\ me \in EnvSet /\ me.pc = "recv" /\ me.i \in Nat /\ me.i < P /\ me.epoch \in Nat /\ me.epoch < N
  BY DEF Busy, EnvSet
<1>2. /\ b \in Nat /\ T \in Nat /\ P \in Nat \ {0} /\ b + P <= T /\ N \in Nat
      /\ Base(k, me.epoch + 1) = b + P /\ Base(k, 0) = 0
      /\ me.epoch + 1 = N => T = b + P
      /\ me.epoch + 1 < N => b + P + P <= T
  BY <1>1, Epochs
<1>3. Stages \in Nat \ {0} /\ Stages <= P
  BY PositionsType
<1>4. x = b + me.i
  BY <1>1 DEF PosOf
<1>5. s = IF k = "eval" /\ cfg.autoReset THEN MinOf(x + Stages, T) ELSE b + MinOf(me.i + Stages, P)
  <2>1. ~Bootstraps(k, me, pre)
    BY <1>1 DEF Bootstraps
  <2> QED BY <1>1, <1>4, <2>1 DEF SentOf, PosOf
<1>6. more <=> \/ me.i + Stages < P
               \/ k = "eval" /\ cfg.autoReset /\ me.epoch < N - 1
  <2>1. Chunk(me.i) < Chunks(k) - 1 <=> me.i + Stages < P
    BY <1>1, PositionsType
  <2>2. k = "train" => Chunks(k) - 1 = cfg.chunks
    <3>1. cfg.chunks \in Nat
      BY ConfigsAssumption DEF Config
    <3> QED BY <3>1 DEF Chunks
  <2>3. k # "train" => k = "eval" /\ Chunks(k) = cfg.evalChunks
    BY DEF Chunks, Kinds
  <2> QED BY <2>1, <2>2, <2>3 DEF SendsNext
<1> HIDE DEF more, b, T, P, N, me
<1>7. /\ next \in EnvSet /\ next.kind = k
      /\ me.i + 1 < P => next.epoch = me.epoch /\ next.i = me.i + 1 /\ next.pc \in {"yield", "recv"}
      /\ me.i + 1 = P /\ me.epoch + 1 < N => next.epoch = me.epoch + 1 /\ next.i = 0 /\ next.pc = "boot"
      /\ me.i + 1 = P /\ me.epoch + 1 = N =>
           next.epoch = 0 /\ next.i = 0 /\ next.pc = IF cfg.async THEN "boot" ELSE "idle"
  BY AdvanceIs DEF me, P, N
<1> HIDE DEF next
<1>8. CASE me.i + 1 < P
  <2>1. /\ Busy(k, next) /\ PosOf(k, next) = x + 1 /\ x + 1 < T
    BY <1>1, <1>2, <1>4, <1>7, <1>8 DEF Busy, PosOf, P, N, b
  <2>2. SentOf(k, next, pre) = IF k = "eval" /\ cfg.autoReset THEN MinOf(x + 1 + Stages, T)
                               ELSE b + MinOf(me.i + 1 + Stages, P)
    <3>1. ~Bootstraps(k, next, pre) /\ next.pc # "idle"
      BY <1>7, <1>8 DEF Bootstraps
    <3> QED BY <1>7, <1>8, <2>1, <3>1 DEF SentOf, T, P, b
  <2>3. SentOf(k, next, pre) = s + (IF more THEN 1 ELSE 0)
    <3>1. CASE k = "eval" /\ cfg.autoReset
      BY <1>1, <1>2, <1>3, <1>4, <1>5, <1>6, <2>2, <3>1 DEF MinOf
    <3>2. CASE ~(k = "eval" /\ cfg.autoReset)
      BY <1>1, <1>2, <1>3, <1>4, <1>5, <1>6, <2>2, <3>2 DEF MinOf
    <3> QED BY <3>1, <3>2
  <2>4. more => s = x + Stages
    BY <1>1, <1>2, <1>3, <1>4, <1>5, <1>6 DEF MinOf
  <2> QED BY <1>2, <2>1, <2>3, <2>4 DEF me, next, T, more
<1>9. CASE me.i + 1 = P /\ me.epoch + 1 < N
  <2>1. /\ Busy(k, next) /\ PosOf(k, next) = x + 1 /\ x + 1 < T
    BY <1>1, <1>2, <1>4, <1>7, <1>9 DEF Busy, PosOf, P, N
  <2>2. SentOf(k, next, pre) = IF k = "eval" /\ cfg.autoReset THEN MinOf(x + 1 + Stages, T) ELSE x + 1
    <3>1. Bootstraps(k, next, pre) <=> ~(k = "eval" /\ cfg.autoReset)
      BY <1>1, <1>7, <1>9 DEF Bootstraps, Kinds
    <3> QED BY <1>7, <1>9, <2>1, <3>1 DEF SentOf, T
  <2>3. SentOf(k, next, pre) = s + (IF more THEN 1 ELSE 0)
    <3>1. CASE k = "eval" /\ cfg.autoReset
      BY <1>1, <1>2, <1>3, <1>4, <1>5, <1>6, <1>9, <2>2, <3>1 DEF MinOf
    <3>2. CASE ~(k = "eval" /\ cfg.autoReset)
      BY <1>1, <1>2, <1>3, <1>4, <1>5, <1>6, <1>9, <2>2, <3>2 DEF MinOf
    <3> QED BY <3>1, <3>2
  <2>4. more => s = x + Stages
    BY <1>1, <1>2, <1>3, <1>4, <1>5, <1>6, <1>9 DEF MinOf
  <2> QED BY <1>2, <2>1, <2>3, <2>4 DEF me, next, T, more
<1>10. CASE me.i + 1 = P /\ me.epoch + 1 = N
  <2>1. x + 1 = T
    BY <1>1, <1>2, <1>4, <1>10
  <2>2. ~more /\ s = T
    BY <1>1, <1>2, <1>3, <1>4, <1>5, <1>6, <1>10 DEF MinOf
  <2>3. ASSUME cfg.async, k = "train"
        PROVE  Busy(k, next) /\ PosOf(k, next) = 0 /\ SentOf(k, next, pre) = 0
    <3>1. next.pc = "boot" /\ next.epoch = 0 /\ next.i = 0
      BY <1>7, <1>10, <2>3
    <3>2. Busy(k, next) /\ PosOf(k, next) = 0
      BY <1>1, <1>2, <1>7, <3>1 DEF Busy, PosOf, P, N
    <3>3. Bootstraps(k, next, pre)
      BY <2>3, <3>1 DEF Bootstraps
    <3> QED BY <3>1, <3>2, <3>3 DEF SentOf
  <2> QED BY <1>2, <1>7, <1>10, <2>1, <2>2, <2>3 DEF me, next, T, more
<1> QED BY <1>1, <1>2, <1>8, <1>9, <1>10

\* The bootstrap changes what has been sent, not the position.
\* next is how me goes on when the epoch begins.
BootsTo(me, next) ==
  me.pc = "boot" /\ next \in {[me EXCEPT !.pc = turn, !.i = 0] : turn \in {"yield", "recv"}}

Booted(k, me, pre, next, post) ==
  /\ Busy(k, next) /\ PosOf(k, next) = PosOf(k, me) /\ PosOf(k, me) = Base(k, me.epoch)
  /\ SentOf(k, next, post) = SentOf(k, me, pre) + (IF Bootstraps(k, me, pre) THEN Stages ELSE 0)
  /\ Bootstraps(k, me, pre) => SentOf(k, me, pre) = PosOf(k, me)

\* Beginning an epoch sends what SentOf says is missing.
LEMMA BootMoves ==
  ASSUME cfg \in Configs, NEW k \in Kinds, NEW me, Busy(k, me), NEW pre, NEW next, NEW post, BootsTo(me, next)
  PROVE  Booted(k, me, pre, next, post)
<1>0. me.pc = "boot" BY DEF BootsTo
<1> PICK turn \in {"yield", "recv"} : next = [me EXCEPT !.pc = turn, !.i = 0] BY DEF BootsTo
<1> DEFINE P == Positions(k)
           N == cfg.epochs
           b == Base(k, me.epoch)
           T == RolloutPositions(k)
<1>1. /\ me \in EnvSet /\ me.kind = k /\ me.i = 0 /\ me.epoch \in Nat /\ me.epoch < N /\ 0 < P
  BY <1>0 DEF Busy, EnvSet
<1>2. b \in Nat /\ T \in Nat /\ P \in Nat \ {0} /\ b + P <= T /\ Base(k, 0) = 0
  BY <1>1, Epochs
<1>3. Stages \in Nat \ {0} /\ Stages <= P
  BY PositionsType
<1>4. /\ next \in EnvSet /\ next.kind = k /\ next.pc = turn /\ next.i = 0 /\ next.epoch = me.epoch
      /\ next.pc # "idle" /\ next.pc # "boot"
  BY <1>1 DEF EnvSet
<1>5. Busy(k, next)
  BY <1>1, <1>4 DEF Busy
<1>6. PosOf(k, me) = b /\ PosOf(k, next) = b
  BY <1>0, <1>1, <1>2, <1>4 DEF PosOf
<1>7. SentOf(k, next, post) = IF k = "eval" /\ cfg.autoReset THEN MinOf(b + Stages, T) ELSE b + MinOf(Stages, P)
  <2>1. ~Bootstraps(k, next, post) /\ 0 + Stages = Stages
    BY <1>3, <1>4 DEF Bootstraps
  <2> QED BY <1>4, <1>6, <2>1 DEF SentOf
<1>8. SentOf(k, me, pre) = IF Bootstraps(k, me, pre) THEN b
                           ELSE IF k = "eval" /\ cfg.autoReset THEN MinOf(b + Stages, T)
                           ELSE b + MinOf(Stages, P)
  <2>1. 0 + Stages = Stages
    BY <1>3
  <2> QED BY <1>0, <1>1, <1>6, <2>1 DEF SentOf
<1> HIDE DEF b, P, T, N
<1>9. SentOf(k, next, post) = b + Stages \/ ~Bootstraps(k, me, pre)
  BY <1>2, <1>3, <1>7 DEF MinOf
<1>10. SentOf(k, me, pre) \in Nat
  BY <1>2, <1>3, <1>8 DEF MinOf
<1> QED BY <1>2, <1>3, <1>5, <1>6, <1>7, <1>8, <1>9, <1>10 DEF b, Booted

\* m batches from y on have been sent by e.
BootSent(new, old, k, y, e, m) ==
  /\ new \in ObsType
  /\ \A kk \in Kinds, ee \in Envs, r \in Rollouts :
       IF kk = k /\ ee = e /\ Near(e, r)
       THEN /\ Len(new[kk][<<ee, r>>]) = Len(old[kk][<<ee, r>>]) + m
            /\ \A j \in 1..Len(old[kk][<<ee, r>>]) : new[kk][<<ee, r>>][j] = old[kk][<<ee, r>>][j]
            /\ \A j \in 1..m : new[kk][<<ee, r>>][Len(old[kk][<<ee, r>>]) + j] = Piece(k, y + j - 1, e, r)
       ELSE new[kk][<<ee, r>>] = old[kk][<<ee, r>>]

\* The type of one queue.
LEMMA QueueTypes ==
  ASSUME NEW kk \in Kinds, NEW e \in Envs, NEW r \in Rollouts
  PROVE  /\ \A q \in ObsType : q[kk][<<e, r>>] \in Seq(Seq(CellSet))
         /\ \A q \in ResType : q[kk][<<r, e>>] \in Seq(Seq(LabelledSet))
BY DEF ObsType, ResType

\* The bootstrap, one stage on.
LEMMA BootSentNext ==
  ASSUME cfg \in Configs, NEW old \in ObsType, NEW n1, NEW n2, NEW k \in Kinds, NEW e \in Envs, NEW y \in Nat, NEW m \in Nat,
         BootSent(n1, old, k, y, e, m), ObsSent(n2, n1, k, y + m, e)
  PROVE  BootSent(n2, old, k, y, e, m + 1)
<1> SUFFICES ASSUME NEW kk \in Kinds, NEW ee \in Envs, NEW r \in Rollouts
             PROVE
       IF kk = k /\ ee = e /\ Near(e, r)
       THEN /\ Len(n2[kk][<<ee, r>>]) = Len(old[kk][<<ee, r>>]) + (m + 1)
            /\ \A j \in 1..Len(old[kk][<<ee, r>>]) : n2[kk][<<ee, r>>][j] = old[kk][<<ee, r>>][j]
            /\ \A j \in 1..m + 1 : n2[kk][<<ee, r>>][Len(old[kk][<<ee, r>>]) + j] = Piece(k, y + j - 1, e, r)
       ELSE n2[kk][<<ee, r>>] = old[kk][<<ee, r>>]
  BY DEF BootSent, ObsSent
<1> DEFINE q0 == old[kk][<<ee, r>>]
           q1 == n1[kk][<<ee, r>>]
           q2 == n2[kk][<<ee, r>>]
           p == Piece(k, y + m, e, r)
           S == Seq(CellSet)
<1>1. q0 \in Seq(S) /\ q1 \in Seq(S) /\ q2 \in Seq(S)
  BY QueueTypes DEF BootSent, ObsSent
<1>2. q2 = IF kk = k /\ ee = e /\ Near(e, r) THEN Append(q1, p) ELSE q1
  BY DEF ObsSent
<1>3. IF kk = k /\ ee = e /\ Near(e, r)
      THEN /\ Len(q1) = Len(q0) + m
           /\ \A j \in 1..Len(q0) : q1[j] = q0[j]
           /\ \A j \in 1..m : q1[Len(q0) + j] = Piece(k, y + j - 1, e, r)
      ELSE q1 = q0
  BY DEF BootSent
<1> HIDE DEF q0, q1, q2, S
<1>4. CASE ~(kk = k /\ ee = e /\ Near(e, r))
  BY <1>2, <1>3, <1>4 DEF q0, q1, q2
<1>5. CASE kk = k /\ ee = e /\ Near(e, r)
  <2>1. q2 = Append(q1, p) /\ Len(q2) = Len(q0) + (m + 1) /\ q2[Len(q1) + 1] = p
        /\ \A j \in 1..Len(q1) : q2[j] = q1[j]
    <3>1. p \in S
      BY <1>5, PieceType DEF S
    <3> HIDE DEF p
    <3>2. q2 = Append(q1, p) /\ Len(q1) = Len(q0) + m /\ Len(q0) \in Nat
      BY <1>1, <1>2, <1>3, <1>5
    <3>3. Len(Append(q1, p)) = Len(q1) + 1 /\ Append(q1, p)[Len(q1) + 1] = p
          /\ \A j \in 1..Len(q1) : Append(q1, p)[j] = q1[j]
      BY <1>1, <3>1
    <3>4. Len(q1) + 1 = Len(q0) + (m + 1)
      BY <3>2
    <3> HIDE DEF S
    <3> QED BY <3>2, <3>3, <3>4
  <2>2. \A j \in 1..Len(q0) : q2[j] = q0[j]
    BY <1>1, <1>3, <1>5, <2>1
  <2>3. ASSUME NEW j \in 1..m + 1 PROVE q2[Len(q0) + j] = Piece(k, y + j - 1, e, r)
    <3>1. CASE j = m + 1
      <4>1. Len(q0) + j = Len(q1) + 1 /\ y + j - 1 = y + m
        BY <1>1, <1>3, <1>5, <3>1
      <4> QED BY <2>1, <4>1
    <3>2. CASE j # m + 1
      <4>1. j \in 1..m /\ Len(q0) + j \in 1..Len(q1)
        BY <1>1, <1>3, <1>5, <3>2
      <4> QED BY <1>3, <1>5, <2>1, <4>1
    <3> QED BY <3>1, <3>2
  <2> QED BY <1>5, <2>1, <2>2, <2>3 DEF q0, q2
<1> QED BY <1>4, <1>5

\* Quotient and remainder of a small number.
LEMMA Small ==
  ASSUME NEW S \in Nat \ {0}, NEW i \in Nat, i < S
  PROVE  i \div S = 0 /\ i % S = i /\ 0 \div S = 0
<1> DEFINE d == i \div S
           ds == d * S
<1>1. d \in Nat /\ ds <= i /\ ds \in Nat /\ i % S = i - ds
  BY Divided, Times
<1>2. 0 < d => 0 * S + S <= ds
  BY <1>1, Times
<1>3. 0 * S = 0
  OBVIOUS
<1> HIDE DEF ds
<1>4. d = 0
  <2> HIDE DEF d
  <2> QED BY <1>1, <1>2, <1>3
<1>5. ds = 0
  BY <1>3, <1>4 DEF ds
<1>6. 0 \div S = 0
  OBVIOUS
<1> QED BY <1>1, <1>4, <1>5, <1>6

\* SendBootstrap sends the first batch of each stage.
LEMMA SendBootstrapIs ==
  ASSUME cfg \in Configs, NEW old \in ObsType, NEW e \in Envs, NEW k \in Kinds, NEW epoch \in Nat
  PROVE  BootSent(SendBootstrap(old, k, e, epoch), old, k, Base(k, epoch), e, Stages)
<1> DEFINE y == Base(k, epoch)
           Sends1(q, s) == Split(q, k, e, EnvDsts(e), Observation(k, e, s - 1, Number(k, epoch, 0)))
           B == ObsType
           step == [a \in Nat \X B |-> IF a[1] \in 1..Stages THEN Sends1(a[2], a[1]) ELSE a[2]]
           Unfolds(h) == h = [s \in 0..Stages |-> IF s = 0 THEN old ELSE Sends1(h[s - 1], s)]
           h == CHOOSE f : Unfolds(f)
<1>1. y \in Nat /\ Stages \in Nat \ {0}
  <2>1. \A x : x = Base(k, epoch) + 0 => Base(k, epoch) \in Nat
    BY BatchIs
  <2> QED BY <2>1, PositionsType
<1>2. ASSUME NEW q \in B, NEW s \in 1..Stages
      PROVE  ObsSent(Sends1(q, s), q, k, y + (s - 1), e) /\ Sends1(q, s) \in B
  <2> DEFINE x == y + (s - 1)
             G == Chunks(k)
             M == epoch * G
             i == s - 1
  <2>1. i \in Nat /\ i < Stages /\ x \in Nat /\ x = y + i
    BY <1>1
  <2>2. G \in Nat /\ Positions(k) = G * Stages /\ Positions(k) \div Stages = G
    BY PositionsType
  <2>3. M \in Nat
    BY <2>2
  <2>4. y = M * Stages
    <3>1. \A u, v, w \in Nat : u * (v * w) = (u * v) * w
      OBVIOUS
    <3> QED BY <1>1, <2>2, <3>1 DEF Base
  <2>5. i \div Stages = 0 /\ i % Stages = i /\ 0 \div Stages = 0
    <3> HIDE DEF i
    <3> QED BY <1>1, <2>1, Small
  <2>6. x % Stages = i /\ x \div Stages = M + 0
    <3>1. IsAfter(x, M, Stages, i)
      BY <2>1, <2>4 DEF IsAfter
    <3> HIDE DEF x, i, M, y
    <3>2. x \div Stages = M + (i \div Stages) /\ x % Stages = i % Stages
      BY <1>1, <2>1, <2>3, <3>1, Shifted
    <3> QED BY <2>5, <3>2
  <2>7. Number(k, epoch, 0) = M + 0
    BY <2>2, <2>5 DEF Number, Chunk
  <2> DEFINE n == Number(k, epoch, 0)
  <2>8. x % Stages = s - 1 /\ x \div Stages = n
    BY <2>6, <2>7
  <2> HIDE DEF x, n, M, G
  <2>9. ObsSent(Split(q, k, e, EnvDsts(e), Observation(k, e, x % Stages, x \div Stages)), q, k, x, e)
    BY <2>1, ObsSplit
  <2>10. ObsSent(Sends1(q, s), q, k, x, e)
    BY <2>8, <2>9 DEF n
  <2> HIDE DEF Sends1
  <2> QED BY <2>10 DEF x, ObsSent
<1>3. old \in B /\ step \in [Nat \X B -> B]
  <2>1. \A a \in Nat \X B : (IF a[1] \in 1..Stages THEN Sends1(a[2], a[1]) ELSE a[2]) \in B
    BY <1>2
  <2> HIDE DEF B, Sends1
  <2> QED BY <2>1 DEF B
<1>4. \A q \in B, s \in 1..Stages : step[<<s, q>>] = Sends1(q, s)
  <2> HIDE DEF B, Sends1
  <2> SUFFICES ASSUME NEW q \in B, NEW s \in 1..Stages PROVE step[<<s, q>>] = Sends1(q, s)
    OBVIOUS
  <2> DEFINE a == <<s, q>>
  <2>1. a \in Nat \X B /\ a[1] = s /\ a[2] = q
    OBVIOUS
  <2> HIDE DEF a
  <2>2. step[a] = Sends1(a[2], a[1])
    BY <2>1
  <2> QED BY <2>1, <2>2 DEF a
<1>s. SendBootstrap(old, k, e, epoch) = h[Stages]
  BY DEF SendBootstrap
<1> HIDE DEF B, step, Sends1, y
<1>5. PICK f : Iterated(f, Stages, B, old, step)
  BY <1>1, <1>3, Recursion
<1>6. f \in [0..Stages -> B] /\ f[0] = old /\ \A s \in 1..Stages : f[s] = step[<<s, f[s - 1]>>]
  BY <1>5 DEF Iterated
<1>7. \A s \in 1..Stages : f[s - 1] \in B /\ f[s] = Sends1(f[s - 1], s)
  <2> SUFFICES ASSUME NEW s \in 1..Stages PROVE f[s - 1] \in B /\ f[s] = Sends1(f[s - 1], s)
    OBVIOUS
  <2>1. s - 1 \in 0..Stages
    BY <1>1
  <2> QED BY <1>4, <1>6, <2>1
<1>8. Unfolds(f)
  <2>1. \A s \in 0..Stages : f[s] = IF s = 0 THEN old ELSE Sends1(f[s - 1], s)
    BY <1>6, <1>7
  <2> QED BY <1>6, <2>1
<1>9. Unfolds(h)
  <2> HIDE DEF Unfolds
  <2> QED BY <1>8
<1> HIDE DEF h
<1> DEFINE T == {m \in Nat : m <= Stages => h[m] \in B /\ BootSent(h[m], old, k, y, e, m)}
<1>10. 0 \in T
  <2>1. h[0] = old
    BY <1>1, <1>9
  <2>2. \A kk \in Kinds, ee \in Envs, r \in Rollouts : old[kk][<<ee, r>>] \in Seq(Seq(CellSet))
    BY <1>3, QueueTypes DEF B
  <2>3. BootSent(old, old, k, y, e, 0)
    BY <1>3, <2>2 DEF BootSent, B
  <2> QED BY <1>3, <2>1, <2>3
<1>11. ASSUME NEW m \in T \cap Nat PROVE m + 1 \in T
  <2> SUFFICES ASSUME m + 1 <= Stages PROVE h[m + 1] \in B /\ BootSent(h[m + 1], old, k, y, e, m + 1)
    OBVIOUS
  <2> DEFINE s == m + 1
  <2>1. s \in 1..Stages /\ s - 1 = m /\ h[m] \in B /\ BootSent(h[m], old, k, y, e, m) /\ s \in 0..Stages /\ s # 0
    BY <1>1
  <2> HIDE DEF s, T
  <2>2. h[s] = Sends1(h[m], s)
    BY <1>9, <2>1
  <2>3. ObsSent(h[s], h[m], k, y + m, e) /\ h[s] \in B
    BY <1>2, <2>1, <2>2
  <2>4. BootSent(h[s], old, k, y, e, m + 1)
    BY <1>1, <1>3, <2>1, <2>3, BootSentNext DEF B
  <2> QED BY <2>3, <2>4 DEF s
<1>12. Stages \in T
  <2> HIDE DEF T
  <2> QED BY <1>1, <1>10, <1>11, Induction
<1> QED BY <1>1, <1>s, <1>12 DEF y

-----------------------------------------------------------------------------
(* The versions *)

\* What depends on cfg alone is the same in the next state.
LEMMA SharesNext ==
  ASSUME cfg' = cfg
  PROVE  PE' = PE /\ PR' = PR /\ Envs' = Envs /\ Rollouts' = Rollouts
BY DEF PE, PR, Envs, Rollouts

\* Nor do the pairs of workers,
LEMMA NearNext ==
  ASSUME cfg' = cfg, NEW e, NEW r
  PROVE  Near(e, r)' = Near(e, r) /\ Of(e, r)' = Of(e, r) /\ By(r, e)' = By(r, e)
BY SharesNext DEF Near, Of, By

\* their sources,
LEMMA SourcesNext ==
  ASSUME cfg' = cfg, NEW e
  PROVE  EnvSrcs(e)' = EnvSrcs(e) /\ RolloutSrcs(e)' = RolloutSrcs(e)
BY DEF EnvSrcs, RolloutSrcs

\* the positions of a call,
LEMMA PositionsNext ==
  ASSUME cfg' = cfg, NEW k
  PROVE  Positions(k)' = Positions(k) /\ RolloutPositions(k)' = RolloutPositions(k)
BY DEF Positions, RolloutPositions

\* the position of a worker,
LEMMA PosNext ==
  ASSUME cfg' = cfg, NEW k, NEW now, NEW me
  PROVE  PosOf(k, me)' = PosOf(k, me) /\ Pos(k, now, me)' = Pos(k, now, me)
<1>1. PosOf(k, me)' = PosOf(k, me) BY PositionsNext DEF PosOf, Base
<1> QED BY <1>1 DEF Pos

\* what it has sent,
LEMMA SentNext ==
  ASSUME cfg' = cfg, NEW k, NEW now, NEW me, NEW pre
  PROVE  SentOf(k, me, pre)' = SentOf(k, me, pre) /\ Sent(k, now, me, pre)' = Sent(k, now, me, pre)
<1>1. Bootstraps(k, me, pre)' = Bootstraps(k, me, pre) BY DEF Bootstraps
<1>2. Base(k, me.epoch)' = Base(k, me.epoch) BY PositionsNext DEF Base
<1>3. SentOf(k, me, pre)' = SentOf(k, me, pre) BY <1>1, <1>2, PositionsNext, PosNext DEF SentOf
<1> QED BY <1>3 DEF Sent

\* the parts,
LEMMA PieceNext ==
  ASSUME cfg' = cfg, NEW k, NEW x, NEW e, NEW r
  PROVE  Piece(k, x, e, r)' = Piece(k, x, e, r) /\ \A v : Answer(k, x, e, r, v)' = Answer(k, x, e, r, v)
<1>1. Piece(k, x, e, r)' = Piece(k, x, e, r) BY SharesNext DEF Piece
<1>2. ASSUME NEW v PROVE Answer(k, x, e, r, v)' = Answer(k, x, e, r, v)
  BY <1>1 DEF Answer
<1> QED BY <1>1, <1>2

\* what is on the way,
LEMMA WayNext ==
  ASSUME cfg' = cfg, NEW k, NEW e, NEW r, NEW now, NEW w, NEW s
  PROVE  Coming(k, e, r, now, w, s)' = Coming(k, e, r, now, w, s) /\ Going(k, e, r, now, w, s)' = Going(k, e, r, now, w, s)
BY NearNext DEF Coming, Going

\* the order on it,
LEMMA LinkedNext ==
  ASSUME cfg' = cfg, NEW k, NEW e, NEW r, NEW pos, NEW sent, NEW cs, NEW gs
  PROVE  Linked(k, e, r, pos, sent, cs, gs)' <=> Linked(k, e, r, pos, sent, cs, gs)
<1>1. ASSUME NEW x PROVE Piece(k, x, e, r)' = Piece(k, x, e, r) BY PieceNext
<1>2. ASSUME NEW x, NEW v PROVE Answer(k, x, e, r, v)' = Answer(k, x, e, r, v) BY PieceNext
<1>3. (\A j \in 1..Len(cs) : cs[j] = Answer(k, pos + j - 1, e, r, cs[j][1].version))'
      <=> \A j \in 1..Len(cs) : cs[j] = Answer(k, pos + j - 1, e, r, cs[j][1].version)
  BY <1>2
<1>4. (\A j \in 1..Len(gs) : gs[j] = Piece(k, pos + Len(cs) + j - 1, e, r))'
      <=> \A j \in 1..Len(gs) : gs[j] = Piece(k, pos + Len(cs) + j - 1, e, r)
  BY <1>1
<1>5. (cs \in Seq(Seq(LabelledSet)))' <=> cs \in Seq(Seq(LabelledSet))
  BY DEF LabelledSet, CellSet, Kinds
<1>6. (gs \in Seq(Seq(CellSet)))' <=> gs \in Seq(Seq(CellSet))
  BY DEF CellSet, Kinds
<1> QED BY <1>3, <1>4, <1>5, <1>6 DEF Linked

\* and so the condition on a pair,
LEMMA PairIsNext ==
  ASSUME cfg' = cfg, NEW k, NEW e, NEW r, NEW now, NEW pos, NEW sent, NEW ro, NEW cs, NEW gs
  PROVE  PairIs(k, e, r, now, pos, sent, ro, cs, gs)' <=> PairIs(k, e, r, now, pos, sent, ro, cs, gs)
<1>1. ASSUME NEW x PROVE IsAt(k, ro, x)' <=> IsAt(k, ro, x)
  BY PositionsNext DEF IsAt
<1> QED BY <1>1, LinkedNext DEF PairIs

\* in both its forms,
LEMMA PairNext ==
  ASSUME cfg' = cfg, NEW k, NEW e, NEW r, NEW now, NEW me, NEW pre, NEW ro, NEW q, NEW s
  PROVE  PairOK(k, e, r, now, me, pre, ro, q, s)' <=> PairOK(k, e, r, now, me, pre, ro, q, s)
<1>1. Pos(k, now, me)' = Pos(k, now, me) BY PosNext
<1>2. Sent(k, now, me, pre)' = Sent(k, now, me, pre) BY SentNext
<1>3. Coming(k, e, r, now, me, s)' = Coming(k, e, r, now, me, s) BY WayNext
<1>4. Going(k, e, r, now, ro, q)' = Going(k, e, r, now, ro, q) BY WayNext
<1> QED BY <1>1, <1>2, <1>3, <1>4, PairIsNext DEF PairOK

\* and on all pairs.
LEMMA PairedNext ==
  ASSUME cfg' = cfg,
         \A k \in Kinds, e \in Envs, r \in Rollouts : Near(e, r) =>
            PairOK(k, e, r, Now', env'[e], prefetched'[e], rollout'[r], obs'[k][<<e, r>>], res'[k][<<r, e>>])
  PROVE  Paired'
BY SharesNext, NearNext, PairNext DEF Paired

\* The same for the versions of a pair,
LEMMA OrderedNext ==
  ASSUME cfg' = cfg, NEW e, NEW r, NEW fresh, NEW bs, NEW cs, NEW v
  PROVE  Ordered(e, r, fresh, bs, cs, v)' <=> Ordered(e, r, fresh, bs, cs, v)
<1>1. ASSUME NEW a, NEW b PROVE Older(a, b)' <=> Older(a, b)
  BY DEF Older
<1>2. ASSUME NEW y, NEW i PROVE IsRowOf(y, e, i)' <=> IsRowOf(y, e, i)
  BY SharesNext, SourcesNext DEF IsRowOf
<1> QED BY <1>1, <1>2, NearNext, SharesNext DEF Ordered

\* and of all pairs,
LEMMA VersionsNext ==
  ASSUME cfg' = cfg,
         \A e \in Envs, r \in Rollouts : Near(e, r) /\ Now' # "none" =>
           Ordered(e, r, Fresh(Now', env'[e]), results'[e],
                   Coming(Now', e, r, Now', env'[e], res'[Now'][<<r, e>>]), version'[r])
  PROVE  VersionsOK'
<1>1. ASSUME NEW now, NEW me PROVE Fresh(now, me)' = Fresh(now, me)
  BY DEF Fresh
<1> QED BY <1>1, SharesNext, NearNext, OrderedNext, WayNext DEF VersionsOK

\* for the other parts of the invariant,
LEMMA OthersNext ==
  ASSUME cfg' = cfg
  PROVE  /\ (\A e \in Envs : EnvIs(e, Now', env'[e]) /\ PrefetchIs(runner', env'[e], prefetched'[e])) => EnvOK'
         /\ (\A r \in Rollouts : RolloutIs(r, Now', rollout'[r])) => RolloutOK'
         /\ (\A k \in Kinds, e \in Envs, r \in Rollouts :
               ~Near(e, r) => obs'[k][<<e, r>>] = <<>> /\ res'[k][<<r, e>>] = <<>>) => Apart'
         /\ (\A e \in Envs : \A l \in DOMAIN results'[e] :
               RowsOK(results'[e][l].rows, results'[e][l].kind, results'[e][l].stage, results'[e][l].n, e)) => ResultsOK'
<1>1. (\A e \in Envs : EnvIs(e, Now', env'[e]) /\ PrefetchIs(runner', env'[e], prefetched'[e])) => EnvOK'
  BY DEF EnvOK, EnvIs, PrefetchIs, Busy, Positions, Envs, EnvSrcs
<1>2. (\A r \in Rollouts : RolloutIs(r, Now', rollout'[r])) => RolloutOK'
  BY DEF RolloutOK, RolloutIs, RolloutPositions, Positions, Rollouts, RolloutSrcs
<1>3. (\A k \in Kinds, e \in Envs, r \in Rollouts :
               ~Near(e, r) => obs'[k][<<e, r>>] = <<>> /\ res'[k][<<r, e>>] = <<>>) => Apart'
  BY DEF Apart, Near, PE, PR, Envs, Rollouts
<1>4. (\A e \in Envs : \A l \in DOMAIN results'[e] :
               RowsOK(results'[e][l].rows, results'[e][l].kind, results'[e][l].stage, results'[e][l].n, e)) => ResultsOK'
  BY DEF ResultsOK, RowsOK, PE, Envs
<1> QED BY <1>1, <1>2, <1>3, <1>4

\* and for the types.
LEMMA TypeNext ==
  ASSUME cfg' = cfg, cfg \in Configs,
         runner'.pc \in (IF cfg.async THEN {"run", "stopping", "done"} ELSE {"start", "rollouts", "train", "eval", "done"}),
         runner' \in RunnerSet,
         env' \in [Envs -> EnvSet], rollout' \in [Rollouts -> RolloutSet],
         version' \in [Rollouts -> Nat], prefetched' \in [Envs -> BOOLEAN],
         results' \in [Envs -> Seq(ResultSet)],
         obs' \in ObsType, res' \in ResType
  PROVE  TypeOK'
BY DEF TypeOK, Envs, Rollouts, ObsType, ResType

-----------------------------------------------------------------------------
(* A pair of workers *)

\* Nothing is on its way, and nothing is owed.
LEMMA PairEmpty ==
  ASSUME cfg \in Configs, NEW k \in Kinds, NEW e, NEW r, NEW now, NEW x \in Nat, NEW ro, k = now => IsAt(k, ro, x)
  PROVE  PairIs(k, e, r, now, x, x, ro, <<>>, <<>>)
<1>1. Linked(k, e, r, x, x, <<>>, <<>>) BY DEF Linked
<1>2. x + Len(<<>>) = x OBVIOUS
<1> QED BY <1>1, <1>2 DEF PairIs

\* The receiver of answers takes the next.
Dropped(k, e, r, x, s, ro, h, t, gs) ==
  /\ h = Answer(k, x, e, r, h[1].version)
  /\ PairIs(k, e, r, k, x + 1, s, ro, t, gs)
  /\ s = x + 1 => t = <<>> /\ gs = <<>>

\* Taking the next answer leaves the pair in order.
LEMMA PairDrops ==
  ASSUME cfg \in Configs, NEW k \in Kinds, NEW e, NEW r, NEW x \in Nat, NEW s \in Nat, NEW ro,
         NEW h, NEW t \in Seq(Seq(LabelledSet)), NEW cs, cs = <<h>> \o t,
         NEW gs, PairIs(k, e, r, k, x, s, ro, cs, gs)
  PROVE  Dropped(k, e, r, x, s, ro, h, t, gs)
<1> DEFINE A(y, v) == Answer(k, y, e, r, v)
           P(y) == Piece(k, y, e, r)
           T == Seq(LabelledSet)
           C == Seq(CellSet)
<1>1. /\ cs \in Seq(T) /\ gs \in Seq(C)
      /\ x + Len(cs) + Len(gs) = s
      /\ \A j \in 1..Len(cs) : cs[j] = A(x + j - 1, cs[j][1].version)
      /\ \A j \in 1..Len(gs) : gs[j] = P(x + Len(cs) + j - 1)
      /\ IsAt(k, ro, x + Len(cs))
  BY DEF PairIs, Linked
<1>2. t \in Seq(T) OBVIOUS
<1> HIDE DEF A, P, T, C
<1>3. Len(cs) = Len(t) + 1 /\ cs[1] = h /\ \A j \in 1..Len(t) : cs[j + 1] = t[j] BY <1>1, <1>2
<1>4. h = A(x, h[1].version) BY <1>1, <1>3
<1>5. \A j \in 1..Len(t) : t[j] = A((x + 1) + j - 1, t[j][1].version)
  <2> TAKE j \in 1..Len(t)
  <2>1. j \in Nat /\ j + 1 \in 1..Len(cs) /\ (x + 1) + j - 1 = x + (j + 1) - 1 BY <1>2, <1>3
  <2> QED BY <2>1, <1>1, <1>3
<1>6. \A j \in 1..Len(gs) : gs[j] = P((x + 1) + Len(t) + j - 1)
  <2> TAKE j \in 1..Len(gs)
  <2>1. j \in Nat /\ (x + 1) + Len(t) + j - 1 = x + Len(cs) + j - 1 BY <1>1, <1>2, <1>3
  <2> QED BY <2>1, <1>1
<1>7. (x + 1) + Len(t) + Len(gs) = s /\ (x + 1) + Len(t) = x + Len(cs) BY <1>1, <1>2, <1>3
<1>8. Linked(k, e, r, x + 1, s, t, gs) BY <1>1, <1>2, <1>5, <1>6, <1>7 DEF Linked, A, P, T, C
<1>9. IsAt(k, ro, (x + 1) + Len(t)) BY <1>1, <1>7
<1>10. s = x + 1 => t = <<>> /\ gs = <<>>
  BY <1>1, <1>2, <1>7
<1> QED BY <1>4, <1>8, <1>9, <1>10 DEF PairIs, A, Dropped

\* g2 is gs and the next m observations, from batch y on.
Grown(g2, gs, m, k, y, e, r) ==
  /\ g2 \in Seq(Seq(CellSet)) /\ Len(g2) = Len(gs) + m
  /\ \A j \in 1..Len(gs) : g2[j] = gs[j]
  /\ \A j \in 1..m : g2[Len(gs) + j] = Piece(k, y + j - 1, e, r)

\* The env worker sends m observations.
LEMMA PairGrows ==
  ASSUME cfg \in Configs, NEW k \in Kinds, NEW e, NEW r, NEW now, NEW x \in Nat, NEW s \in Nat, NEW ro,
         NEW cs, NEW gs, PairIs(k, e, r, now, x, s, ro, cs, gs),
         NEW m \in Nat, NEW g2, Grown(g2, gs, m, k, s, e, r)
  PROVE  PairIs(k, e, r, now, x, s + m, ro, cs, g2)
<1> DEFINE P(y) == Piece(k, y, e, r)
           C == Seq(CellSet)
           T == Seq(LabelledSet)
<1>1. /\ cs \in Seq(T) /\ gs \in Seq(C)
      /\ x + Len(cs) + Len(gs) = s
      /\ \A j \in 1..Len(gs) : gs[j] = P(x + Len(cs) + j - 1)
  BY DEF PairIs, Linked
<1>2. \A j \in 1..m : g2[Len(gs) + j] = P(s + j - 1) BY DEF Grown
<1>3. g2 \in Seq(C) /\ Len(g2) = Len(gs) + m /\ \A j \in 1..Len(gs) : g2[j] = gs[j] BY DEF Grown
<1> HIDE DEF P, C, T
<1>n. Len(cs) \in Nat /\ Len(gs) \in Nat /\ Len(g2) \in Nat BY <1>1, <1>3
<1>4. x + Len(cs) + Len(g2) = s + m BY <1>1, <1>3, <1>n
<1>5. \A j \in 1..Len(g2) : g2[j] = P(x + Len(cs) + j - 1)
  <2> TAKE j \in 1..Len(g2)
  <2>1. CASE j <= Len(gs)
    <3>1. j \in 1..Len(gs) BY <2>1, <1>n
    <3> QED BY <3>1, <1>1, <1>3
  <2>2. CASE j > Len(gs)
    <3>1. PICK i \in 1..m : j = Len(gs) + i
      <4>1. j - Len(gs) \in 1..m BY <2>2, <1>n, <1>3
      <4> QED BY <4>1, <1>n
    <3>s. i \in Int /\ s = x + Len(cs) + Len(gs) BY <1>1
    <3>2. s + i - 1 = x + Len(cs) + j - 1 BY <3>s, <3>1, <1>n
    <3>3. g2[Len(gs) + i] = P(s + i - 1) BY <1>2
    <3> QED BY <3>1, <3>2, <3>3
  <2> QED BY <2>1, <2>2, <1>n
<1>6. Linked(k, e, r, x, s + m, cs, g2)
  BY <1>1, <1>3, <1>4, <1>5 DEF Linked, PairIs, P, C, T
<1> QED BY <1>6 DEF PairIs

\* The rollout worker answers the first observation.
AnswersFirst(k, e, r, x, s, ro, cs, h, t) ==
  /\ ro.i = x + Len(cs) /\ h = Piece(k, ro.i, e, r)
  /\ \A v \in Int : \A r2 : IsAt(k, r2, ro.i + 1) =>
       PairIs(k, e, r, k, x, s, r2, Append(cs, Answer(k, ro.i, e, r, v)), t)

\* Answering the next observation leaves the pair in order.
LEMMA PairAnswers ==
  ASSUME cfg \in Configs, NEW k \in Kinds, NEW e \in Envs, NEW r \in Rollouts, Near(e, r),
         NEW x \in Nat, NEW s \in Nat, NEW ro, s <= RolloutPositions(k), ro.pc = "recv",
         NEW h, NEW t \in Seq(Seq(CellSet)), NEW cs, NEW gs, gs = <<h>> \o t,
         PairIs(k, e, r, k, x, s, ro, cs, gs)
  PROVE  AnswersFirst(k, e, r, x, s, ro, cs, h, t)
<1> DEFINE A(y, v) == Answer(k, y, e, r, v)
           P(y) == Piece(k, y, e, r)
           T == Seq(LabelledSet)
           C == Seq(CellSet)
           n == ro.i
<1>1. /\ cs \in Seq(T) /\ gs \in Seq(C)
      /\ x + Len(cs) + Len(gs) = s
      /\ \A j \in 1..Len(cs) : cs[j] = A(x + j - 1, cs[j][1].version)
      /\ \A j \in 1..Len(gs) : gs[j] = P(x + Len(cs) + j - 1)
      /\ IsAt(k, ro, x + Len(cs))
  BY DEF PairIs, Linked
<1>2. t \in Seq(C) OBVIOUS
<1>0. RolloutPositions(k) \in Nat BY PositionsType
<1>a. \A v \in Int : A(n, v) \in T /\ A(n, v)[1].version = v
  <2> TAKE v \in Int
  <2>1. Common(PE, e, PR, r) \in Nat /\ Common(PE, e, PR, r) > 0
    <3>1. PE \in Nat \ {0} /\ PR \in Nat \ {0} /\ e \in Nat /\ r \in Nat
      BY ShareType DEF Envs, Rollouts
    <3>2. Common(PE, e, PR, r) \in Int BY Meeting, <3>1
    <3> QED BY <3>2 DEF Near
  <2>2. n \in Nat
    BY <1>1, <1>0 DEF IsAt
  <2>3. P(n) \in Seq(CellSet) BY PieceType, <2>2
  <2>4. Len(P(n)) = Common(PE, e, PR, r) BY <2>1 DEF Piece, Part
  <2> DEFINE p == P(n)
  <2>5. p \in Seq(CellSet) /\ Len(p) \in Nat \ {0} BY <2>1, <2>3, <2>4
  <2> HIDE DEF p
  <2>6. Labelled(p, v) \in Seq(LabelledSet) /\ Labelled(p, v)[1] = [cell |-> p[1], version |-> v]
    BY LabelledType, <2>5
  <2> QED BY <2>6 DEF p, Answer
<1> HIDE DEF A, P, T, C, n
<1>3. Len(gs) = Len(t) + 1 /\ gs[1] = h /\ \A j \in 1..Len(t) : gs[j + 1] = t[j] BY <1>1, <1>2, SMTT(30)
<1>4. x + Len(cs) < RolloutPositions(k) BY <1>0, <1>1, <1>2, <1>3
<1>5. n = x + Len(cs) BY <1>1, <1>4, <1>0 DEF IsAt, n
<1>6. h = P(n) BY <1>1, <1>3, <1>5
<1>7. ASSUME NEW v \in Int, NEW r2, IsAt(k, r2, n + 1)
      PROVE  PairIs(k, e, r, k, x, s, r2, Append(cs, A(n, v)), t)
  <2> DEFINE c2 == Append(cs, A(n, v))
  <2>1. c2 \in Seq(T) /\ Len(c2) = Len(cs) + 1 /\ c2[Len(cs) + 1] = A(n, v) /\ \A j \in 1..Len(cs) : c2[j] = cs[j]
    BY <1>1, <1>a
  <2> HIDE DEF c2
  <2>2. A(n, v)[1].version = v BY <1>a
  <2>3. \A j \in 1..Len(c2) : c2[j] = A(x + j - 1, c2[j][1].version)
    <3> TAKE j \in 1..Len(c2)
    <3>1. CASE j <= Len(cs)
      <4>1. j \in 1..Len(cs) /\ c2[j] = cs[j] BY <3>1, <2>1, <1>1
      <4>2. cs[j] = A(x + j - 1, cs[j][1].version) BY <4>1, <1>1
      <4> QED BY <4>1, <4>2
    <3>2. CASE j = Len(cs) + 1
      <4>1. x + j - 1 = n BY <3>2, <1>5, <1>1
      <4> QED BY <3>2, <4>1, <2>1, <2>2
    <3> QED BY <3>1, <3>2, <2>1, <1>1
  <2>4. \A j \in 1..Len(t) : t[j] = P(x + Len(c2) + j - 1)
    <3> TAKE j \in 1..Len(t)
    <3>1. j \in Nat /\ j + 1 \in 1..Len(gs) /\ x + Len(c2) + j - 1 = x + Len(cs) + (j + 1) - 1 BY <1>1, <1>2, <1>3, <2>1
    <3> QED BY <3>1, <1>1, <1>3
  <2>5. x + Len(c2) + Len(t) = s /\ x + Len(c2) = n + 1 BY <1>1, <1>2, <1>3, <1>5, <2>1
  <2>6. Linked(k, e, r, x, s, c2, t) BY <1>2, <2>1, <2>3, <2>4, <2>5 DEF Linked, A, P, T, C
  <2> QED BY <2>5, <2>6, <1>7 DEF PairIs, c2
<1> QED BY <1>5, <1>6, <1>7 DEF n, A, P, AnswersFirst

-----------------------------------------------------------------------------
(* What a receiver takes *)

\* The type of the part already taken.
LEMMA PartType ==
  ASSUME NEW S, NEW k, NEW now, NEW got \in Seq(S), NEW i \in Nat \ {0}
  PROVE  TakenPart(k, now, got, i) \in Seq(S)
<1>1. CASE i <= Len(got)
  <2>1. got[i] \in S BY <1>1
  <2> QED BY <2>1 DEF TakenPart
<1>2. CASE ~(i <= Len(got)) BY <1>2 DEF TakenPart
<1> QED BY <1>1, <1>2

\* A queue that grows makes the way grow.
LEMMA GoingGrown ==
  ASSUME NEW p \in Seq(Seq(CellSet)), NEW q \in Seq(Seq(CellSet)), NEW m \in Nat, NEW k, NEW y, NEW e, NEW r,
         NEW q2, Grown(q2, q, m, k, y, e, r)
  PROVE  Grown(p \o q2, p \o q, m, k, y, e, r)
<1> DEFINE P(z) == Piece(k, z, e, r)
           C == Seq(CellSet)
           a == p \o q
           b == p \o q2
<1>1. /\ q2 \in Seq(C) /\ Len(q2) = Len(q) + m
      /\ \A j \in 1..Len(q) : q2[j] = q[j]
      /\ \A j \in 1..m : q2[Len(q) + j] = P(y + j - 1)
  BY DEF Grown
<1>2. p \in Seq(C) /\ q \in Seq(C) OBVIOUS
<1> HIDE DEF P, C
<1>3. /\ a \in Seq(C) /\ b \in Seq(C)
      /\ Len(a) = Len(p) + Len(q) /\ Len(b) = Len(p) + Len(q2)
      /\ Len(p) \in Nat /\ Len(q) \in Nat /\ Len(q2) \in Nat
      /\ \A j \in 1..Len(p) : a[j] = p[j] /\ b[j] = p[j]
      /\ \A j \in 1..Len(q) : a[Len(p) + j] = q[j]
      /\ \A j \in 1..Len(q2) : b[Len(p) + j] = q2[j]
  <2>1. q2 \in Seq(C) BY <1>1
  <2> HIDE DEF a, b
  <2>2. /\ a \in Seq(C) /\ Len(a) = Len(p) + Len(q)
        /\ Len(p) \in Nat /\ Len(q) \in Nat
        /\ \A j \in 1..Len(p) : a[j] = p[j]
        /\ \A j \in 1..Len(q) : a[Len(p) + j] = q[j]
    BY ConcatIs, <1>2 DEF a
  <2>3. /\ b \in Seq(C) /\ Len(b) = Len(p) + Len(q2) /\ Len(q2) \in Nat
        /\ \A j \in 1..Len(p) : b[j] = p[j]
        /\ \A j \in 1..Len(q2) : b[Len(p) + j] = q2[j]
    BY ConcatIs, <1>2, <2>1 DEF b
  <2> QED BY <2>2, <2>3
<1> HIDE DEF a, b
<1>4. Len(b) = Len(a) + m BY <1>1, <1>3
<1>5. \A j \in 1..Len(a) : b[j] = a[j]
  <2> TAKE j \in 1..Len(a)
  <2>1. CASE j <= Len(p) BY <2>1, <1>3
  <2>2. CASE j > Len(p)
    <3>1. PICK i \in 1..Len(q) : j = Len(p) + i
      <4>1. j - Len(p) \in 1..Len(q) BY <2>2, <1>3
      <4> QED BY <4>1, <1>3
    <3>2. i \in 1..Len(q2) BY <1>1, <1>3
    <3> QED BY <3>1, <3>2, <1>1, <1>3
  <2> QED BY <2>1, <2>2, <1>3
<1>6. \A j \in 1..m : b[Len(a) + j] = P(y + j - 1)
  <2> TAKE j \in 1..m
  <2>1. Len(q) + j \in 1..Len(q2) /\ Len(a) + j = Len(p) + (Len(q) + j) BY <1>1, <1>3
  <2>2. b[Len(p) + (Len(q) + j)] = q2[Len(q) + j] BY <2>1, <1>3
  <2> QED BY <2>1, <2>2, <1>1
<1> QED BY <1>3, <1>4, <1>5, <1>6 DEF Grown, P, C, a, b

\* The part of the next source is taken: what is on the way stays the same.
Keeps(k, got, s, i) ==
  /\ i = Len(got) + 1 => TakenPart(k, k, Append(got, Head(s)), i) \o Tail(s) = TakenPart(k, k, got, i) \o s
  /\ i # Len(got) + 1 => TakenPart(k, k, Append(got, Head(s)), i) = TakenPart(k, k, got, i)

\* Moving the head of a queue behind what was received.
LEMMA SeqAppend ==
  ASSUME NEW S, NEW got \in Seq(S), NEW s \in Seq(S), s # <<>>
  PROVE  /\ Append(got, Head(s)) \in Seq(S) /\ Len(Append(got, Head(s))) = Len(got) + 1
         /\ Tail(s) \in Seq(S) /\ Head(s) \in S
OBVIOUS

\* A part taken from a queue is still on the way until the batch is complete,
LEMMA Taking ==
  ASSUME NEW S, NEW k, NEW got \in Seq(S), NEW s \in Seq(S), s # <<>>, NEW i \in Nat \ {0}
  PROVE  Keeps(k, got, s, i)
<1>1. /\ Append(got, Head(s)) \in Seq(S) /\ Len(Append(got, Head(s))) = Len(got) + 1
      /\ Append(got, Head(s))[Len(got) + 1] = Head(s) /\ \A j \in 1..Len(got) : Append(got, Head(s))[j] = got[j]
      /\ Tail(s) \in Seq(S) /\ Head(s) \in S /\ Len(got) \in Nat
  OBVIOUS
<1>2. <<Head(s)>> \o Tail(s) = s /\ <<>> \o s = s OBVIOUS
<1> DEFINE g2 == Append(got, Head(s))
<1>3. g2[Len(got) + 1] = Head(s) /\ (\A j \in 1..Len(got) : g2[j] = got[j]) /\ Len(g2) = Len(got) + 1 /\ Len(got) \in Nat BY <1>1
<1> HIDE DEF g2
<1>4. CASE i = Len(got) + 1
  <2>1. TakenPart(k, k, g2, i) = <<Head(s)>> /\ TakenPart(k, k, got, i) = <<>> BY <1>3, <1>4 DEF TakenPart
  <2> QED BY <2>1, <1>1, <1>2, <1>4 DEF g2, Keeps
<1>5. CASE i # Len(got) + 1
  <2>1. TakenPart(k, k, g2, i) = TakenPart(k, k, got, i) BY <1>3, <1>5 DEF TakenPart
  <2> QED BY <2>1, <1>1, <1>5 DEF g2, Keeps
<1> QED BY <1>4, <1>5

\* With the last part, every source's is the first of what was on the way.
FirstOf(k, got, s, i, t) ==
  /\ i = Len(got) + 1 => TakenPart(k, k, got, i) \o s = <<Append(got, Head(s))[i]>> \o Tail(s)
  /\ i # Len(got) + 1 => TakenPart(k, k, got, i) \o t = <<Append(got, Head(s))[i]>> \o t

\* and is the first on it.
LEMMA Taken ==
  ASSUME NEW S, NEW k, NEW got \in Seq(S), NEW s \in Seq(S), s # <<>>, NEW i \in 1..Len(got) + 1, NEW t \in Seq(S)
  PROVE  FirstOf(k, got, s, i, t) /\ Append(got, Head(s))[i] \in S
<1>1. /\ Append(got, Head(s)) \in Seq(S) /\ Len(Append(got, Head(s))) = Len(got) + 1
      /\ Append(got, Head(s))[Len(got) + 1] = Head(s) /\ \A j \in 1..Len(got) : Append(got, Head(s))[j] = got[j]
      /\ Tail(s) \in Seq(S) /\ Head(s) \in S /\ Len(got) \in Nat
  OBVIOUS
<1>2. <<Head(s)>> \o Tail(s) = s /\ <<>> \o s = s OBVIOUS
<1> DEFINE g2 == Append(got, Head(s))
<1>3. g2[Len(got) + 1] = Head(s) /\ (\A j \in 1..Len(got) : g2[j] = got[j]) /\ Len(g2) = Len(got) + 1 /\ Len(got) \in Nat
      /\ g2 \in Seq(S) BY <1>1
<1> HIDE DEF g2
<1>6. g2[i] \in S BY <1>3
<1>4. CASE i = Len(got) + 1
  <2>1. TakenPart(k, k, got, i) = <<>> /\ g2[i] = Head(s) BY <1>3, <1>4 DEF TakenPart
  <2> QED BY <2>1, <1>6, <1>2, <1>4 DEF g2, FirstOf
<1>5. CASE i # Len(got) + 1
  <2>1. TakenPart(k, k, got, i) = <<got[i]>> /\ g2[i] = got[i] BY <1>3, <1>5 DEF TakenPart
  <2> QED BY <2>1, <1>6, <1>5 DEF g2, FirstOf
<1> QED BY <1>4, <1>5

\* With nothing received, the way is the queue.
LEMMA NoneTaken ==
  ASSUME NEW S, NEW k, NEW now, NEW i \in Nat \ {0}, NEW s \in Seq(S)
  PROVE  TakenPart(k, now, <<>>, i) \o s = s
BY DEF TakenPart

-----------------------------------------------------------------------------
(* Steps of one worker *)

\* The labels of the results of one env worker.
InOrder(rs) ==
  \A l, m \in DOMAIN rs : \A y \in 1..PE :
    l < m => Older(rs[l].rows[y].version, rs[m].rows[y].version)

AllInOrder == \A e \in Envs : InOrder(results[e])

\* The property, said of the results of each worker.
LEMMA PolicyIs == PolicyInOrder <=> AllInOrder
<1>1. \A e : DOMAIN Cells(e) = 1..PE BY DEF Cells, PE
<1>2. ASSUME PolicyInOrder, NEW e \in Envs, NEW l \in DOMAIN results[e], NEW m \in DOMAIN results[e],
             NEW y \in 1..PE, l < m
      PROVE  Older(results[e][l].rows[y].version, results[e][m].rows[y].version)
  BY <1>1, <1>2 DEF PolicyInOrder, Older
<1>3. ASSUME AllInOrder, NEW e \in Envs, NEW k \in DOMAIN results[e], NEW l \in DOMAIN results[e],
             NEW y \in DOMAIN Cells(e)
      PROVE  LET a == results[e][k].rows[y].version
                 b == results[e][l].rows[y].version
             IN k < l /\ a >= 0 /\ b >= 0 => IF cfg.async THEN a <= b ELSE a = b
  <2>1. k < l => Older(results[e][k].rows[y].version, results[e][l].rows[y].version)
    BY <1>1, <1>3 DEF AllInOrder, InOrder
  <2> QED BY <2>1 DEF Older
<1>4. PolicyInOrder => AllInOrder BY <1>2 DEF AllInOrder, InOrder
<1>5. AllInOrder => PolicyInOrder BY <1>3 DEF PolicyInOrder
<1> QED BY <1>4, <1>5

\* The kind of the call changes only with the runner.
LEMMA NowNext == cfg' = cfg /\ runner' = runner => Now' = Now
BY DEF Now

\* A step of env worker e changes its own queues only.
OnlyEnv(e) ==
  /\ cfg' = cfg /\ runner' = runner /\ rollout' = rollout /\ version' = version
  /\ obs' \in ObsType /\ res' \in ResType
  /\ \A k \in Kinds, ee \in Envs, r \in Rollouts : ee # e \/ ~Near(ee, r) =>
       obs'[k][<<ee, r>>] = obs[k][<<ee, r>>] /\ res'[k][<<r, ee>>] = res[k][<<r, ee>>]
  /\ results' \in [Envs -> Seq(ResultSet)]
  /\ \A ee \in Envs : ee # e => results'[ee] = results[ee]

AllRowsOK(rs, e) == \A l \in DOMAIN rs : RowsOK(rs[l].rows, rs[l].kind, rs[l].stage, rs[l].n, e)

\* It goes on as me, with pre instead of what was prefetched.
EnvMoves(e, me, pre) ==
  /\ me \in EnvSet /\ pre \in BOOLEAN
  /\ env' = [env EXCEPT ![e] = me] /\ prefetched' = [prefetched EXCEPT ![e] = pre]
  /\ EnvIs(e, Now, me) /\ PrefetchIs(runner, me, pre)

PairsNext(e, me, pre) ==
  \A k \in Kinds, r \in Rollouts : Near(e, r) =>
    PairOK(k, e, r, Now, me, pre, rollout[r], obs'[k][<<e, r>>], res'[k][<<r, e>>])

ComesInOrder(e, me) ==
  \A r \in Rollouts : Near(e, r) =>
    Ordered(e, r, Fresh(Now, me), results'[e], Coming(Now, e, r, Now, me, res'[Now][<<r, e>>]), version[r])

\* A step of one env worker keeps the invariant if its own parts are kept.
LEMMA EnvStepInv ==
  ASSUME Inv, NEW e \in Envs, OnlyEnv(e), NEW me, NEW pre, EnvMoves(e, me, pre), PairsNext(e, me, pre),
         AllRowsOK(results'[e], e)
  PROVE  Inv'
<1>0. /\ me \in EnvSet /\ pre \in BOOLEAN
      /\ env' = [env EXCEPT ![e] = me] /\ prefetched' = [prefetched EXCEPT ![e] = pre]
      /\ EnvIs(e, Now, me) /\ PrefetchIs(runner, me, pre)
  BY DEF EnvMoves
<1>1. TypeOK /\ EnvOK /\ RolloutOK /\ Paired /\ Apart /\ ResultsOK BY DEF Inv
<1>2. cfg' = cfg /\ Now' = Now /\ runner' = runner /\ rollout' = rollout /\ version' = version BY NowNext DEF OnlyEnv
<1>3. env \in [Envs -> EnvSet] /\ prefetched \in [Envs -> BOOLEAN] BY <1>1 DEF TypeOK
<1>4. /\ env'[e] = me /\ prefetched'[e] = pre
      /\ \A ee \in Envs : ee # e => env'[ee] = env[ee] /\ prefetched'[ee] = prefetched[ee]
      /\ env' \in [Envs -> EnvSet] /\ prefetched' \in [Envs -> BOOLEAN]
  BY <1>0, <1>3
<1>5. TypeOK'
  <2>1. /\ cfg \in Configs
        /\ runner.pc \in (IF cfg.async THEN {"run", "stopping", "done"} ELSE {"start", "rollouts", "train", "eval", "done"})
        /\ runner \in RunnerSet
        /\ rollout \in [Rollouts -> RolloutSet] /\ version \in [Rollouts -> Nat]
    BY <1>1 DEF TypeOK
  <2>2. /\ cfg \in Configs
        /\ runner'.pc \in (IF cfg.async THEN {"run", "stopping", "done"} ELSE {"start", "rollouts", "train", "eval", "done"})
        /\ runner' \in RunnerSet
        /\ rollout' \in [Rollouts -> RolloutSet] /\ version' \in [Rollouts -> Nat]
    BY <1>2, <2>1
  <2>3. results' \in [Envs -> Seq(ResultSet)] /\ obs' \in ObsType /\ res' \in ResType BY DEF OnlyEnv
  <2> QED BY <1>2, <1>4, <2>2, <2>3, TypeNext
<1>6. EnvOK'
  <2>1. \A ee \in Envs : EnvIs(ee, Now', env'[ee]) /\ PrefetchIs(runner', env'[ee], prefetched'[ee])
    BY <1>0, <1>1, <1>2, <1>4 DEF EnvOK
  <2> QED BY <1>2, <2>1, OthersNext
<1>7. RolloutOK'
  <2>1. \A r \in Rollouts : RolloutIs(r, Now', rollout'[r]) BY <1>1, <1>2 DEF RolloutOK
  <2> QED BY <1>2, <2>1, OthersNext
<1>8. Paired'
  <2>1. ASSUME NEW k \in Kinds, NEW ee \in Envs, NEW r \in Rollouts, Near(ee, r)
        PROVE  PairOK(k, ee, r, Now', env'[ee], prefetched'[ee], rollout'[r], obs'[k][<<ee, r>>], res'[k][<<r, ee>>])
    <3>1. CASE ee = e BY <2>1, <3>1, <1>2, <1>4 DEF PairsNext
    <3>2. CASE ee # e
      <4>1. obs'[k][<<ee, r>>] = obs[k][<<ee, r>>] /\ res'[k][<<r, ee>>] = res[k][<<r, ee>>] BY <3>2 DEF OnlyEnv
      <4>2. PairOK(k, ee, r, Now, env[ee], prefetched[ee], rollout[r], obs[k][<<ee, r>>], res[k][<<r, ee>>])
        BY <1>1, <2>1 DEF Paired
      <4> QED BY <4>1, <4>2, <1>2, <1>4, <3>2
    <3> QED BY <3>1, <3>2
  <2> QED BY <1>2, <2>1, PairedNext
<1>9. Apart'
  <2>1. \A k \in Kinds, ee \in Envs, r \in Rollouts :
          ~Near(ee, r) => obs'[k][<<ee, r>>] = <<>> /\ res'[k][<<r, ee>>] = <<>>
    BY <1>1 DEF Apart, OnlyEnv
  <2> QED BY <1>2, <2>1, OthersNext
<1>10. ResultsOK'
  <2>1. \A ee \in Envs : AllRowsOK(results'[ee], ee)
    <3> TAKE ee \in Envs
    <3>1. AllRowsOK(results[ee], ee) BY <1>1 DEF ResultsOK, AllRowsOK
    <3>2. ee # e => results'[ee] = results[ee] BY DEF OnlyEnv
    <3> QED BY <3>1, <3>2
  <2> QED BY <1>2, <2>1, OthersNext DEF AllRowsOK
<1> QED BY <1>5, <1>6, <1>7, <1>8, <1>9, <1>10 DEF Inv

\* The same of the next state.
LEMMA PolicyNextIs == PolicyInOrder' <=> AllInOrder'
BY PolicyIs, PTL

\* It is enough to look at each worker's results.
LEMMA PolicyNext ==
  ASSUME cfg' = cfg, \A e \in Envs : InOrder(results'[e])
  PROVE  PolicyInOrder'
<1>1. Envs' = Envs /\ PE' = PE BY SharesNext
<1>2. \A a, b : Older(a, b)' <=> Older(a, b) BY DEF Older
<1>3. AllInOrder' BY <1>1, <1>2 DEF AllInOrder, InOrder
<1> QED BY <1>3, PolicyNextIs

\* A step of one env worker keeps the order of versions if its own results are in order.
LEMMA EnvStepVInv ==
  ASSUME Inv, VInv, NEW e \in Envs, OnlyEnv(e), NEW me, NEW pre, EnvMoves(e, me, pre),
         InOrder(results'[e]), Now # "none" => ComesInOrder(e, me)
  PROVE  VInv'
<1>1. TypeOK /\ cfg \in Configs /\ env \in [Envs -> EnvSet] BY DEF Inv, TypeOK
<1>2. cfg' = cfg /\ Now' = Now /\ version' = version BY NowNext DEF OnlyEnv
<1>3. env'[e] = me /\ \A ee \in Envs : ee # e => env'[ee] = env[ee] BY <1>1 DEF EnvMoves
<1>4. \A ee \in Envs : InOrder(results'[ee])
  BY PolicyIs DEF VInv, OnlyEnv, AllInOrder
<1>5. ASSUME NEW ee \in Envs, NEW r \in Rollouts, Near(ee, r), Now' # "none"
      PROVE  Ordered(ee, r, Fresh(Now', env'[ee]), results'[ee],
                     Coming(Now', ee, r, Now', env'[ee], res'[Now'][<<r, ee>>]), version'[r])
  <2>1. CASE ee = e BY <2>1, <1>2, <1>3, <1>5 DEF ComesInOrder
  <2>2. CASE ee # e
    <3>1. Now \in Kinds BY <1>2, <1>5 DEF Now, Kinds
    <3>2. results'[ee] = results[ee] /\ res'[Now][<<r, ee>>] = res[Now][<<r, ee>>] BY <2>2, <3>1 DEF OnlyEnv
    <3>3. Ordered(ee, r, Fresh(Now, env[ee]), results[ee], Coming(Now, ee, r, Now, env[ee], res[Now][<<r, ee>>]), version[r])
      BY <1>2, <1>5 DEF VInv, VersionsOK
    <3> QED BY <2>2, <3>2, <3>3, <1>2, <1>3
  <2> QED BY <2>1, <2>2
<1>6. VersionsOK' BY <1>2, <1>5, VersionsNext
<1>7. PolicyInOrder' BY <1>2, <1>4, PolicyNext
<1> QED BY <1>6, <1>7 DEF VInv

-----------------------------------------------------------------------------
(* Pairs of a kind that is not being called, or is *)

\* A pair of a kind that is not called does not change with its workers.
LEMMA Unaffected ==
  ASSUME NEW k, NEW e, NEW r, NEW now, NEW now2, k # now, k # now2, NEW me, NEW me2,
         NEW pre, NEW pre2, k = "train" => pre = pre2, NEW ro, NEW ro2, NEW q, NEW s,
         PairOK(k, e, r, now, me, pre, ro, q, s)
  PROVE  PairOK(k, e, r, now2, me2, pre2, ro2, q, s)
<1>1. Pos(k, now, me) = Pos(k, now2, me2) BY DEF Pos
<1>2. Sent(k, now, me, pre) = Sent(k, now2, me2, pre2) BY DEF Sent
<1>3. Coming(k, e, r, now, me, s) = Coming(k, e, r, now2, me2, s) BY DEF Coming, TakenPart
<1>4. Going(k, e, r, now, ro, q) = Going(k, e, r, now2, ro2, q) BY DEF Going, TakenPart
<1> QED BY <1>1, <1>2, <1>3, <1>4 DEF PairOK, PairIs

\* A pair of the kind that is called.
LEMMA Affected ==
  ASSUME NEW k, NEW e, NEW r, NEW now, k = now, NEW me, NEW pre, NEW ro, NEW q, NEW s
  PROVE  PairOK(k, e, r, now, me, pre, ro, q, s) <=>
           PairIs(k, e, r, now, PosOf(k, me), SentOf(k, me, pre), ro,
                  Coming(k, e, r, now, me, s), Going(k, e, r, now, ro, q))
BY DEF PairOK, Pos, Sent

\* The facts of the invariant about one pair.
LEMMA PairHas ==
  ASSUME Inv, NEW e \in Envs, NEW r \in Rollouts, Near(e, r), NEW k \in Kinds
  PROVE  /\ cfg \in Configs /\ env[e] \in EnvSet /\ rollout[r] \in RolloutSet /\ prefetched[e] \in BOOLEAN
         /\ obs[k][<<e, r>>] \in Seq(Seq(CellSet)) /\ res[k][<<r, e>>] \in Seq(Seq(LabelledSet))
         /\ Of(e, r) \in 1..Len(EnvSrcs(e)) /\ By(r, e) \in 1..Len(RolloutSrcs(r))
         /\ Of(e, r) \in Nat \ {0} /\ By(r, e) \in Nat \ {0}
         /\ PairOK(k, e, r, Now, env[e], prefetched[e], rollout[r], obs[k][<<e, r>>], res[k][<<r, e>>])
         /\ EnvIs(e, Now, env[e]) /\ PrefetchIs(runner, env[e], prefetched[e]) /\ RolloutIs(r, Now, rollout[r])
         /\ version[r] \in Nat
<1>1. /\ cfg \in Configs /\ env \in [Envs -> EnvSet] /\ rollout \in [Rollouts -> RolloutSet]
      /\ prefetched \in [Envs -> BOOLEAN] /\ obs \in ObsType /\ res \in ResType /\ version \in [Rollouts -> Nat]
  BY DEF Inv, TypeOK
<1>2. obs[k][<<e, r>>] \in Seq(Seq(CellSet)) /\ res[k][<<r, e>>] \in Seq(Seq(LabelledSet))
  BY <1>1, QueueTypes
<1>3. Of(e, r) \in 1..Len(EnvSrcs(e)) /\ Len(EnvSrcs(e)) \in Nat BY <1>1, EnvSources
<1>4. By(r, e) \in 1..Len(RolloutSrcs(r)) /\ Len(RolloutSrcs(r)) \in Nat BY <1>1, RolloutSources
<1>5. PairOK(k, e, r, Now, env[e], prefetched[e], rollout[r], obs[k][<<e, r>>], res[k][<<r, e>>]) BY DEF Inv, Paired
<1>6. EnvIs(e, Now, env[e]) /\ PrefetchIs(runner, env[e], prefetched[e]) BY DEF Inv, EnvOK
<1>7. RolloutIs(r, Now, rollout[r]) BY DEF Inv, RolloutOK
<1>8. Of(e, r) \in Nat \ {0} /\ By(r, e) \in Nat \ {0} BY <1>3, <1>4
<1> QED BY <1>1, <1>2, <1>3, <1>4, <1>5, <1>6, <1>7, <1>8

\* The facts of the invariant about one env worker.
LEMMA EnvHas ==
  ASSUME Inv, NEW e \in Envs
  PROVE  /\ cfg \in Configs /\ env[e] \in EnvSet /\ prefetched[e] \in BOOLEAN
         /\ EnvIs(e, Now, env[e]) /\ PrefetchIs(runner, env[e], prefetched[e])
         /\ obs \in ObsType /\ res \in ResType /\ results \in [Envs -> Seq(ResultSet)]
         /\ env \in [Envs -> EnvSet] /\ prefetched \in [Envs -> BOOLEAN]
         /\ AllRowsOK(results[e], e)
         /\ Len(EnvSrcs(e)) \in Nat \ {0}
<1>1. cfg \in Configs BY DEF Inv, TypeOK
<1>2. Len(EnvSrcs(e)) \in Nat \ {0} BY <1>1, EnvSources
<1>3. EnvIs(e, Now, env[e]) /\ PrefetchIs(runner, env[e], prefetched[e]) BY DEF Inv, EnvOK
<1>4. AllRowsOK(results[e], e) BY DEF Inv, ResultsOK, AllRowsOK
<1> QED BY <1>1, <1>2, <1>3, <1>4 DEF Inv, TypeOK

\* A busy env worker is in a call of the kind the runner is at.
LEMMA BusyNow ==
  ASSUME Inv, NEW e \in Envs, env[e].pc \in {"boot", "yield", "recv", "stopped"}
  PROVE  /\ Now \in Kinds /\ Now # "none" /\ Busy(Now, env[e]) /\ env[e].kind = Now
         /\ prefetched[e] /\ Now = "train" => env[e].pc = "boot" /\ env[e].epoch = 0
<1>1. EnvIs(e, Now, env[e]) /\ PrefetchIs(runner, env[e], prefetched[e]) /\ env[e] \in EnvSet BY EnvHas
<1>2. Now # "none" /\ Busy(Now, env[e])
  BY <1>1 DEF EnvIs
<1>3. Now \in {"train", "eval", "none"} BY DEF Now
<1>4. prefetched[e] /\ Now = "train" => runner.pc = "rollouts" BY <1>1 DEF PrefetchIs, Now
<1>5. prefetched[e] /\ Now = "train" => env[e].pc = "boot" /\ env[e].epoch = 0 BY <1>1, <1>4 DEF PrefetchIs
<1> QED BY <1>2, <1>3, <1>5 DEF Kinds, Busy

\* Nothing changes between the workers.
LEMMA QueuesKept ==
  ASSUME Inv, NEW e, cfg' = cfg, runner' = runner, rollout' = rollout, version' = version,
         obs' = obs, res' = res, results' = results
  PROVE  OnlyEnv(e)
BY DEF Inv, TypeOK, OnlyEnv

\* The pairs of e when its step leaves its position and the queues alone.
LEMMA PairsKept ==
  ASSUME Inv, NEW e \in Envs, obs' = obs, res' = res, NEW me, NEW pre, Now \in Kinds,
         Now # "train" => pre = prefetched[e],
         me.got = env[e].got, PosOf(Now, me) = PosOf(Now, env[e]),
         SentOf(Now, me, pre) = SentOf(Now, env[e], prefetched[e])
  PROVE  PairsNext(e, me, pre)
<1> SUFFICES ASSUME NEW k \in Kinds, NEW r \in Rollouts, Near(e, r)
             PROVE  PairOK(k, e, r, Now, me, pre, rollout[r], obs[k][<<e, r>>], res[k][<<r, e>>])
  BY DEF PairsNext
<1>1. PairOK(k, e, r, Now, env[e], prefetched[e], rollout[r], obs[k][<<e, r>>], res[k][<<r, e>>]) BY PairHas
<1>2. CASE k # Now BY <1>1, <1>2, Unaffected
<1>3. CASE k = Now
  <2>1. Coming(k, e, r, Now, me, res[k][<<r, e>>]) = Coming(k, e, r, Now, env[e], res[k][<<r, e>>])
    BY DEF Coming
  <2> QED BY <1>1, <1>3, <2>1, Affected
<1> QED BY <1>2, <1>3

-----------------------------------------------------------------------------
(* The steps of an env worker *)

\* A turn of the event loop, taken or cut short by a stop.
LEMMA TurnInv ==
  ASSUME Inv, NEW e \in Envs, NEW pc \in {"recv", "stopped"}, env[e].pc = "yield",
         env' = [env EXCEPT ![e].pc = pc],
         cfg' = cfg, runner' = runner, rollout' = rollout, version' = version, results' = results,
         prefetched' = prefetched, obs' = obs, res' = res
  PROVE  Inv' /\ (VInv => VInv')
<1> DEFINE me == [env[e] EXCEPT !.pc = pc]
<1>0. /\ cfg \in Configs /\ env[e] \in EnvSet /\ prefetched[e] \in BOOLEAN
      /\ EnvIs(e, Now, env[e]) /\ PrefetchIs(runner, env[e], prefetched[e])
      /\ env \in [Envs -> EnvSet] /\ prefetched \in [Envs -> BOOLEAN] /\ AllRowsOK(results[e], e)
  BY EnvHas
<1>1. Now \in Kinds /\ Now # "none" /\ Busy(Now, env[e])
      /\ (prefetched[e] /\ Now = "train" => env[e].pc = "boot" /\ env[e].epoch = 0) BY BusyNow
<1>2. me \in EnvSet /\ me.pc = pc /\ me.kind = env[e].kind /\ me.epoch = env[e].epoch /\ me.i = env[e].i
      /\ me.got = env[e].got BY <1>0 DEF EnvSet
<1>3. env' = [env EXCEPT ![e] = me] BY <1>0
<1>4. prefetched' = [prefetched EXCEPT ![e] = prefetched[e]] BY <1>0
<1> HIDE DEF me
<1>5. Busy(Now, me) BY <1>1, <1>2 DEF Busy
<1>6. EnvIs(e, Now, me)
  BY <1>0, <1>1, <1>2, <1>5 DEF EnvIs
<1>7. PrefetchIs(runner, me, prefetched[e])
  <2>1. runner.pc = "rollouts" => Now = "train" BY DEF Now
  <2> QED BY <1>0, <1>1, <1>2, <2>1 DEF PrefetchIs
<1>8. PosOf(Now, me) = PosOf(Now, env[e]) /\ SentOf(Now, me, prefetched[e]) = SentOf(Now, env[e], prefetched[e])
  <2>1. PosOf(Now, me) = PosOf(Now, env[e]) BY <1>2 DEF PosOf
  <2>2. ~Bootstraps(Now, me, prefetched[e]) /\ ~Bootstraps(Now, env[e], prefetched[e]) BY <1>2 DEF Bootstraps
  <2> QED BY <2>1, <2>2, <1>2 DEF SentOf
<1>9. OnlyEnv(e) BY QueuesKept
<1> DEFINE pre == prefetched[e]
<1>10. PairsNext(e, me, pre)
  BY <1>1, <1>2, <1>8, PairsKept
<1>a. EnvMoves(e, me, pre) BY <1>0, <1>2, <1>3, <1>4, <1>6, <1>7 DEF EnvMoves
<1> HIDE DEF pre
<1>b. AllRowsOK(results'[e], e) BY <1>0
<1>11. Inv'
  BY <1>9, <1>10, <1>a, <1>b, EnvStepInv
<1>12. ASSUME VInv PROVE VInv'
  <2>1. InOrder(results'[e]) BY <1>12, PolicyIs DEF VInv, AllInOrder
  <2>2. ComesInOrder(e, me)
    <3> SUFFICES ASSUME NEW r \in Rollouts, Near(e, r)
                 PROVE  Ordered(e, r, Fresh(Now, me), results[e], Coming(Now, e, r, Now, me, res[Now][<<r, e>>]), version[r])
      BY DEF ComesInOrder
    <3>1. Ordered(e, r, Fresh(Now, env[e]), results[e], Coming(Now, e, r, Now, env[e], res[Now][<<r, e>>]), version[r])
      BY <1>1, <1>12 DEF VInv, VersionsOK
    <3>2. Coming(Now, e, r, Now, me, res[Now][<<r, e>>]) = Coming(Now, e, r, Now, env[e], res[Now][<<r, e>>])
      BY <1>2 DEF Coming
    <3>3. Fresh(Now, me) = Fresh(Now, env[e]) BY <1>1, <1>2 DEF Fresh
    <3> QED BY <3>1, <3>2, <3>3
  <2> QED BY <1>a, <1>9, <1>12, <2>1, <2>2, EnvStepVInv
<1> QED BY <1>11, <1>12

\* The turn of the event loop keeps the invariant,
LEMMA YieldInv == ASSUME Inv, NEW e \in Envs, EnvYield(e) PROVE Inv' /\ (VInv => VInv')
BY TurnInv DEF EnvYield

\* and so does the cancellation that is served at it.
LEMMA EnvStopInv == ASSUME Inv, NEW e \in Envs, EnvStop(e) PROVE Inv' /\ (VInv => VInv')
BY TurnInv DEF EnvStop

\* Of a batch of bootstraps, the queue of every rollout worker gets its parts.
LEMMA BootGrown ==
  ASSUME cfg \in Configs, NEW k \in Kinds, NEW e \in Envs, NEW y \in Nat, NEW m \in Nat, NEW new, NEW old \in ObsType,
         BootSent(new, old, k, y, e, m)
  PROVE  /\ new \in ObsType
         /\ \A r \in Rollouts : Near(e, r) => Grown(new[k][<<e, r>>], old[k][<<e, r>>], m, k, y, e, r)
         /\ \A kk \in Kinds, ee \in Envs, r \in Rollouts :
              kk # k \/ ee # e \/ ~Near(ee, r) => new[kk][<<ee, r>>] = old[kk][<<ee, r>>]
<1>1. new \in ObsType BY DEF BootSent
<1>2. ASSUME NEW r \in Rollouts, Near(e, r) PROVE Grown(new[k][<<e, r>>], old[k][<<e, r>>], m, k, y, e, r)
  <2>1. new[k][<<e, r>>] \in Seq(Seq(CellSet)) BY <1>1, QueueTypes
  <2> QED BY <1>2, <2>1 DEF BootSent, Grown
<1>3. \A kk \in Kinds, ee \in Envs, r \in Rollouts :
        kk # k \/ ee # e \/ ~Near(ee, r) => new[kk][<<ee, r>>] = old[kk][<<ee, r>>]
  BY DEF BootSent
<1> QED BY <1>1, <1>2, <1>3

\* A pair whose env worker sends m observations.
LEMMA PairSends ==
  ASSUME Inv, NEW e \in Envs, NEW r \in Rollouts, Near(e, r), NEW k \in Kinds, NEW me, NEW pre, NEW q2, NEW m \in Nat,
         Pos(k, Now, env[e]) \in Nat, Sent(k, Now, env[e], prefetched[e]) \in Nat,
         Grown(q2, obs[k][<<e, r>>], m, k, Sent(k, Now, env[e], prefetched[e]), e, r),
         Pos(k, Now, me) = Pos(k, Now, env[e]), Sent(k, Now, me, pre) = Sent(k, Now, env[e], prefetched[e]) + m,
         me.got = env[e].got
  PROVE  PairOK(k, e, r, Now, me, pre, rollout[r], q2, res[k][<<r, e>>])
<1> DEFINE x == Pos(k, Now, env[e])
           s == Sent(k, Now, env[e], prefetched[e])
           cs == Coming(k, e, r, Now, env[e], res[k][<<r, e>>])
           p == TakenPart(k, Now, rollout[r].got, By(r, e))
           q == obs[k][<<e, r>>]
           gs == Going(k, e, r, Now, rollout[r], q)
           g2 == Going(k, e, r, Now, rollout[r], q2)
<1>1. cfg \in Configs /\ q \in Seq(Seq(CellSet)) /\ By(r, e) \in Nat \ {0} /\ rollout[r] \in RolloutSet
      /\ PairIs(k, e, r, Now, x, s, rollout[r], cs, gs)
  BY PairHas DEF PairOK
<1>2. rollout[r].got \in Seq(Seq(CellSet)) BY <1>1 DEF RolloutSet
<1>3. p \in Seq(Seq(CellSet)) BY <1>1, <1>2, PartType
<1>4. gs = p \o q /\ g2 = p \o q2 BY DEF Going
<1>5. Coming(k, e, r, Now, me, res[k][<<r, e>>]) = cs BY DEF Coming
<1>6. x \in Nat /\ s \in Nat /\ Grown(q2, q, m, k, s, e, r) OBVIOUS
<1>7. Pos(k, Now, me) = x /\ Sent(k, Now, me, pre) = s + m OBVIOUS
<1> HIDE DEF x, s, cs, p, q, gs, g2
<1>8. Grown(g2, gs, m, k, s, e, r) BY <1>1, <1>3, <1>4, <1>6, GoingGrown
<1>9. PairIs(k, e, r, Now, x, s + m, rollout[r], cs, g2) BY <1>1, <1>6, <1>8, PairGrows
<1> QED BY <1>5, <1>7, <1>9 DEF PairOK, g2

\* The prefetched bootstrap keeps the invariant.
LEMMA PrefetchInv ==
  ASSUME Inv, NEW e \in Envs, EnvPrefetch(e)
  PROVE  Inv' /\ (VInv => VInv')
<1> DEFINE me == [env[e] EXCEPT !.pc = "idle"]
<1>0. /\ cfg \in Configs /\ env[e] \in EnvSet /\ prefetched[e] \in BOOLEAN
      /\ EnvIs(e, Now, env[e]) /\ PrefetchIs(runner, env[e], prefetched[e])
      /\ obs \in ObsType /\ res \in ResType /\ results \in [Envs -> Seq(ResultSet)]
      /\ env \in [Envs -> EnvSet] /\ prefetched \in [Envs -> BOOLEAN]
      /\ AllRowsOK(results[e], e) /\ Len(EnvSrcs(e)) \in Nat \ {0}
  BY EnvHas
<1>1. /\ env[e].pc = "prefetch" /\ ~prefetched[e]
      /\ obs' = SendBootstrap(obs, "train", e, 0)
      /\ prefetched' = [prefetched EXCEPT ![e] = TRUE]
      /\ env' = [env EXCEPT ![e].pc = "idle"]
      /\ cfg' = cfg /\ runner' = runner /\ rollout' = rollout /\ version' = version /\ results' = results /\ res' = res
  BY DEF EnvPrefetch
<1>2. me \in EnvSet /\ me.pc = "idle" /\ me.got = env[e].got /\ env[e].got = <<>>
      /\ env' = [env EXCEPT ![e] = me]
  BY <1>0, <1>1 DEF EnvSet, EnvIs
<1> HIDE DEF me
<1>3. Now = "none" /\ ~cfg.async /\ runner.pc = "train" /\ runner.step + 1 < cfg.steps
  <2>1. Now = "none" BY <1>0, <1>1 DEF EnvIs, Busy
  <2> QED BY <1>0, <1>1, <2>1 DEF PrefetchIs, Now
<1>4. EnvIs(e, Now, me) BY <1>0, <1>2, <1>3 DEF EnvIs
<1>5. PrefetchIs(runner, me, TRUE) BY <1>2, <1>3 DEF PrefetchIs
<1>6. BootSent(obs', obs, "train", Base("train", 0), e, Stages)
  BY <1>0, <1>1, SendBootstrapIs DEF Kinds
<1>7. Base("train", 0) = 0 /\ Stages \in Nat BY <1>0, PositionsType DEF Base, Kinds
<1> DEFINE pre == TRUE
           train == "train"
<1> HIDE DEF pre
<1>8. /\ obs' \in ObsType
      /\ \A r \in Rollouts : Near(e, r) => Grown(obs'["train"][<<e, r>>], obs["train"][<<e, r>>], Stages, "train", 0, e, r)
      /\ \A kk \in Kinds, ee \in Envs, r \in Rollouts :
           kk # "train" \/ ee # e \/ ~Near(ee, r) => obs'[kk][<<ee, r>>] = obs[kk][<<ee, r>>]
  <2>1. train \in Kinds /\ BootSent(obs', obs, train, 0, e, Stages) /\ 0 \in Nat BY <1>6, <1>7 DEF Kinds
  <2> HIDE DEF train
  <2>2. /\ obs' \in ObsType
        /\ \A r \in Rollouts : Near(e, r) => Grown(obs'[train][<<e, r>>], obs[train][<<e, r>>], Stages, train, 0, e, r)
        /\ \A kk \in Kinds, ee \in Envs, r \in Rollouts :
             kk # train \/ ee # e \/ ~Near(ee, r) => obs'[kk][<<ee, r>>] = obs[kk][<<ee, r>>]
    BY <1>0, <1>7, <2>1, BootGrown
  <2> QED BY <2>2 DEF train
<1>9. OnlyEnv(e) BY <1>0, <1>1, <1>8 DEF OnlyEnv
<1>10. ASSUME NEW k \in Kinds, NEW r \in Rollouts, Near(e, r)
       PROVE  PairOK(k, e, r, Now, me, pre, rollout[r], obs'[k][<<e, r>>], res'[k][<<r, e>>])
  <2>1. CASE k # "train"
    <3>1. k # Now /\ obs'[k][<<e, r>>] = obs[k][<<e, r>>] /\ res' = res
      BY <1>1, <1>3, <1>8, <2>1 DEF Kinds
    <3>2. PairOK(k, e, r, Now, env[e], prefetched[e], rollout[r], obs[k][<<e, r>>], res[k][<<r, e>>]) BY <1>10, PairHas
    <3>3. PairOK(k, e, r, Now, me, pre, rollout[r], obs[k][<<e, r>>], res[k][<<r, e>>]) BY <2>1, <3>1, <3>2, Unaffected
    <3> QED BY <3>1, <3>3
  <2>2. CASE k = "train"
    <3>1. Pos(k, Now, env[e]) = 0 /\ Pos(k, Now, me) = 0 BY <1>3, <2>2 DEF Pos
    <3>2. Sent(k, Now, env[e], prefetched[e]) = 0 /\ Sent(k, Now, me, pre) = 0 + Stages
      BY <1>1, <1>3, <1>7, <2>2 DEF Sent, pre
    <3>3. Grown(obs'[k][<<e, r>>], obs[k][<<e, r>>], Stages, k, 0, e, r) BY <1>8, <1>10, <2>2
    <3> DEFINE q2 == obs'[k][<<e, r>>]
    <3>a. Grown(q2, obs[k][<<e, r>>], Stages, k, Sent(k, Now, env[e], prefetched[e]), e, r) BY <3>2, <3>3
    <3>b. /\ Pos(k, Now, env[e]) \in Nat /\ Sent(k, Now, env[e], prefetched[e]) \in Nat
          /\ Pos(k, Now, me) = Pos(k, Now, env[e]) /\ Sent(k, Now, me, pre) = Sent(k, Now, env[e], prefetched[e]) + Stages
      BY <3>1, <3>2
    <3> HIDE DEF q2
    <3>4. PairOK(k, e, r, Now, me, pre, rollout[r], q2, res[k][<<r, e>>])
      BY <1>2, <1>7, <1>10, <3>a, <3>b, PairSends
    <3> QED BY <1>1, <3>4 DEF q2
  <2> QED BY <2>1, <2>2
<1>a. EnvMoves(e, me, pre) BY <1>0, <1>1, <1>2, <1>4, <1>5 DEF EnvMoves, pre
<1>b. PairsNext(e, me, pre) BY <1>10 DEF PairsNext
<1>c. AllRowsOK(results'[e], e) BY <1>0, <1>1
<1>11. Inv' BY <1>9, <1>a, <1>b, <1>c, EnvStepInv
<1>12. ASSUME VInv PROVE VInv'
  <2>1. InOrder(results'[e]) BY <1>1, <1>12, PolicyIs DEF VInv, AllInOrder
  <2> QED BY <1>3, <1>9, <1>12, <1>a, <2>1, EnvStepVInv
<1> QED BY <1>11, <1>12

\* The begin of an epoch keeps the invariant.
LEMMA BootInv ==
  ASSUME Inv, NEW e \in Envs, EnvBoot(e)
  PROVE  Inv' /\ (VInv => VInv')
<1> DEFINE turn == Turn(env[e].kind, 0)
           me == [env[e] EXCEPT !.pc = turn, !.i = 0]
           pre == prefetched[e]
           post == prefetched[e] /\ ~UsePrefetched(e)
           k == env[e].kind
           boots == Bootstraps(k, env[e], pre)
           y == PosOf(k, env[e])
<1>0. /\ cfg \in Configs /\ env[e] \in EnvSet /\ prefetched[e] \in BOOLEAN
      /\ EnvIs(e, Now, env[e]) /\ PrefetchIs(runner, env[e], prefetched[e])
      /\ obs \in ObsType /\ res \in ResType /\ results \in [Envs -> Seq(ResultSet)]
      /\ env \in [Envs -> EnvSet] /\ prefetched \in [Envs -> BOOLEAN]
      /\ AllRowsOK(results[e], e) /\ Len(EnvSrcs(e)) \in Nat \ {0}
  BY EnvHas
<1>1. /\ env[e].pc = "boot"
      /\ obs' = IF NeedsBootstrap(e) THEN SendBootstrap(obs, env[e].kind, e, env[e].epoch) ELSE obs
      /\ prefetched' = [prefetched EXCEPT ![e] = @ /\ ~UsePrefetched(e)]
      /\ results' = IF env[e].epoch = 0 THEN [results EXCEPT ![e] = <<>>] ELSE results
      /\ env' = [env EXCEPT ![e].pc = Turn(env[e].kind, 0), ![e].i = 0]
      /\ cfg' = cfg /\ runner' = runner /\ rollout' = rollout /\ version' = version /\ res' = res
  BY DEF EnvBoot
<1>2. /\ Now \in Kinds /\ Now # "none" /\ Busy(Now, env[e]) /\ k = Now
      /\ pre /\ Now = "train" => env[e].pc = "boot" /\ env[e].epoch = 0
  BY <1>1, BusyNow
<1>3. turn \in {"yield", "recv"} BY DEF Turn
<1> HIDE DEF turn
<1>4. /\ me \in EnvSet /\ me.pc = turn /\ me.kind = k /\ me.epoch = env[e].epoch /\ me.i = 0
      /\ me.got = env[e].got /\ env[e].got = <<>>
  BY <1>0, <1>1, <1>3 DEF EnvSet, EnvIs
<1>5. env' = [env EXCEPT ![e] = me] BY <1>0, <1>1 DEF turn
<1>6. UsePrefetched(e) <=> k = "train" /\ env[e].epoch = 0 /\ pre BY DEF UsePrefetched
<1>7. NeedsBootstrap(e) <=> boots BY <1>1, <1>6 DEF NeedsBootstrap, Bootstraps
<1>8. post = (pre /\ ~(k = "train" /\ env[e].epoch = 0 /\ pre)) /\ post \in BOOLEAN /\ pre \in BOOLEAN
  BY <1>0, <1>6
<1>9. prefetched' = [prefetched EXCEPT ![e] = post] BY <1>0, <1>1
<1>10. /\ Busy(k, me) /\ PosOf(k, me) = y /\ y = Base(k, env[e].epoch)
       /\ SentOf(k, me, post) = SentOf(k, env[e], pre) + (IF boots THEN Stages ELSE 0)
       /\ boots => SentOf(k, env[e], pre) = y
  <2> DEFINE m == env[e]
  <2>1. Busy(k, m) /\ m.pc = "boot" /\ k \in Kinds /\ me = [m EXCEPT !.pc = turn, !.i = 0]
    BY <1>1, <1>2
  <2>a. BootsTo(m, me)
    BY <1>3, <2>1 DEF BootsTo
  <2> HIDE DEF m, me, post, pre, k
  <2>2. Booted(k, m, pre, me, post)
    BY <1>0, <2>1, <2>a, BootMoves
  <2> QED BY <2>2 DEF m, Booted
<1>11. /\ y \in Nat /\ SentOf(k, env[e], pre) \in Nat /\ Stages \in Nat /\ env[e].epoch \in Nat
  <2>1. PosOf(k, env[e]) \in Nat /\ SentOf(k, env[e], pre) \in Nat /\ Stages \in Nat \ {0} BY <1>0, <1>2, SentRange
  <2> QED BY <1>0, <2>1 DEF EnvSet
<1>12. /\ obs' \in ObsType
       /\ boots => \A r \in Rollouts : Near(e, r) => Grown(obs'[k][<<e, r>>], obs[k][<<e, r>>], Stages, k, y, e, r)
       /\ \A kk \in Kinds, ee \in Envs, r \in Rollouts :
            ~boots \/ kk # k \/ ee # e \/ ~Near(ee, r) => obs'[kk][<<ee, r>>] = obs[kk][<<ee, r>>]
  <2>1. CASE ~boots BY <1>0, <1>1, <1>7, <2>1
  <2>2. CASE boots
    <3>1. obs' = SendBootstrap(obs, k, e, env[e].epoch) BY <1>1, <1>7, <2>2
    <3>2. BootSent(obs', obs, k, y, e, Stages) BY <1>0, <1>2, <1>10, <1>11, <3>1, SendBootstrapIs
    <3> HIDE DEF k, y
    <3>3. /\ obs' \in ObsType
          /\ \A r \in Rollouts : Near(e, r) => Grown(obs'[k][<<e, r>>], obs[k][<<e, r>>], Stages, k, y, e, r)
          /\ \A kk \in Kinds, ee \in Envs, r \in Rollouts :
               kk # k \/ ee # e \/ ~Near(ee, r) => obs'[kk][<<ee, r>>] = obs[kk][<<ee, r>>]
      BY <1>0, <1>2, <1>11, <3>2, BootGrown
    <3> QED BY <2>2, <3>3
  <2> QED BY <2>1, <2>2
<1> HIDE DEF me, pre, post, k, boots, y
<1>13. EnvIs(e, Now, me) BY <1>0, <1>2, <1>4, <1>10 DEF EnvIs
<1>14. PrefetchIs(runner, me, post)
  <2>1. me.pc # "prefetch" BY <1>3, <1>4
  <2>2. ASSUME post PROVE pre /\ runner.pc # "rollouts"
    <3>1. runner.pc = "rollouts" => Now = "train" BY DEF Now
    <3> QED BY <1>2, <1>8, <2>2, <3>1
  <2> QED BY <1>0, <2>1, <2>2 DEF PrefetchIs, pre
<1>15. EnvMoves(e, me, post) BY <1>4, <1>5, <1>8, <1>9, <1>13, <1>14 DEF EnvMoves
<1>16. /\ results' \in [Envs -> Seq(ResultSet)] /\ \A ee \in Envs : ee # e => results'[ee] = results[ee]
       /\ results'[e] = IF env[e].epoch = 0 THEN <<>> ELSE results[e]
  BY <1>0, <1>1
<1>17. OnlyEnv(e) BY <1>0, <1>1, <1>12, <1>16 DEF OnlyEnv
<1>18. AllRowsOK(results'[e], e)
  <2>1. AllRowsOK(<<>>, e) BY DEF AllRowsOK
  <2> QED BY <1>0, <1>16, <2>1
<1>19. PairsNext(e, me, post)
  <2> SUFFICES ASSUME NEW kk \in Kinds, NEW r \in Rollouts, Near(e, r)
               PROVE  PairOK(kk, e, r, Now, me, post, rollout[r], obs'[kk][<<e, r>>], res[kk][<<r, e>>])
    BY <1>1 DEF PairsNext
  <2>0. PairOK(kk, e, r, Now, env[e], prefetched[e], rollout[r], obs[kk][<<e, r>>], res[kk][<<r, e>>]) BY PairHas
  <2>1. CASE kk # k
    <3>1. kk # Now /\ (kk = "train" => prefetched[e] = post) /\ obs'[kk][<<e, r>>] = obs[kk][<<e, r>>]
      BY <1>2, <1>8, <1>12, <2>1 DEF pre
    <3> QED BY <2>0, <3>1, Unaffected
  <2>2. CASE kk = k
    <3> DEFINE q2 == obs'[k][<<e, r>>]
               m == IF boots THEN Stages ELSE 0
               q == obs[k][<<e, r>>]
    <3>1. Pos(k, Now, env[e]) = y /\ Pos(k, Now, me) = y BY <1>2, <1>10 DEF Pos, y
    <3>2. Sent(k, Now, env[e], prefetched[e]) = SentOf(k, env[e], pre) /\ Sent(k, Now, me, post) = SentOf(k, me, post)
      BY <1>2 DEF Sent, pre
    <3>3. Grown(q2, q, m, k, Sent(k, Now, env[e], prefetched[e]), e, r)
      <4>1. CASE boots BY <1>10, <1>12, <3>2, <4>1
      <4>2. CASE ~boots
        <5>1. q2 = q /\ m = 0 BY <1>2, <1>12, <4>2
        <5>2. q \in Seq(Seq(CellSet)) BY <1>2, PairHas
        <5> HIDE DEF q2, q, m
        <5> QED BY <5>1, <5>2 DEF Grown
      <4> QED BY <4>1, <4>2
    <3>4. m \in Nat /\ Sent(k, Now, me, post) = Sent(k, Now, env[e], prefetched[e]) + m BY <1>10, <1>11, <3>2
    <3>5. Pos(k, Now, env[e]) \in Nat /\ Sent(k, Now, env[e], prefetched[e]) \in Nat /\ Pos(k, Now, me) = Pos(k, Now, env[e])
      BY <1>11, <3>1, <3>2
    <3> HIDE DEF q2, q, m
    <3>6. PairOK(k, e, r, Now, me, post, rollout[r], q2, res[k][<<r, e>>])
      BY <1>2, <1>4, <3>3, <3>4, <3>5, PairSends DEF q
    <3> QED BY <2>2, <3>6 DEF q2
  <2> QED BY <2>1, <2>2
<1>20. Inv' BY <1>15, <1>17, <1>18, <1>19, EnvStepInv
<1>21. ASSUME VInv PROVE VInv'
  <2>1. InOrder(results'[e])
    <3>1. InOrder(results[e]) BY <1>21, PolicyIs DEF VInv, AllInOrder
    <3>2. InOrder(<<>>) BY DEF InOrder
    <3> QED BY <1>16, <3>1, <3>2
  <2>2. ComesInOrder(e, me)
    <3> SUFFICES ASSUME NEW r \in Rollouts, Near(e, r)
                 PROVE  Ordered(e, r, Fresh(Now, me), results'[e], Coming(Now, e, r, Now, me, res[Now][<<r, e>>]), version[r])
      BY <1>1 DEF ComesInOrder
    <3> DEFINE cs == Coming(Now, e, r, Now, env[e], res[Now][<<r, e>>])
    <3>1. Ordered(e, r, Fresh(Now, env[e]), results[e], cs, version[r])
      BY <1>2, <1>21 DEF VInv, VersionsOK
    <3>2. Coming(Now, e, r, Now, me, res[Now][<<r, e>>]) = cs BY <1>4 DEF Coming
    <3>3. env[e].epoch # 0 => Fresh(Now, env[e]) /\ results'[e] = results[e] BY <1>2, <1>16 DEF Fresh
    <3> HIDE DEF cs
    <3>4. CASE env[e].epoch = 0
      <4>1. results'[e] = <<>> BY <3>4, <1>16
      <4>2. Ordered(e, r, Fresh(Now, me), <<>>, cs, version[r]) BY <3>1 DEF Ordered
      <4> QED BY <3>2, <4>1, <4>2
    <3>5. CASE env[e].epoch # 0
      <4>1. Ordered(e, r, Fresh(Now, me), results[e], cs, version[r]) BY <3>1, <3>3, <3>5 DEF Ordered
      <4> QED BY <3>2, <3>3, <3>5, <4>1
    <3> QED BY <3>4, <3>5
  <2> QED BY <1>15, <1>17, <1>21, <2>1, <2>2, EnvStepVInv
<1> QED BY <1>20, <1>21

-----------------------------------------------------------------------------
(* An env worker receives *)

\* The names of one receipt.
EnvKey(e) == <<EnvSrcs(e)[Len(env[e].got) + 1], e>>

EnvGot(e) == Append(env[e].got, Head(res[env[e].kind][EnvKey(e)]))

Queues(K, A, B, T) == [K -> [A \X B -> T]]

Replaces(new, old, k, a, b, t) == new = [old EXCEPT ![k][<<a, b>>] = t]

Replaced(new, old, k, a, b, t, K, A, B) ==
  \A kk \in K, x \in A, y \in B :
    new[kk][<<x, y>>] = IF kk = k /\ x = a /\ y = b THEN t ELSE old[kk][<<x, y>>]

\* One queue replaced among all.
LEMMA QueueReplaced ==
  ASSUME NEW K, NEW A, NEW B, NEW T, NEW old \in Queues(K, A, B, T), NEW k \in K, NEW a \in A, NEW b \in B,
         NEW t \in T, NEW new, Replaces(new, old, k, a, b, t)
  PROVE  new \in Queues(K, A, B, T) /\ Replaced(new, old, k, a, b, t, K, A, B)
BY DEF Queues, Replaces, Replaced

EnvTakes(e, k, L, src, key) ==
  /\ k \in Kinds /\ k # "none" /\ Busy(k, env[e]) /\ env[e].kind = k /\ env[e].pc = "recv" /\ env[e] \in EnvSet
  /\ (k = "train" => ~prefetched[e])
  /\ L \in Nat /\ L < Len(EnvSrcs(e)) /\ env[e].got \in Seq(Seq(LabelledSet))
  /\ src \in Rollouts /\ Near(e, src)
  /\ key = <<src, e>>
  /\ res[k][key] # <<>> /\ res[k][key] \in Seq(Seq(LabelledSet))
  /\ res' \in ResType
  /\ \A kk \in Kinds, ee \in Envs, r \in Rollouts :
       res'[kk][<<r, ee>>] = IF kk = k /\ ee = e /\ r = src THEN Tail(res[kk][<<r, ee>>]) ELSE res[kk][<<r, ee>>]
  /\ \A r \in Rollouts : Near(e, r) => (r = src <=> Of(e, r) = L + 1)

\* What recv_rollout_results takes, and from where.
LEMMA EnvRecvIs ==
  ASSUME Inv, NEW e \in Envs, EnvRecv(e)
  PROVE  EnvTakes(e, Now, Len(env[e].got), EnvSrcs(e)[Len(env[e].got) + 1], EnvKey(e))
<1> DEFINE k == Now
           L == Len(env[e].got)
           src == EnvSrcs(e)[L + 1]
<1>0. /\ cfg \in Configs /\ env[e] \in EnvSet /\ EnvIs(e, Now, env[e]) /\ res \in ResType /\ Len(EnvSrcs(e)) \in Nat \ {0}
  BY EnvHas
<1>1. /\ env[e].pc = "recv" /\ res[env[e].kind][EnvKey(e)] # <<>>
      /\ res' = [res EXCEPT ![env[e].kind][EnvKey(e)] = Tail(@)]
  BY DEF EnvRecv, EnvKey
<1>2. k \in Kinds /\ k # "none" /\ Busy(k, env[e]) /\ env[e].kind = k /\ (k = "train" => ~prefetched[e])
  BY <1>1, BusyNow
<1>3. env[e].got \in Seq(Seq(LabelledSet)) /\ L \in Nat /\ L < Len(EnvSrcs(e)) BY <1>0 DEF EnvSet, EnvIs
<1>4. L + 1 \in 1..Len(EnvSrcs(e)) BY <1>0, <1>3
<1>5. src \in Rollouts /\ Near(e, src) /\ \A r \in Rollouts : src = r <=> L + 1 = Of(e, r)
  BY <1>0, <1>4, EnvSources
<1>6. EnvKey(e) = <<src, e>> BY DEF EnvKey
<1> HIDE DEF src, k, L
<1>7. res[k][EnvKey(e)] \in Seq(Seq(LabelledSet)) BY <1>0, <1>2, <1>5, <1>6, QueueTypes
<1>8. res' = [res EXCEPT ![k][EnvKey(e)] = Tail(res[k][EnvKey(e)])] BY <1>1, <1>2
<1>9. Tail(res[k][EnvKey(e)]) \in Seq(Seq(LabelledSet)) BY <1>1, <1>2, <1>7
<1>10. /\ res' \in ResType
       /\ \A kk \in Kinds, r \in Rollouts, ee \in Envs :
            res'[kk][<<r, ee>>] = IF kk = k /\ r = src /\ ee = e THEN Tail(res[k][EnvKey(e)]) ELSE res[kk][<<r, ee>>]
  <2> DEFINE T == Seq(Seq(LabelledSet))
             t == Tail(res[k][EnvKey(e)])
             new == res'
  <2>1. res \in Queues(Kinds, Rollouts, Envs, T) /\ t \in T BY <1>0, <1>9 DEF ResType, Queues
  <2>2. Replaces(new, res, k, src, e, t) BY <1>6, <1>8 DEF Replaces
  <2> HIDE DEF T, t, new
  <2>3. new \in Queues(Kinds, Rollouts, Envs, T) /\ Replaced(new, res, k, src, e, t, Kinds, Rollouts, Envs)
    BY <1>2, <1>5, <2>1, <2>2, QueueReplaced
  <2> QED BY <2>3 DEF T, t, new, ResType, Queues, Replaced
<1>11. \A kk \in Kinds, ee \in Envs, r \in Rollouts :
         res'[kk][<<r, ee>>] = IF kk = k /\ ee = e /\ r = src THEN Tail(res[kk][<<r, ee>>]) ELSE res[kk][<<r, ee>>]
  BY <1>6, <1>10
<1>12. \A r \in Rollouts : Near(e, r) => (r = src <=> Of(e, r) = L + 1) BY <1>5
<1> QED BY <1>0, <1>1, <1>2, <1>3, <1>5, <1>6, <1>7, <1>10, <1>11, <1>12 DEF src, k, L, EnvTakes

\* Receiving a part that does not complete the batch keeps the invariant.
LEMMA RecvPartInv ==
  ASSUME Inv, NEW e \in Envs, EnvRecv(e), Len(EnvGot(e)) < Len(EnvSrcs(e))
  PROVE  Inv' /\ (VInv => VInv')
<1> DEFINE k == Now
           L == Len(env[e].got)
           src == EnvSrcs(e)[L + 1]
           key == EnvKey(e)
           got == EnvGot(e)
           me == [env[e] EXCEPT !.got = got]
           pre == prefetched[e]
<1>0. /\ cfg \in Configs /\ env[e] \in EnvSet /\ prefetched[e] \in BOOLEAN
      /\ EnvIs(e, Now, env[e]) /\ PrefetchIs(runner, env[e], prefetched[e])
      /\ obs \in ObsType /\ res \in ResType /\ results \in [Envs -> Seq(ResultSet)]
      /\ env \in [Envs -> EnvSet] /\ prefetched \in [Envs -> BOOLEAN]
      /\ AllRowsOK(results[e], e) /\ Len(EnvSrcs(e)) \in Nat \ {0}
  BY EnvHas
<1>1. /\ env' = [env EXCEPT ![e].got = got] /\ results' = results /\ obs' = obs
      /\ cfg' = cfg /\ runner' = runner /\ rollout' = rollout /\ version' = version /\ prefetched' = prefetched
  BY DEF EnvRecv, EnvKey, EnvGot
<1>2. /\ k \in Kinds /\ k # "none" /\ Busy(k, env[e]) /\ env[e].kind = k /\ env[e].pc = "recv" /\ env[e] \in EnvSet
      /\ L \in Nat /\ L < Len(EnvSrcs(e)) /\ env[e].got \in Seq(Seq(LabelledSet))
      /\ src \in Rollouts /\ Near(e, src)
      /\ key = <<src, e>>
      /\ res[k][key] # <<>> /\ res[k][key] \in Seq(Seq(LabelledSet))
      /\ res' \in ResType
      /\ \A kk \in Kinds, ee \in Envs, r \in Rollouts :
           res'[kk][<<r, ee>>] = IF kk = k /\ ee = e /\ r = src THEN Tail(res[kk][<<r, ee>>])
                                 ELSE res[kk][<<r, ee>>]
      /\ \A r \in Rollouts : Near(e, r) => (r = src <=> Of(e, r) = L + 1)
  BY EnvRecvIs DEF EnvTakes
<1>3. got = Append(env[e].got, Head(res[k][key])) BY <1>2 DEF EnvGot
<1>4. got \in Seq(Seq(LabelledSet)) /\ Len(got) = L + 1 /\ Len(got) < Len(EnvSrcs(e))
  BY <1>2, <1>3, SeqAppend
<1> HIDE DEF k, L, src, key, got
<1>5. /\ me \in EnvSet /\ me.pc = "recv" /\ me.kind = k /\ me.epoch = env[e].epoch /\ me.i = env[e].i /\ me.got = got
  BY <1>0, <1>2, <1>4 DEF EnvSet
<1>6. env' = [env EXCEPT ![e] = me] /\ prefetched' = [prefetched EXCEPT ![e] = pre] BY <1>0, <1>1
<1> HIDE DEF me, pre
<1>7. Busy(k, me) /\ PosOf(k, me) = PosOf(k, env[e]) /\ SentOf(k, me, pre) = SentOf(k, env[e], pre)
  <2>1. Busy(k, me) BY <1>2, <1>5 DEF Busy
  <2>2. PosOf(k, me) = PosOf(k, env[e]) BY <1>2, <1>5 DEF PosOf
  <2>3. ~Bootstraps(k, me, pre) /\ ~Bootstraps(k, env[e], pre) BY <1>2, <1>5 DEF Bootstraps
  <2> QED BY <2>1, <2>2, <2>3, <1>2, <1>5 DEF SentOf
<1>8. EnvIs(e, Now, me) BY <1>2, <1>4, <1>5, <1>7 DEF EnvIs, k
<1>9. PrefetchIs(runner, me, pre)
  BY <1>0, <1>2, <1>5 DEF PrefetchIs, pre
<1>10. EnvMoves(e, me, pre) BY <1>0, <1>5, <1>6, <1>8, <1>9 DEF EnvMoves, pre
<1>11. OnlyEnv(e) BY <1>0, <1>1, <1>2 DEF OnlyEnv
<1>12. AllRowsOK(results'[e], e) BY <1>0, <1>1
<1>13. ASSUME NEW r \in Rollouts, Near(e, r)
       PROVE  Coming(k, e, r, k, me, res'[k][<<r, e>>]) = Coming(k, e, r, k, env[e], res[k][<<r, e>>])
  <2> DEFINE i == Of(e, r)
             s == res[k][key]
             g == env[e].got
             T == Seq(LabelledSet)
  <2>1. i \in Nat \ {0} BY <1>2, <1>13, PairHas
  <2>2. s \in Seq(T) /\ s # <<>> /\ g \in Seq(T) /\ L = Len(g) /\ got = Append(g, Head(s))
    BY <1>2, <1>3 DEF L
  <2>3. Coming(k, e, r, k, me, res'[k][<<r, e>>]) = TakenPart(k, k, got, i) \o res'[k][<<r, e>>] BY <1>5 DEF Coming
  <2>4. Coming(k, e, r, k, env[e], res[k][<<r, e>>]) = TakenPart(k, k, g, i) \o res[k][<<r, e>>] BY DEF Coming
  <2>5. CASE r = src
    <3>1. i = L + 1 /\ res[k][<<r, e>>] = s /\ res'[k][<<r, e>>] = Tail(s) BY <1>2, <1>13, <2>5
    <3> HIDE DEF i, s, g, T
    <3>a. Keeps(k, g, s, i) BY <2>1, <2>2, Taking
    <3>2. TakenPart(k, k, Append(g, Head(s)), i) \o Tail(s) = TakenPart(k, k, g, i) \o s BY <2>2, <3>1, <3>a DEF Keeps
    <3> QED BY <2>2, <2>3, <2>4, <3>1, <3>2
  <2>6. CASE r # src
    <3>1. i # L + 1 /\ res'[k][<<r, e>>] = res[k][<<r, e>>] BY <1>2, <1>13, <2>6
    <3> HIDE DEF i, s, g, T
    <3>a. Keeps(k, g, s, i) BY <2>1, <2>2, Taking
    <3>2. TakenPart(k, k, Append(g, Head(s)), i) = TakenPart(k, k, g, i) BY <2>2, <3>1, <3>a DEF Keeps
    <3> QED BY <2>2, <2>3, <2>4, <3>1, <3>2
  <2> QED BY <2>5, <2>6
<1>14. PairsNext(e, me, pre)
  <2> SUFFICES ASSUME NEW kk \in Kinds, NEW r \in Rollouts, Near(e, r)
               PROVE  PairOK(kk, e, r, Now, me, pre, rollout[r], obs[kk][<<e, r>>], res'[kk][<<r, e>>])
    BY <1>1 DEF PairsNext
  <2>0. PairOK(kk, e, r, Now, env[e], pre, rollout[r], obs[kk][<<e, r>>], res[kk][<<r, e>>]) BY PairHas DEF pre
  <2>1. CASE kk # k
    <3>1. kk # Now /\ res'[kk][<<r, e>>] = res[kk][<<r, e>>] BY <1>2, <2>1 DEF k
    <3> QED BY <2>0, <3>1, Unaffected
  <2>2. CASE kk = k
    <3>1. Coming(k, e, r, k, me, res'[k][<<r, e>>]) = Coming(k, e, r, k, env[e], res[k][<<r, e>>]) BY <1>13
    <3>2. k = Now BY DEF k
    <3> QED BY <2>0, <2>2, <3>1, <3>2, <1>7, Affected
  <2> QED BY <2>1, <2>2
<1>15. Inv' BY <1>10, <1>11, <1>12, <1>14, EnvStepInv
<1>16. ASSUME VInv PROVE VInv'
  <2>1. InOrder(results'[e]) BY <1>1, <1>16, PolicyIs DEF VInv, AllInOrder
  <2>2. ComesInOrder(e, me)
    <3> SUFFICES ASSUME NEW r \in Rollouts, Near(e, r)
                 PROVE  Ordered(e, r, Fresh(Now, me), results[e], Coming(Now, e, r, Now, me, res'[Now][<<r, e>>]), version[r])
      BY <1>1 DEF ComesInOrder
    <3>1. Ordered(e, r, Fresh(Now, env[e]), results[e], Coming(Now, e, r, Now, env[e], res[Now][<<r, e>>]), version[r])
      BY <1>2, <1>16 DEF VInv, VersionsOK, k
    <3>2. Coming(Now, e, r, Now, me, res'[Now][<<r, e>>]) = Coming(Now, e, r, Now, env[e], res[Now][<<r, e>>])
      BY <1>13 DEF k
    <3>3. Fresh(Now, me) = Fresh(Now, env[e]) BY <1>2, <1>5 DEF Fresh
    <3> QED BY <3>1, <3>2, <3>3
  <2> QED BY <1>10, <1>11, <1>16, <2>1, <2>2, EnvStepVInv
<1> QED BY <1>15, <1>16

\* What the last part of a batch of results does for one pair.
Answered(e, r, k, x, s, h, t, gs) ==
  /\ h = Answer(k, x, e, r, h[1].version) /\ h[1].version \in Int
  /\ PairIs(k, e, r, k, x + 1, s, rollout[r], t, gs)
  /\ s = x + 1 => t = <<>> /\ gs = <<>>
  /\ Coming(k, e, r, k, env[e], res[k][<<r, e>>]) = <<h>> \o t
  /\ h \in Seq(LabelledSet) /\ t \in Seq(Seq(LabelledSet))

\* Position and sent observations of a worker in a call.
LEMMA PosSent ==
  ASSUME Inv, NEW e \in Envs, NEW k, k = Now, Busy(k, env[e])
  PROVE  /\ PosOf(k, env[e]) \in Nat /\ SentOf(k, env[e], prefetched[e]) \in Nat
         /\ PosOf(k, env[e]) < RolloutPositions(k) /\ RolloutPositions(k) \in Nat /\ Stages \in Nat
         /\ SentOf(k, env[e], prefetched[e]) <= RolloutPositions(k)
<1>1. cfg \in Configs /\ k \in Kinds BY EnvHas DEF Busy, EnvSet
<1> DEFINE pre == prefetched[e]
           me == env[e]
<1>2. Busy(k, me) OBVIOUS
<1> HIDE DEF pre, me
<1>3. /\ PosOf(k, me) \in Nat /\ SentOf(k, me, pre) \in Nat /\ RolloutPositions(k) \in Nat
      /\ PosOf(k, me) < RolloutPositions(k) /\ Stages \in Nat \ {0}
      /\ SentOf(k, me, pre) <= RolloutPositions(k)
  BY <1>1, <1>2, SentRange
<1> QED BY <1>3 DEF pre, me

\* An answer carries its sender's version.
LEMMA VersionType ==
  ASSUME cfg \in Configs, NEW e \in Envs, NEW r \in Rollouts, Near(e, r), NEW k, NEW x, NEW h \in Seq(LabelledSet),
         NEW v, h = Answer(k, x, e, r, v)
  PROVE  h[1].version = v /\ v \in Int
<1>1. Common(PE, e, PR, r) \in Int /\ Common(PE, e, PR, r) > 0
  <2>1. PE \in Nat \ {0} /\ PR \in Nat \ {0} /\ e \in Nat /\ r \in Nat BY ShareType DEF Envs, Rollouts
  <2>2. Common(PE, e, PR, r) \in Int BY Meeting, <2>1
  <2> QED BY <2>2 DEF Near
<1> DEFINE p == Piece(k, x, e, r)
<1>2. DOMAIN p = 1..Common(PE, e, PR, r) BY DEF Piece, Part
<1> HIDE DEF p
<1>3. h = [j \in DOMAIN p |-> [cell |-> p[j], version |-> v]] BY DEF Answer, Labelled, p
<1>4. 1 \in DOMAIN p BY <1>1, <1>2
<1>5. h[1] = [cell |-> p[1], version |-> v] /\ 1 \in DOMAIN h BY <1>3, <1>4
<1>6. h[1] \in LabelledSet BY <1>5
<1> QED BY <1>5, <1>6 DEF LabelledSet

\* The part that completes a batch of results.
LEMMA LastPart ==
  ASSUME Inv, NEW e \in Envs, EnvRecv(e), ~(Len(EnvGot(e)) < Len(EnvSrcs(e))), NEW r \in Rollouts, Near(e, r),
         NEW k, k = Now
  PROVE  /\ Answered(e, r, k, PosOf(k, env[e]), SentOf(k, env[e], prefetched[e]), EnvGot(e)[Of(e, r)], res'[k][<<r, e>>],
                     Going(k, e, r, k, rollout[r], obs[k][<<e, r>>]))
         /\ Len(EnvGot(e)) = Len(EnvSrcs(e))
<1> DEFINE L == Len(env[e].got)
           src == EnvSrcs(e)[L + 1]
           key == EnvKey(e)
           got == EnvGot(e)
           g == env[e].got
           T == Seq(LabelledSet)
           s == res[k][key]
           i == Of(e, r)
           h == got[i]
           t == res'[k][<<r, e>>]
           x == PosOf(k, env[e])
           n == SentOf(k, env[e], prefetched[e])
           gs == Going(k, e, r, k, rollout[r], obs[k][<<e, r>>])
           cs == Coming(k, e, r, k, env[e], res[k][<<r, e>>])
           ro == rollout[r]
<1>1. /\ k \in Kinds /\ k # "none" /\ Busy(k, env[e]) /\ env[e].kind = k
      /\ L \in Nat /\ L < Len(EnvSrcs(e)) /\ g \in Seq(T)
      /\ src \in Rollouts /\ Near(e, src)
      /\ key = <<src, e>>
      /\ s # <<>> /\ s \in Seq(T)
      /\ res' \in ResType
      /\ \A kk \in Kinds, ee \in Envs, rr \in Rollouts :
           res'[kk][<<rr, ee>>] = IF kk = k /\ ee = e /\ rr = src THEN Tail(res[kk][<<rr, ee>>])
                                 ELSE res[kk][<<rr, ee>>]
      /\ \A rr \in Rollouts : Near(e, rr) => (rr = src <=> Of(e, rr) = L + 1)
  BY EnvRecvIs DEF EnvTakes
<1>2. got = Append(g, Head(s)) BY <1>1 DEF EnvGot
<1>3. /\ cfg \in Configs /\ i \in 1..Len(EnvSrcs(e)) /\ i \in Nat \ {0} /\ res[k][<<r, e>>] \in Seq(T)
      /\ PairOK(k, e, r, k, env[e], prefetched[e], ro, obs[k][<<e, r>>], res[k][<<r, e>>])
  BY <1>1, PairHas
<1>4. x \in Nat /\ n \in Nat BY <1>1, PosSent
<1>5. PairIs(k, e, r, k, x, n, ro, cs, gs) BY <1>3, Affected
<1>6. cs = TakenPart(k, k, g, i) \o res[k][<<r, e>>] BY DEF Coming
<1>7. r = src <=> i = L + 1 BY <1>1
<1>8. t = IF r = src THEN Tail(s) ELSE res[k][<<r, e>>] BY <1>1
<1>9. L = Len(g) OBVIOUS
<1>10. Len(EnvSrcs(e)) \in Nat BY <1>3, EnvSources
<1>11. r = src => res[k][<<r, e>>] = s BY <1>1
<1>12. ~(Len(got) < Len(EnvSrcs(e))) OBVIOUS
<1> HIDE DEF L, src, key, got, g, T, s, i, h, t, x, n, gs, cs, ro
<1>13. Len(got) = L + 1 /\ Len(got) = Len(EnvSrcs(e)) BY <1>1, <1>2, <1>9, <1>10, <1>12, SeqAppend
<1>14. i \in 1..Len(g) + 1 BY <1>3, <1>9, <1>13
<1>15. t \in Seq(T) BY <1>1, <1>3, <1>8, SeqAppend
<1>16. cs = <<h>> \o t /\ h \in T
  <2>1. FirstOf(k, g, s, i, t) /\ Append(g, Head(s))[i] \in T BY <1>1, <1>14, <1>15, Taken
  <2>2. h = Append(g, Head(s))[i] BY <1>2 DEF h
  <2>3. CASE r = src BY <2>1, <2>2, <2>3, <1>6, <1>7, <1>8, <1>9, <1>11 DEF FirstOf
  <2>4. CASE r # src BY <2>1, <2>2, <2>4, <1>6, <1>7, <1>8, <1>9 DEF FirstOf
  <2> QED BY <2>3, <2>4
<1>17. /\ h = Answer(k, x, e, r, h[1].version)
       /\ PairIs(k, e, r, k, x + 1, n, ro, t, gs)
       /\ n = x + 1 => t = <<>> /\ gs = <<>>
  <2>1. t \in Seq(Seq(LabelledSet)) BY <1>15 DEF T
  <2>2. Dropped(k, e, r, x, n, ro, h, t, gs) BY <1>1, <1>3, <1>4, <1>5, <1>16, <2>1, PairDrops
  <2> QED BY <2>2 DEF Dropped
<1>18. h[1].version \in Int
  <2> DEFINE v == h[1].version
  <2>1. h = Answer(k, x, e, r, v) /\ h \in Seq(LabelledSet) BY <1>16, <1>17 DEF T
  <2> HIDE DEF v
  <2>2. v \in Int BY <1>3, <2>1, VersionType
  <2> QED BY <2>2 DEF v
<1>19. Answered(e, r, k, x, n, h, t, gs) BY <1>15, <1>16, <1>17, <1>18 DEF Answered, T, cs, ro
<1> QED BY <1>13, <1>19 DEF x, n, h, t, gs, got, i

Labels(e) == [i \in 1..Len(EnvSrcs(e)) |-> EnvGot(e)[i][1].version]

\* The rows merged from the parts.
LEMMA LastRows ==
  ASSUME Inv, NEW e \in Envs, EnvRecv(e), ~(Len(EnvGot(e)) < Len(EnvSrcs(e))), NEW k, k = Now, NEW x, x = PosOf(k, env[e])
  PROVE  /\ Rows(FlattenSeq(EnvGot(e)), k, x, e, Labels(e))
         /\ \A y \in 1..PE : \E i \in 1..Len(EnvSrcs(e)) : IsRowOf(y, e, i)
<1> DEFINE got == EnvGot(e)
           vs == Labels(e)
<1>0. cfg \in Configs /\ Len(EnvSrcs(e)) \in Nat \ {0} BY EnvHas
<1>1. k \in Kinds /\ Busy(k, env[e]) BY EnvRecvIs DEF EnvTakes
<1>2. x \in Nat BY <1>1, PosSent
<1>3. ASSUME NEW i \in 1..Len(EnvSrcs(e))
      PROVE  /\ vs[i] \in Int /\ got[i] = Answer(k, x, e, EnvSrcs(e)[i], vs[i])
             /\ Len(got) = Len(EnvSrcs(e))
  <2> DEFINE r == EnvSrcs(e)[i]
             h == got[i]
             t == res'[k][<<r, e>>]
             s == SentOf(k, env[e], prefetched[e])
             gs == Going(k, e, r, k, rollout[r], obs[k][<<e, r>>])
  <2>1. r \in Rollouts /\ Near(e, r) /\ i = Of(e, r) BY <1>0, EnvSources
  <2>2. Answered(e, r, k, x, s, h, t, gs) /\ Len(got) = Len(EnvSrcs(e)) BY <2>1, LastPart
  <2>3. vs[i] = h[1].version BY DEF Labels
  <2> HIDE DEF r, h, t, s, gs, got, vs
  <2>4. vs[i] \in Int /\ h = Answer(k, x, e, r, vs[i]) BY <2>2, <2>3 DEF Answered
  <2> QED BY <2>2, <2>4 DEF h, r
<1>4. Len(got) = Len(EnvSrcs(e))
  <2>1. 1 \in 1..Len(EnvSrcs(e)) BY <1>0
  <2> QED BY <1>3, <2>1
<1> HIDE DEF got, vs
<1>5. ResParts(got, k, x, e, vs) BY <1>3, <1>4 DEF ResParts
<1>6. Rows(FlattenSeq(got), k, x, e, vs) /\ \A y \in 1..PE : \E i \in 1..Len(EnvSrcs(e)) : IsRowOf(y, e, i)
  BY <1>0, <1>1, <1>2, <1>5, ResMerged
<1> QED BY <1>6 DEF got, vs

\* The observation that is sent next.
LEMMA NextSent ==
  ASSUME Inv, NEW e \in Envs, EnvRecv(e), ~(Len(EnvGot(e)) < Len(EnvSrcs(e))), NEW k, k = Now,
         NEW sends, sends = SendsNext(k, env[e].epoch, env[e].i), NEW x, x = PosOf(k, env[e])
  PROVE  /\ obs' \in ObsType
         /\ \A kk \in Kinds, ee \in Envs, r \in Rollouts :
              ~sends \/ kk # k \/ ee # e \/ ~Near(ee, r) => obs'[kk][<<ee, r>>] = obs[kk][<<ee, r>>]
         /\ sends => \A r \in Rollouts : Near(e, r) =>
              Grown(obs'[k][<<e, r>>], obs[k][<<e, r>>], 1, k, x + Stages, e, r)
         /\ Stage(env[e].i) = x % Stages /\ Number(k, env[e].epoch, env[e].i) = x \div Stages
<1> DEFINE me == env[e]
           n == Number(k, me.epoch, me.i)
           z == x + Stages
<1>0. cfg \in Configs /\ me \in EnvSet /\ obs \in ObsType BY EnvHas
<1>1. k \in Kinds /\ Busy(k, me) /\ me.kind = k /\ me.pc = "recv" BY EnvRecvIs DEF EnvTakes
<1>2. x \in Nat /\ Stages \in Nat BY <1>1, PosSent
<1>3. obs' = IF sends THEN Split(obs, k, e, EnvDsts(e), Observation(k, e, Stage(me.i), n + 1)) ELSE obs
  BY <1>1 DEF EnvRecv, EnvKey, EnvGot
<1>4. me.epoch \in Nat /\ me.i \in Nat BY <1>0 DEF EnvSet
<1>5. x = Base(k, me.epoch) + me.i BY <1>1 DEF PosOf
<1>6. /\ Stage(me.i) = x % Stages /\ n = x \div Stages
      /\ Stage(me.i) = z % Stages /\ n + 1 = z \div Stages
  <2> DEFINE i == me.i
             ep == me.epoch
  <2>1. i \in Nat /\ ep \in Nat /\ x = Base(k, ep) + i BY <1>4, <1>5
  <2>2. n = Number(k, ep, i) OBVIOUS
  <2> HIDE DEF i, ep, n
  <2>3. /\ Stage(i) = x % Stages /\ Number(k, ep, i) = x \div Stages
        /\ Stage(i) = (x + Stages) % Stages /\ Number(k, ep, i) + 1 = (x + Stages) \div Stages
    BY <1>0, <1>1, <2>1, BatchIs
  <2> QED BY <2>2, <2>3 DEF i
<1>7. z \in Nat BY <1>2
<1>8. CASE sends
  <2>1. obs' = Split(obs, k, e, EnvDsts(e), Observation(k, e, z % Stages, z \div Stages)) BY <1>3, <1>6, <1>8
  <2> HIDE DEF z
  <2>2. ObsSent(obs', obs, k, z, e) BY <1>0, <1>1, <1>7, <2>1, ObsSplit
  <2>3. obs' \in ObsType BY <2>2 DEF ObsSent
  <2>4. \A kk \in Kinds, ee \in Envs, r \in Rollouts :
          kk # k \/ ee # e \/ ~Near(ee, r) => obs'[kk][<<ee, r>>] = obs[kk][<<ee, r>>]
    BY <2>2 DEF ObsSent
  <2>5. ASSUME NEW r \in Rollouts, Near(e, r) PROVE Grown(obs'[k][<<e, r>>], obs[k][<<e, r>>], 1, k, z, e, r)
    <3> DEFINE q == obs[k][<<e, r>>]
               q2 == obs'[k][<<e, r>>]
               p == Piece(k, z, e, r)
               C == Seq(CellSet)
    <3>1. q2 = Append(q, p) BY <1>1, <2>2, <2>5 DEF ObsSent
    <3>2. q \in Seq(C) /\ p \in C BY <1>0, <1>1, <1>7, <2>5, QueueTypes, PieceType
    <3>3. z + 1 - 1 = z BY <1>7
    <3> HIDE DEF q, q2, p, C
    <3>4. q2 \in Seq(C) /\ Len(q2) = Len(q) + 1 /\ (\A j \in 1..Len(q) : q2[j] = q[j]) /\ q2[Len(q) + 1] = p
      BY <3>1, <3>2
    <3>5. \A j \in 1..1 : q2[Len(q) + j] = Piece(k, z + j - 1, e, r)
      <4>1. \A j \in 1..1 : j = 1 OBVIOUS
      <4> QED BY <3>3, <3>4, <4>1 DEF p
    <3>6. Grown(q2, q, 1, k, z, e, r) BY <3>4, <3>5 DEF Grown, C
    <3> QED BY <3>6 DEF q, q2
  <2> QED BY <1>6, <1>8, <2>3, <2>4, <2>5 DEF z
<1>9. CASE ~sends BY <1>0, <1>3, <1>6, <1>9
<1> QED BY <1>8, <1>9

LabelledBy(e, r, b, h) == \A y \in 1..PE : IsRowOf(y, e, Of(e, r)) => b.rows[y].version = h[1].version

JoinsResults(e, r, fresh, bs, b, t, v) ==
  /\ Ordered(e, r, fresh, Append(bs, b), t, v)
  /\ \A l \in DOMAIN bs : \A y \in 1..PE : IsRowOf(y, e, Of(e, r)) => Older(bs[l].rows[y].version, b.rows[y].version)

\* A batch of results leaves the way and joins the results.
LEMMA OrderedDrops ==
  ASSUME NEW e, NEW r, NEW S, NEW bs \in Seq(S), NEW b \in S, NEW T, NEW h \in T, NEW t \in Seq(T), NEW v, NEW cs, cs = <<h>> \o t,
         Ordered(e, r, TRUE, bs, cs, v), LabelledBy(e, r, b, h), NEW fresh
  PROVE  JoinsResults(e, r, fresh, bs, b, t, v)
<1> DEFINE b2 == Append(bs, b)
           Is(y) == IsRowOf(y, e, Of(e, r))
<1>1. /\ \A j \in 1..Len(cs) : Older(cs[j][1].version, v)
      /\ \A j, m \in 1..Len(cs) : j < m => Older(cs[j][1].version, cs[m][1].version)
      /\ \A l \in DOMAIN bs : \A y \in 1..PE : Is(y) =>
           /\ Older(bs[l].rows[y].version, v)
           /\ \A j \in 1..Len(cs) : Older(bs[l].rows[y].version, cs[j][1].version)
  BY DEF Ordered
<1>2. Len(t) \in Nat /\ Len(cs) = Len(t) + 1 /\ cs[1] = h /\ \A j \in 1..Len(t) : cs[j + 1] = t[j] OBVIOUS
<1>3. /\ b2 \in Seq(S) /\ Len(b2) = Len(bs) + 1 /\ b2[Len(bs) + 1] = b /\ \A l \in 1..Len(bs) : b2[l] = bs[l]
      /\ Len(bs) \in Nat /\ DOMAIN bs = 1..Len(bs) /\ DOMAIN b2 = 1..Len(b2)
  OBVIOUS
<1>4. \A y \in 1..PE : Is(y) => b.rows[y].version = h[1].version BY DEF LabelledBy
<1> HIDE DEF b2, Is
<1>5. 1 \in 1..Len(cs) /\ \A j \in 1..Len(t) : j + 1 \in 1..Len(cs) /\ 1 < j + 1 BY <1>2
<1>6. \A j \in 1..Len(t) : Older(t[j][1].version, v)
  <2> TAKE j \in 1..Len(t)
  <2>1. j + 1 \in 1..Len(cs) /\ cs[j + 1] = t[j] BY <1>2, <1>5
  <2>2. Older(cs[j + 1][1].version, v) BY <1>1, <2>1
  <2> QED BY <2>1, <2>2
<1>7. \A j, m \in 1..Len(t) : j < m => Older(t[j][1].version, t[m][1].version)
  <2> SUFFICES ASSUME NEW j \in 1..Len(t), NEW m \in 1..Len(t), j < m PROVE Older(t[j][1].version, t[m][1].version)
    OBVIOUS
  <2>1. j + 1 \in 1..Len(cs) /\ m + 1 \in 1..Len(cs) /\ j + 1 < m + 1 /\ cs[j + 1] = t[j] /\ cs[m + 1] = t[m] BY <1>2, <1>5
  <2>2. Older(cs[j + 1][1].version, cs[m + 1][1].version) BY <1>1, <2>1
  <2> QED BY <2>1, <2>2
<1>8. \A l \in DOMAIN bs : \A y \in 1..PE : Is(y) => Older(bs[l].rows[y].version, b.rows[y].version)
  BY <1>1, <1>2, <1>4, <1>5
<1>9. ASSUME NEW l \in DOMAIN b2, NEW y \in 1..PE, Is(y)
      PROVE  /\ Older(b2[l].rows[y].version, v)
             /\ \A j \in 1..Len(t) : Older(b2[l].rows[y].version, t[j][1].version)
  <2>1. CASE l \in DOMAIN bs
    <3>1. b2[l] = bs[l] BY <1>3, <2>1
    <3>2. Older(bs[l].rows[y].version, v) BY <1>1, <1>9, <2>1
    <3>3. ASSUME NEW j \in 1..Len(t) PROVE Older(bs[l].rows[y].version, t[j][1].version)
      <4>1. j + 1 \in 1..Len(cs) /\ cs[j + 1] = t[j] BY <1>2, <1>5
      <4>2. Older(bs[l].rows[y].version, cs[j + 1][1].version) BY <1>1, <1>9, <2>1, <4>1
      <4> QED BY <4>1, <4>2
    <3> QED BY <3>1, <3>2, <3>3
  <2>2. CASE l \notin DOMAIN bs
    <3>1. b2[l] = b BY <1>3, <2>2
    <3>2. b.rows[y].version = h[1].version BY <1>4, <1>9
    <3>3. Older(cs[1][1].version, v) BY <1>1, <1>5
    <3>4. ASSUME NEW j \in 1..Len(t) PROVE Older(h[1].version, t[j][1].version)
      <4>1. j + 1 \in 1..Len(cs) /\ cs[j + 1] = t[j] /\ 1 < j + 1 BY <1>2, <1>5
      <4>2. Older(cs[1][1].version, cs[j + 1][1].version) BY <1>1, <1>5, <4>1
      <4> QED BY <4>1, <4>2, <1>2
    <3> QED BY <3>1, <3>2, <3>3, <3>4, <1>2
  <2> QED BY <2>1, <2>2
<1>10. Ordered(e, r, fresh, b2, t, v)
  BY <1>6, <1>7, <1>9 DEF Ordered, Is
<1> QED BY <1>8, <1>10 DEF b2, Is, JoinsResults

\* Where the env worker goes on.
Advanced(e, k, me, pre, x, s, d) ==
  /\ me \in EnvSet /\ me.got = <<>>
  /\ me.pc # "prefetch"
  /\ Busy(k, me) \/ (me.pc = "idle" /\ ~cfg.async)
  /\ \/ PosOf(k, me) = x + 1 /\ SentOf(k, me, pre) = s + d
     \/ /\ cfg.async /\ PosOf(k, me) = 0 /\ SentOf(k, me, pre) = 0
        /\ d = 0 /\ s = x + 1 /\ x + 1 = RolloutPositions(k)

\* Where an env worker goes on, and what it has sent then.
LEMMA AdvancedIs ==
  ASSUME Inv, NEW e \in Envs, NEW k, k = Now, Busy(k, env[e]), env[e].pc = "recv", NEW pre, k = "train" => ~pre,
         NEW x, x = PosOf(k, env[e]), NEW s, s = SentOf(k, env[e], pre),
         NEW d, d = IF SendsNext(k, env[e].epoch, env[e].i) THEN 1 ELSE 0
  PROVE  Advanced(e, k, Advance(e), pre, x, s, d) /\ (d = 1 => s = x + Stages)
<1> DEFINE me == Advance(e)
<1>1. cfg \in Configs /\ k \in Kinds BY EnvHas DEF Busy, EnvSet
<1>2. me \in EnvSet /\ me.kind = k /\ me.got = <<>> BY <1>1, AdvanceIs
<1>3. x \in Nat /\ RolloutPositions(k) \in Nat /\ x < RolloutPositions(k) /\ s \in Nat
  <2>1. SentOf(k, env[e], pre) \in Nat
    BY <1>1, SentRange
  <2> QED BY <2>1, PosSent
<1>4. /\ x + 1 < RolloutPositions(k) => Busy(k, me) /\ PosOf(k, me) = x + 1 /\ SentOf(k, me, pre) = s + d
      /\ x + 1 = RolloutPositions(k) =>
           /\ d = 0 /\ s = RolloutPositions(k)
           /\ me.pc = IF cfg.async THEN "boot" ELSE "idle"
           /\ cfg.async /\ k = "train" => Busy(k, me) /\ PosOf(k, me) = 0 /\ SentOf(k, me, pre) = 0
      /\ d = 1 => s = x + Stages
  <2>1. /\ x + 1 < RolloutPositions(k) =>
              /\ Busy(k, Advance(e)) /\ PosOf(k, Advance(e)) = x + 1
              /\ SentOf(k, Advance(e), pre) = s + (IF SendsNext(k, env[e].epoch, env[e].i) THEN 1 ELSE 0)
        /\ x + 1 = RolloutPositions(k) =>
              /\ ~SendsNext(k, env[e].epoch, env[e].i) /\ s = RolloutPositions(k)
              /\ Advance(e).epoch = 0 /\ Advance(e).i = 0
              /\ Advance(e).pc = IF cfg.async THEN "boot" ELSE "idle"
              /\ cfg.async /\ k = "train" =>
                   Busy(k, Advance(e)) /\ PosOf(k, Advance(e)) = 0 /\ SentOf(k, Advance(e), pre) = 0
        /\ SendsNext(k, env[e].epoch, env[e].i) => s = x + Stages
    BY <1>1, AdvanceMoves
  <2> QED BY <2>1
<1>5. cfg.async => k = "train" BY DEF Now
<1>6. Busy(k, me) => me.pc # "prefetch" BY DEF Busy
<1>7. me.pc = "idle" => PosOf(k, me) = RolloutPositions(k) /\ SentOf(k, me, pre) = RolloutPositions(k)
  BY DEF PosOf, SentOf
<1> HIDE DEF me
<1>8. CASE x + 1 < RolloutPositions(k)
  BY <1>2, <1>4, <1>6, <1>8 DEF Advanced, me
<1>9. CASE x + 1 = RolloutPositions(k)
  <2>1. CASE cfg.async BY <1>2, <1>4, <1>5, <1>6, <1>9, <2>1 DEF Advanced, me
  <2>2. CASE ~cfg.async
    <3>1. me.pc = "idle" /\ d = 0 /\ s = x + 1 BY <1>4, <1>9, <2>2
    <3>2. PosOf(k, me) = x + 1 /\ SentOf(k, me, pre) = s + d BY <1>3, <1>7, <1>9, <3>1
    <3> QED BY <1>2, <1>4, <2>2, <3>1, <3>2 DEF Advanced, me
  <2> QED BY <2>1, <2>2
<1> QED BY <1>3, <1>8, <1>9

\* The pair of e and r after the last part.
LEMMA LastPair ==
  ASSUME Inv, NEW e \in Envs, NEW r \in Rollouts, Near(e, r), NEW k, k = Now, Busy(k, env[e]),
         NEW me, NEW pre, NEW x \in Nat, NEW s \in Nat, NEW d \in {0, 1}, Advanced(e, k, me, pre, x, s, d),
         NEW h, NEW t, NEW gs, Answered(e, r, k, x, s, h, t, gs), NEW g2, Grown(g2, gs, d, k, s, e, r), d = 0 => g2 = gs
  PROVE  PairIs(k, e, r, k, PosOf(k, me), SentOf(k, me, pre), rollout[r], t, g2)
<1>0. cfg \in Configs /\ k \in Kinds BY EnvHas DEF Busy, EnvSet
<1>1. /\ PairIs(k, e, r, k, x + 1, s, rollout[r], t, gs) /\ (s = x + 1 => t = <<>> /\ gs = <<>>)
  BY DEF Answered
<1>2. CASE PosOf(k, me) = x + 1 /\ SentOf(k, me, pre) = s + d
  <2> DEFINE z == x + 1
             ro == rollout[r]
  <2>1. z \in Nat /\ d \in Nat /\ PairIs(k, e, r, k, z, s, ro, t, gs) BY <1>1
  <2> HIDE DEF z, ro
  <2>2. PairIs(k, e, r, k, z, s + d, ro, t, g2) BY <1>0, <2>1, PairGrows
  <2> QED BY <1>2, <2>2 DEF z, ro
<1>3. CASE ~(PosOf(k, me) = x + 1 /\ SentOf(k, me, pre) = s + d)
  <2>1. /\ cfg.async /\ PosOf(k, me) = 0 /\ SentOf(k, me, pre) = 0
        /\ d = 0 /\ s = x + 1 /\ x + 1 = RolloutPositions(k)
    BY <1>3 DEF Advanced
  <2>2. t = <<>> /\ g2 = <<>> BY <1>1, <2>1
  <2>3. IsAt(k, rollout[r], x + 1)
    <3>1. Len(t) = 0 BY <2>2
    <3>2. IsAt(k, rollout[r], x + 1 + Len(t)) BY <1>1 DEF PairIs
    <3>3. x + 1 + 0 = x + 1 OBVIOUS
    <3> QED BY <3>1, <3>2, <3>3
  <2>4. rollout[r].i = 0 BY <1>0, <2>1, <2>3, PositionsType DEF IsAt
  <2>5. rollout[r].pc # "idle" 
    <3>1. RolloutIs(r, k, rollout[r]) /\ k # "none" BY <1>0, PairHas DEF Kinds
    <3> QED BY <2>1, <3>1 DEF RolloutIs
  <2>6. IsAt(k, rollout[r], 0)
    <3>1. 0 < RolloutPositions(k) BY <2>1
    <3> QED BY <2>4, <2>5, <3>1 DEF IsAt
  <2>7. PairIs(k, e, r, k, 0, 0, rollout[r], <<>>, <<>>) BY <1>0, <2>6, PairEmpty
  <2> QED BY <2>1, <2>2, <2>7
<1> QED BY <1>2, <1>3

\* Receiving the part that completes the batch keeps the invariant.
LEMMA RecvAllInv ==
  ASSUME Inv, NEW e \in Envs, EnvRecv(e), ~(Len(EnvGot(e)) < Len(EnvSrcs(e)))
  PROVE  Inv' /\ (VInv => VInv')
<1> DEFINE k == Now
           got == EnvGot(e)
           me == Advance(e)
           pre == prefetched[e]
           x == PosOf(k, env[e])
           s == SentOf(k, env[e], pre)
           sends == SendsNext(k, env[e].epoch, env[e].i)
           d == IF sends THEN 1 ELSE 0
           rows == FlattenSeq(got)
           b == [kind |-> k, stage |-> Stage(env[e].i), n |-> Number(k, env[e].epoch, env[e].i), rows |-> rows]
<1>0. /\ cfg \in Configs /\ env[e] \in EnvSet /\ prefetched[e] \in BOOLEAN
      /\ EnvIs(e, Now, env[e]) /\ PrefetchIs(runner, env[e], prefetched[e])
      /\ obs \in ObsType /\ res \in ResType /\ results \in [Envs -> Seq(ResultSet)]
      /\ env \in [Envs -> EnvSet] /\ prefetched \in [Envs -> BOOLEAN]
      /\ AllRowsOK(results[e], e) /\ Len(EnvSrcs(e)) \in Nat \ {0}
  BY EnvHas
<1>1. /\ k \in Kinds /\ k # "none" /\ Busy(k, env[e]) /\ env[e].kind = k /\ env[e].pc = "recv"
      /\ (k = "train" => ~pre)
      /\ res' \in ResType
      /\ \A kk \in Kinds, ee \in Envs, r \in Rollouts :
           kk # k \/ ee # e \/ ~Near(ee, r) => res'[kk][<<r, ee>>] = res[kk][<<r, ee>>]
  BY EnvRecvIs DEF EnvTakes
<1>2. /\ env' = [env EXCEPT ![e] = me]
      /\ results' = [results EXCEPT ![e] = Append(@, b)]
      /\ cfg' = cfg /\ runner' = runner /\ rollout' = rollout /\ version' = version /\ prefetched' = prefetched
  BY <1>1 DEF EnvRecv, EnvKey, EnvGot
<1>3. x \in Nat /\ s \in Nat /\ Stages \in Nat BY <1>1, PosSent
<1>4. Advanced(e, k, me, pre, x, s, d) /\ (d = 1 => s = x + Stages) BY <1>1, AdvancedIs
<1>5. /\ obs' \in ObsType
      /\ \A kk \in Kinds, ee \in Envs, r \in Rollouts :
           ~sends \/ kk # k \/ ee # e \/ ~Near(ee, r) => obs'[kk][<<ee, r>>] = obs[kk][<<ee, r>>]
      /\ sends => \A r \in Rollouts : Near(e, r) =>
           Grown(obs'[k][<<e, r>>], obs[k][<<e, r>>], 1, k, x + Stages, e, r)
      /\ b.stage = x % Stages /\ b.n = x \div Stages /\ b.kind = k /\ b.rows = rows
  BY NextSent
<1>6. /\ Rows(rows, k, x, e, Labels(e)) /\ \A y \in 1..PE : \E i \in 1..Len(EnvSrcs(e)) : IsRowOf(y, e, i)
  BY LastRows
<1>7. me \in EnvSet /\ me.got = <<>> /\ me.pc # "prefetch" /\ (Busy(k, me) \/ (me.pc = "idle" /\ ~cfg.async))
  BY <1>4 DEF Advanced
<1>8. b \in ResultSet
  <2>1. rows \in Seq(LabelledSet) BY <1>6 DEF Rows
  <2>2. Stage(env[e].i) \in Nat /\ Number(k, env[e].epoch, env[e].i) \in Nat
    <3>1. b.stage = Stage(env[e].i) /\ b.n = Number(k, env[e].epoch, env[e].i) OBVIOUS
    <3>2. Stages \in Nat \ {0} BY <1>0, <1>1, PositionsType
    <3>3. x % Stages \in Nat /\ x \div Stages \in Nat BY <1>3, <3>2
    <3> QED BY <1>5, <3>1, <3>3
  <2> QED BY <1>1, <2>1, <2>2 DEF ResultSet
<1>9. d \in {0, 1} /\ (sends <=> d = 1) OBVIOUS
<1>10. prefetched' = [prefetched EXCEPT ![e] = pre] BY <1>0, <1>2
<1> HIDE DEF k, got, me, pre, x, s, sends, d, rows, b
<1>11. EnvIs(e, Now, me)
  BY <1>0, <1>1, <1>7 DEF EnvIs, k
<1>12. PrefetchIs(runner, me, pre)
  BY <1>0, <1>1, <1>7 DEF PrefetchIs, pre
<1>13. EnvMoves(e, me, pre) BY <1>0, <1>2, <1>7, <1>10, <1>11, <1>12 DEF EnvMoves, pre
<1>14. /\ results' \in [Envs -> Seq(ResultSet)] /\ \A ee \in Envs : ee # e => results'[ee] = results[ee]
       /\ results'[e] = Append(results[e], b) /\ results[e] \in Seq(ResultSet)
  BY <1>0, <1>2, <1>8
<1>15. OnlyEnv(e)
  BY <1>1, <1>2, <1>5, <1>14 DEF OnlyEnv
<1>16. AllRowsOK(results'[e], e)
  <2>1. RowsOK(b.rows, b.kind, b.stage, b.n, e)
    BY <1>5, <1>6 DEF RowsOK, Rows, Whole, CellAt
  <2> DEFINE bs == results[e]
  <2>2. bs \in Seq(ResultSet) /\ AllRowsOK(bs, e) BY <1>0, <1>14
  <2> HIDE DEF bs
  <2>3. ASSUME NEW l \in DOMAIN Append(bs, b)
        PROVE  RowsOK(Append(bs, b)[l].rows, Append(bs, b)[l].kind, Append(bs, b)[l].stage, Append(bs, b)[l].n, e)
    <3>1. CASE l \in DOMAIN bs
      <4>1. Append(bs, b)[l] = bs[l] BY <1>8, <2>2, <3>1
      <4> QED BY <2>2, <3>1, <4>1 DEF AllRowsOK
    <3>2. CASE l \notin DOMAIN bs
      <4>1. Append(bs, b)[l] = b BY <1>8, <2>2, <2>3, <3>2
      <4> QED BY <2>1, <4>1
    <3> QED BY <3>1, <3>2
  <2> QED BY <1>14, <2>3 DEF AllRowsOK, bs
<1>17. ASSUME NEW r \in Rollouts, Near(e, r)
       PROVE  Answered(e, r, k, x, s, got[Of(e, r)], res'[k][<<r, e>>], Going(k, e, r, k, rollout[r], obs[k][<<e, r>>]))
  BY <1>17, LastPart DEF k, x, s, pre, got
<1>18. PairsNext(e, me, pre)
  <2> SUFFICES ASSUME NEW kk \in Kinds, NEW r \in Rollouts, Near(e, r)
               PROVE  PairOK(kk, e, r, Now, me, pre, rollout[r], obs'[kk][<<e, r>>], res'[kk][<<r, e>>])
    BY DEF PairsNext
  <2>1. CASE kk # k
    <3>1. kk # Now /\ res'[kk][<<r, e>>] = res[kk][<<r, e>>] /\ obs'[kk][<<e, r>>] = obs[kk][<<e, r>>]
      BY <1>1, <1>5, <2>1 DEF k
    <3>2. PairOK(kk, e, r, Now, env[e], pre, rollout[r], obs[kk][<<e, r>>], res[kk][<<r, e>>]) BY PairHas DEF pre
    <3> QED BY <3>1, <3>2, Unaffected
  <2>2. CASE kk = k
    <3> DEFINE h == got[Of(e, r)]
               t == res'[k][<<r, e>>]
               q == obs[k][<<e, r>>]
               q2 == obs'[k][<<e, r>>]
               gs == Going(k, e, r, k, rollout[r], q)
               g2 == Going(k, e, r, k, rollout[r], q2)
               p == TakenPart(k, k, rollout[r].got, By(r, e))
    <3>1. Answered(e, r, k, x, s, h, t, gs) BY <1>17
    <3>2. t \in Seq(Seq(LabelledSet)) BY <3>1 DEF Answered
    <3>3. q \in Seq(Seq(CellSet)) /\ p \in Seq(Seq(CellSet)) /\ Of(e, r) \in Nat \ {0}
      <4>1. /\ q \in Seq(Seq(CellSet)) /\ By(r, e) \in Nat \ {0} /\ rollout[r] \in RolloutSet /\ Of(e, r) \in Nat \ {0}
        BY <1>1, PairHas
      <4>2. rollout[r].got \in Seq(Seq(CellSet)) BY <4>1 DEF RolloutSet
      <4> QED BY <4>1, <4>2, PartType
    <3>4. gs = p \o q /\ g2 = p \o q2 BY DEF Going
    <3>5. Coming(k, e, r, k, me, t) = t
      <4>1. Coming(k, e, r, k, me, t) = TakenPart(k, k, <<>>, Of(e, r)) \o t BY <1>7 DEF Coming
      <4> HIDE DEF t
      <4> QED BY <3>2, <3>3, <4>1, NoneTaken
    <3>6. d = 0 => q2 = q BY <1>1, <1>5, <1>9
    <3>7. d = 1 => Grown(q2, q, 1, k, s, e, r) BY <1>4, <1>5, <1>9
    <3>8. k = Now BY DEF k
    <3> HIDE DEF h, t, q, q2, gs, g2, p
    <3>9. Grown(g2, gs, d, k, s, e, r)
      <4>1. CASE d = 0
        <5>1. g2 = gs /\ gs \in Seq(Seq(CellSet)) BY <3>3, <3>4, <3>6, <4>1, ConcatIs
        <5> QED BY <4>1, <5>1 DEF Grown
      <4>2. CASE d = 1 BY <3>3, <3>4, <3>7, <4>2, GoingGrown
      <4> QED BY <1>9, <4>1, <4>2
    <3>10. d = 0 => g2 = gs BY <3>4, <3>6
    <3>11. PairIs(k, e, r, k, PosOf(k, me), SentOf(k, me, pre), rollout[r], t, g2)
      BY <1>1, <1>3, <1>4, <1>9, <3>1, <3>8, <3>9, <3>10, LastPair
    <3>12. PairOK(k, e, r, Now, me, pre, rollout[r], q2, t)
      BY <3>5, <3>8, <3>11, Affected DEF g2
    <3> QED BY <2>2, <3>12 DEF q2, t
  <2> QED BY <2>1, <2>2
<1>19. Inv' BY <1>13, <1>15, <1>16, <1>18, EnvStepInv
<1>20. ASSUME VInv PROVE VInv'
  <2> DEFINE bs == results[e]
             b2 == Append(bs, b)
  <2>0. bs \in Seq(ResultSet) /\ results'[e] = b2 /\ b2 \in Seq(ResultSet) /\ Len(b2) = Len(bs) + 1
        /\ (\A l \in 1..Len(bs) : b2[l] = bs[l]) /\ b2[Len(bs) + 1] = b
    BY <1>8, <1>14
  <2>1. ASSUME NEW r \in Rollouts, Near(e, r)
        PROVE  /\ Ordered(e, r, Fresh(Now, me), b2, res'[k][<<r, e>>], version[r])
               /\ \A l \in DOMAIN bs : \A y \in 1..PE :
                    IsRowOf(y, e, Of(e, r)) => Older(bs[l].rows[y].version, b.rows[y].version)
    <3> DEFINE h == got[Of(e, r)]
               t == res'[k][<<r, e>>]
               cs == Coming(k, e, r, k, env[e], res[k][<<r, e>>])
               fresh == Fresh(Now, me)
               v == version[r]
               T == Seq(LabelledSet)
               S == ResultSet
               gs == Going(k, e, r, k, rollout[r], obs[k][<<e, r>>])
    <3>1. Answered(e, r, k, x, s, h, t, gs) BY <1>17, <2>1
    <3>2. cs = <<h>> \o t /\ h \in Seq(LabelledSet) /\ t \in Seq(Seq(LabelledSet)) BY <3>1 DEF Answered
    <3>3. Ordered(e, r, Fresh(Now, env[e]), bs, cs, v) BY <1>1, <1>20, <2>1 DEF VInv, VersionsOK, k
    <3>4. Fresh(Now, env[e]) = TRUE BY <1>1 DEF Fresh, k
    <3>5. \A y \in 1..PE : IsRowOf(y, e, Of(e, r)) => b.rows[y].version = h[1].version
      <4>1. Of(e, r) \in 1..Len(EnvSrcs(e)) BY <1>1, <2>1, PairHas
      <4>2. Labels(e)[Of(e, r)] = h[1].version BY <4>1 DEF Labels, got
      <4> HIDE DEF h
      <4> QED BY <1>5, <1>6, <4>1, <4>2 DEF Rows
    <3> HIDE DEF h, t, cs, fresh, v, gs, bs, b2
    <3>6. Ordered(e, r, TRUE, bs, cs, v) BY <3>3, <3>4
    <3>a. bs \in Seq(S) /\ b \in S /\ h \in T /\ t \in Seq(T) BY <1>8, <2>0, <3>2
    <3> HIDE DEF T, S
    <3>b. LabelledBy(e, r, b, h) BY <3>5 DEF LabelledBy
    <3>c. JoinsResults(e, r, fresh, bs, b, t, v) BY <3>2, <3>6, <3>a, <3>b, OrderedDrops
    <3>7. /\ Ordered(e, r, fresh, Append(bs, b), t, v)
          /\ \A l \in DOMAIN bs : \A y \in 1..PE : IsRowOf(y, e, Of(e, r)) => Older(bs[l].rows[y].version, b.rows[y].version)
      BY <3>c DEF JoinsResults
    <3> QED BY <3>7 DEF h, t, fresh, v, b2
  <2> HIDE DEF bs, b2
  <2>2. InOrder(results'[e])
    <3>1. InOrder(bs) BY <1>20, PolicyIs DEF VInv, AllInOrder, bs
    <3>2. ASSUME NEW l \in DOMAIN bs, NEW y \in 1..PE PROVE Older(bs[l].rows[y].version, b.rows[y].version)
      <4>1. PICK i \in 1..Len(EnvSrcs(e)) : IsRowOf(y, e, i) BY <1>6
      <4> DEFINE r == EnvSrcs(e)[i]
      <4>2. r \in Rollouts /\ Near(e, r) /\ i = Of(e, r) BY <1>0, EnvSources
      <4> QED BY <2>1, <4>1, <4>2
    <3>3. ASSUME NEW l \in DOMAIN b2, NEW m \in DOMAIN b2, NEW y \in 1..PE, l < m
          PROVE  Older(b2[l].rows[y].version, b2[m].rows[y].version)
      <4>1. l \in DOMAIN bs /\ b2[l] = bs[l] BY <2>0, <3>3
      <4>2. CASE m \in DOMAIN bs
        <5>1. b2[m] = bs[m] BY <2>0, <4>2
        <5> QED BY <3>1, <3>3, <4>1, <4>2, <5>1 DEF InOrder
      <4>3. CASE m \notin DOMAIN bs
        <5>1. b2[m] = b BY <2>0, <4>3
        <5> QED BY <3>2, <4>1, <5>1
      <4> QED BY <4>2, <4>3
    <3> QED BY <2>0, <3>3 DEF InOrder
  <2>3. ComesInOrder(e, me)
    <3> SUFFICES ASSUME NEW r \in Rollouts, Near(e, r)
                 PROVE  Ordered(e, r, Fresh(Now, me), b2, Coming(Now, e, r, Now, me, res'[Now][<<r, e>>]), version[r])
      BY <2>0 DEF ComesInOrder
    <3> DEFINE t == res'[k][<<r, e>>]
    <3>1. t \in Seq(Seq(LabelledSet)) /\ Of(e, r) \in Nat \ {0}
      <4>1. t \in Seq(Seq(LabelledSet)) BY <1>17 DEF Answered
      <4> QED BY <1>1, <4>1, PairHas
    <3>2. Coming(k, e, r, k, me, t) = t
      <4>1. Coming(k, e, r, k, me, t) = TakenPart(k, k, <<>>, Of(e, r)) \o t BY <1>7 DEF Coming
      <4> HIDE DEF t
      <4> QED BY <3>1, <4>1, NoneTaken
    <3>3. Ordered(e, r, Fresh(Now, me), b2, t, version[r]) BY <2>1
    <3> QED BY <3>2, <3>3 DEF k
  <2> QED BY <1>13, <1>15, <1>20, <2>2, <2>3, EnvStepVInv
<1> QED BY <1>19, <1>20

\* Receiving keeps the invariant.
LEMMA EnvRecvInv == ASSUME Inv, NEW e \in Envs, EnvRecv(e) PROVE Inv' /\ (VInv => VInv')
BY RecvPartInv, RecvAllInv

-----------------------------------------------------------------------------
(* The steps of a rollout worker *)

OnlyRollout(r) ==
  /\ cfg' = cfg /\ runner' = runner /\ env' = env /\ prefetched' = prefetched /\ results' = results
  /\ obs' \in ObsType /\ res' \in ResType
  /\ \A k \in Kinds, e \in Envs, q \in Rollouts : q # r \/ ~Near(e, q) =>
       obs'[k][<<e, q>>] = obs[k][<<e, q>>] /\ res'[k][<<q, e>>] = res[k][<<q, e>>]
  /\ version' \in [Rollouts -> Nat] /\ \A q \in Rollouts : q # r => version'[q] = version[q]

RolloutMoves(r, ro) ==
  /\ ro \in RolloutSet /\ rollout' = [rollout EXCEPT ![r] = ro] /\ RolloutIs(r, Now, ro)

RolloutPairsNext(r, ro) ==
  \A k \in Kinds, e \in Envs : Near(e, r) =>
    PairOK(k, e, r, Now, env[e], prefetched[e], ro, obs'[k][<<e, r>>], res'[k][<<r, e>>])

GoesInOrder(r) ==
  \A e \in Envs : Near(e, r) =>
    Ordered(e, r, Fresh(Now, env[e]), results[e], Coming(Now, e, r, Now, env[e], res'[Now][<<r, e>>]), version'[r])

\* A step of one rollout worker keeps the invariant if its own parts are kept.
LEMMA RolloutStepInv ==
  ASSUME Inv, NEW r \in Rollouts, OnlyRollout(r), NEW ro, RolloutMoves(r, ro), RolloutPairsNext(r, ro)
  PROVE  Inv'
<1>0. ro \in RolloutSet /\ rollout' = [rollout EXCEPT ![r] = ro] /\ RolloutIs(r, Now, ro) BY DEF RolloutMoves
<1>1. TypeOK /\ EnvOK /\ RolloutOK /\ Paired /\ Apart /\ ResultsOK BY DEF Inv
<1>2. cfg' = cfg /\ Now' = Now /\ runner' = runner /\ env' = env /\ prefetched' = prefetched /\ results' = results
  BY NowNext DEF OnlyRollout
<1>3. rollout \in [Rollouts -> RolloutSet] BY <1>1 DEF TypeOK
<1>4. rollout'[r] = ro /\ (\A q \in Rollouts : q # r => rollout'[q] = rollout[q]) /\ rollout' \in [Rollouts -> RolloutSet]
  BY <1>0, <1>3
<1>5. TypeOK'
  <2>1. /\ cfg \in Configs
        /\ runner.pc \in (IF cfg.async THEN {"run", "stopping", "done"} ELSE {"start", "rollouts", "train", "eval", "done"})
        /\ runner \in RunnerSet
        /\ env \in [Envs -> EnvSet] /\ prefetched \in [Envs -> BOOLEAN] /\ results \in [Envs -> Seq(ResultSet)]
    BY <1>1 DEF TypeOK
  <2>2. /\ cfg \in Configs
        /\ runner'.pc \in (IF cfg.async THEN {"run", "stopping", "done"} ELSE {"start", "rollouts", "train", "eval", "done"})
        /\ runner' \in RunnerSet
        /\ env' \in [Envs -> EnvSet] /\ prefetched' \in [Envs -> BOOLEAN] /\ results' \in [Envs -> Seq(ResultSet)]
    BY <1>2, <2>1
  <2>3. version' \in [Rollouts -> Nat] /\ obs' \in ObsType /\ res' \in ResType BY DEF OnlyRollout
  <2> QED BY <1>2, <1>4, <2>2, <2>3, TypeNext
<1>6. EnvOK'
  <2>1. \A e \in Envs : EnvIs(e, Now', env'[e]) /\ PrefetchIs(runner', env'[e], prefetched'[e])
    BY <1>1, <1>2 DEF EnvOK
  <2> QED BY <1>2, <2>1, OthersNext
<1>7. RolloutOK'
  <2>1. \A q \in Rollouts : RolloutIs(q, Now', rollout'[q]) BY <1>0, <1>1, <1>2, <1>4 DEF RolloutOK
  <2> QED BY <1>2, <2>1, OthersNext
<1>8. Paired'
  <2>1. ASSUME NEW k \in Kinds, NEW e \in Envs, NEW q \in Rollouts, Near(e, q)
        PROVE  PairOK(k, e, q, Now', env'[e], prefetched'[e], rollout'[q], obs'[k][<<e, q>>], res'[k][<<q, e>>])
    <3>1. CASE q = r BY <2>1, <3>1, <1>2, <1>4 DEF RolloutPairsNext
    <3>2. CASE q # r
      <4>1. obs'[k][<<e, q>>] = obs[k][<<e, q>>] /\ res'[k][<<q, e>>] = res[k][<<q, e>>] BY <3>2 DEF OnlyRollout
      <4>2. PairOK(k, e, q, Now, env[e], prefetched[e], rollout[q], obs[k][<<e, q>>], res[k][<<q, e>>])
        BY <1>1, <2>1 DEF Paired
      <4> QED BY <4>1, <4>2, <1>2, <1>4, <3>2
    <3> QED BY <3>1, <3>2
  <2> QED BY <1>2, <2>1, PairedNext
<1>9. Apart'
  <2>1. \A k \in Kinds, e \in Envs, q \in Rollouts :
          ~Near(e, q) => obs'[k][<<e, q>>] = <<>> /\ res'[k][<<q, e>>] = <<>>
    BY <1>1 DEF Apart, OnlyRollout
  <2> QED BY <1>2, <2>1, OthersNext
<1>10. ResultsOK'
  <2>1. \A e \in Envs : AllRowsOK(results'[e], e) BY <1>1, <1>2 DEF ResultsOK, AllRowsOK
  <2> QED BY <1>2, <2>1, OthersNext DEF AllRowsOK
<1> QED BY <1>5, <1>6, <1>7, <1>8, <1>9, <1>10 DEF Inv

\* It keeps the order of versions if its own answers are in order.
LEMMA RolloutStepVInv ==
  ASSUME Inv, VInv, NEW r \in Rollouts, OnlyRollout(r), Now # "none" => GoesInOrder(r)
  PROVE  VInv'
<1>1. cfg' = cfg /\ Now' = Now /\ env' = env /\ results' = results BY NowNext DEF OnlyRollout
<1>2. \A e \in Envs : InOrder(results'[e]) BY <1>1, PolicyIs DEF VInv, AllInOrder
<1>3. ASSUME NEW e \in Envs, NEW q \in Rollouts, Near(e, q), Now' # "none"
      PROVE  Ordered(e, q, Fresh(Now', env'[e]), results'[e],
                     Coming(Now', e, q, Now', env'[e], res'[Now'][<<q, e>>]), version'[q])
  <2>1. CASE q = r BY <2>1, <1>1, <1>3 DEF GoesInOrder
  <2>2. CASE q # r
    <3>1. Now \in Kinds BY <1>1, <1>3 DEF Now, Kinds
    <3>2. version'[q] = version[q] /\ res'[Now][<<q, e>>] = res[Now][<<q, e>>] BY <2>2, <3>1 DEF OnlyRollout
    <3>3. Ordered(e, q, Fresh(Now, env[e]), results[e], Coming(Now, e, q, Now, env[e], res[Now][<<q, e>>]), version[q])
      BY <1>1, <1>3 DEF VInv, VersionsOK
    <3> QED BY <3>2, <3>3, <1>1
  <2> QED BY <2>1, <2>2
<1>4. VersionsOK' BY <1>1, <1>3, VersionsNext
<1>5. PolicyInOrder' BY <1>1, <1>2, PolicyNext
<1> QED BY <1>4, <1>5 DEF VInv

\* The facts of the invariant about one rollout worker.
LEMMA RolloutHas ==
  ASSUME Inv, NEW r \in Rollouts
  PROVE  /\ cfg \in Configs /\ rollout[r] \in RolloutSet /\ RolloutIs(r, Now, rollout[r])
         /\ obs \in ObsType /\ res \in ResType /\ version[r] \in Nat
         /\ rollout \in [Rollouts -> RolloutSet] /\ version \in [Rollouts -> Nat]
         /\ Len(RolloutSrcs(r)) \in Nat \ {0}
<1>1. cfg \in Configs BY DEF Inv, TypeOK
<1>2. Len(RolloutSrcs(r)) \in Nat \ {0} BY <1>1, RolloutSources
<1>3. RolloutIs(r, Now, rollout[r]) BY DEF Inv, RolloutOK
<1> QED BY <1>1, <1>2, <1>3 DEF Inv, TypeOK

\* The labels on the way and those of the results are integers.
LabelsTyped(bs, cs) ==
  /\ \A j \in 1..Len(cs) : cs[j][1].version \in Int
  /\ \A l \in DOMAIN bs : \A y \in 1..PE : bs[l].rows[y].version \in Int

\* The versions in results and answers are integers.
LEMMA LabelTypes ==
  ASSUME Inv, NEW e \in Envs, NEW r \in Rollouts, Near(e, r), NEW k \in Kinds, k = Now
  PROVE  LabelsTyped(results[e], Coming(k, e, r, k, env[e], res[k][<<r, e>>]))
<1> DEFINE cs == Coming(k, e, r, k, env[e], res[k][<<r, e>>])
           gs == Going(k, e, r, k, rollout[r], obs[k][<<e, r>>])
           pos == Pos(k, k, env[e])
           sent == Sent(k, k, env[e], prefetched[e])
           bs == results[e]
<1>0. /\ cfg \in Configs /\ results \in [Envs -> Seq(ResultSet)] /\ AllRowsOK(results[e], e) BY EnvHas
<1>1. PairOK(k, e, r, k, env[e], prefetched[e], rollout[r], obs[k][<<e, r>>], res[k][<<r, e>>]) BY PairHas
<1>2. Linked(k, e, r, pos, sent, cs, gs) BY <1>1 DEF PairOK, PairIs
<1>3. bs \in Seq(ResultSet) /\ AllRowsOK(bs, e) BY <1>0
<1>4. PE \in Nat \ {0} BY <1>0, ShareType
<1> HIDE DEF cs, gs, pos, sent, bs
<1>5. ASSUME NEW j \in 1..Len(cs) PROVE cs[j][1].version \in Int
  <2> DEFINE h == cs[j]
             v == h[1].version
             x == pos + j - 1
  <2>1. h \in Seq(LabelledSet) /\ h = Answer(k, x, e, r, v) BY <1>2, <1>5 DEF Linked
  <2> HIDE DEF h, v, x
  <2>2. v \in Int BY <1>0, <2>1, VersionType
  <2> QED BY <2>2 DEF v, h
<1>6. ASSUME NEW l \in DOMAIN bs, NEW y \in 1..PE PROVE bs[l].rows[y].version \in Int
  <2> DEFINE rows == bs[l].rows
  <2>1. bs[l] \in ResultSet BY <1>3
  <2>2. rows \in Seq(LabelledSet) /\ Len(rows) = PE BY <1>3, <2>1 DEF ResultSet, AllRowsOK, RowsOK
  <2> HIDE DEF rows
  <2>3. rows[y] \in LabelledSet BY <1>4, <2>2
  <2> QED BY <2>3 DEF LabelledSet, rows
<1> QED BY <1>5, <1>6 DEF LabelsTyped, cs, bs

\* A version that is not newer stays so when the weights are newer.
LEMMA OlderGrows ==
  ASSUME NEW a, NEW v \in Nat, cfg.async, Older(a, v), a \in Int
  PROVE  Older(a, v + 1)
BY DEF Older

\* New weights: of the asynchronous run the labels only fall further behind.
LEMMA SyncInv ==
  ASSUME Inv, NEW r \in Rollouts, RolloutSync(r)
  PROVE  Inv' /\ (VInv => VInv')
<1> DEFINE ro == rollout[r]
<1>0. /\ cfg \in Configs /\ rollout[r] \in RolloutSet /\ RolloutIs(r, Now, rollout[r])
      /\ obs \in ObsType /\ res \in ResType /\ version[r] \in Nat
      /\ rollout \in [Rollouts -> RolloutSet] /\ version \in [Rollouts -> Nat]
  BY RolloutHas
<1>1. /\ runner.pc = "run" /\ version' = [version EXCEPT ![r] = version[r] + 1]
      /\ cfg' = cfg /\ runner' = runner /\ env' = env /\ rollout' = rollout /\ results' = results
      /\ prefetched' = prefetched /\ obs' = obs /\ res' = res
  BY DEF RolloutSync
<1>2. cfg.async BY <1>1 DEF Inv, TypeOK
<1>3. OnlyRollout(r) BY <1>0, <1>1 DEF OnlyRollout
<1>4. RolloutMoves(r, ro) BY <1>0, <1>1 DEF RolloutMoves
<1>5. RolloutPairsNext(r, ro) BY <1>1, PairHas DEF RolloutPairsNext
<1> HIDE DEF ro
<1>6. Inv' BY <1>3, <1>4, <1>5, RolloutStepInv
<1>7. ASSUME VInv PROVE VInv'
  <2>1. ASSUME NEW e \in Envs, Near(e, r), Now # "none"
        PROVE  Ordered(e, r, Fresh(Now, env[e]), results[e], Coming(Now, e, r, Now, env[e], res[Now][<<r, e>>]), version[r] + 1)
    <3> DEFINE cs == Coming(Now, e, r, Now, env[e], res[Now][<<r, e>>])
               bs == results[e]
               v == version[r]
    <3>1. Ordered(e, r, Fresh(Now, env[e]), bs, cs, v) BY <1>7, <2>1 DEF VInv, VersionsOK
    <3> HIDE DEF cs, bs, v
    <3>2. LabelsTyped(bs, cs)
      <4>1. Now \in Kinds BY <2>1 DEF Now, Kinds
      <4> QED BY <2>1, <4>1, LabelTypes DEF bs, cs
    <3>3. v \in Nat BY <1>0 DEF v
    <3>4. \A a \in Int : Older(a, v) => Older(a, v + 1) BY <1>2, <3>3, OlderGrows
    <3>5. Ordered(e, r, Fresh(Now, env[e]), bs, cs, v + 1) BY <3>1, <3>2, <3>4 DEF Ordered, LabelsTyped
    <3> QED BY <3>5 DEF cs, bs, v
  <2>2. version'[r] = version[r] + 1 BY <1>0, <1>1
  <2>3. Now # "none" => GoesInOrder(r) BY <1>1, <2>1, <2>2 DEF GoesInOrder
  <2> QED BY <1>3, <1>7, <2>3, RolloutStepVInv
<1> QED BY <1>6, <1>7

\* The stop of a rollout worker keeps the invariant.
LEMMA RolloutStopInv ==
  ASSUME Inv, NEW r \in Rollouts, RolloutStop(r)
  PROVE  Inv' /\ (VInv => VInv')
<1> DEFINE ro == [rollout[r] EXCEPT !.pc = "stopped"]
<1>0. /\ cfg \in Configs /\ rollout[r] \in RolloutSet /\ RolloutIs(r, Now, rollout[r])
      /\ obs \in ObsType /\ res \in ResType /\ version[r] \in Nat
      /\ rollout \in [Rollouts -> RolloutSet] /\ version \in [Rollouts -> Nat]
  BY RolloutHas
<1>1. /\ runner.pc = "stopping" /\ rollout[r].pc = "recv" /\ rollout' = [rollout EXCEPT ![r] = ro]
      /\ cfg' = cfg /\ runner' = runner /\ env' = env /\ version' = version /\ results' = results
      /\ prefetched' = prefetched /\ obs' = obs /\ res' = res
  BY <1>0 DEF RolloutStop
<1>2. ro \in RolloutSet /\ ro.pc = "stopped" /\ ro.kind = rollout[r].kind /\ ro.i = rollout[r].i /\ ro.got = rollout[r].got
  BY <1>0 DEF RolloutSet
<1> HIDE DEF ro
<1>3. RolloutIs(r, Now, ro) BY <1>0, <1>1, <1>2 DEF RolloutIs
<1>4. OnlyRollout(r) BY <1>0, <1>1 DEF OnlyRollout
<1>5. RolloutMoves(r, ro) BY <1>1, <1>2, <1>3 DEF RolloutMoves
<1>6. RolloutPairsNext(r, ro)
  <2> SUFFICES ASSUME NEW k \in Kinds, NEW e \in Envs, Near(e, r)
               PROVE  PairOK(k, e, r, Now, env[e], prefetched[e], ro, obs[k][<<e, r>>], res[k][<<r, e>>])
    BY <1>1 DEF RolloutPairsNext
  <2>1. PairOK(k, e, r, Now, env[e], prefetched[e], rollout[r], obs[k][<<e, r>>], res[k][<<r, e>>]) BY PairHas
  <2>2. Going(k, e, r, Now, ro, obs[k][<<e, r>>]) = Going(k, e, r, Now, rollout[r], obs[k][<<e, r>>]) BY <1>2 DEF Going
  <2>3. \A y : IsAt(k, rollout[r], y) => IsAt(k, ro, y)
    BY <1>1, <1>2 DEF IsAt, Inv, TypeOK
  <2> QED BY <2>1, <2>2, <2>3 DEF PairOK, PairIs
<1>7. Inv' BY <1>4, <1>5, <1>6, RolloutStepInv
<1>8. ASSUME VInv PROVE VInv'
  <2>1. Now # "none" => GoesInOrder(r) BY <1>1, <1>8 DEF VInv, VersionsOK, GoesInOrder
  <2> QED BY <1>4, <1>8, <2>1, RolloutStepVInv
<1> QED BY <1>7, <1>8

-----------------------------------------------------------------------------
(* A rollout worker receives *)

RolloutKey(r) == <<RolloutSrcs(r)[Len(rollout[r].got) + 1], r>>

RolloutGot(r) == Append(rollout[r].got, Head(obs[rollout[r].kind][RolloutKey(r)]))

RolloutTakes(r, k, L, src, key) ==
  /\ k \in Kinds /\ k # "none" /\ rollout[r].kind = k /\ rollout[r].pc = "recv" /\ rollout[r] \in RolloutSet
  /\ L \in Nat /\ L < Len(RolloutSrcs(r)) /\ rollout[r].got \in Seq(Seq(CellSet))
  /\ src \in Envs /\ Near(src, r)
  /\ key = <<src, r>>
  /\ obs[k][key] # <<>> /\ obs[k][key] \in Seq(Seq(CellSet))
  /\ obs' \in ObsType
  /\ \A kk \in Kinds, e \in Envs, rr \in Rollouts :
       obs'[kk][<<e, rr>>] = IF kk = k /\ rr = r /\ e = src THEN Tail(obs[kk][<<e, rr>>]) ELSE obs[kk][<<e, rr>>]
  /\ \A e \in Envs : Near(e, r) => (e = src <=> By(r, e) = L + 1)

\* What recv_env_output takes, and from where.
LEMMA RolloutRecvIs ==
  ASSUME Inv, NEW r \in Rollouts, RolloutRecv(r)
  PROVE  RolloutTakes(r, Now, Len(rollout[r].got), RolloutSrcs(r)[Len(rollout[r].got) + 1], RolloutKey(r))
<1> DEFINE k == Now
           L == Len(rollout[r].got)
           src == RolloutSrcs(r)[L + 1]
<1>0. /\ cfg \in Configs /\ rollout[r] \in RolloutSet /\ RolloutIs(r, Now, rollout[r]) /\ obs \in ObsType
      /\ Len(RolloutSrcs(r)) \in Nat \ {0}
  BY RolloutHas, Zenon
<1>1. /\ rollout[r].pc = "recv" /\ obs[rollout[r].kind][RolloutKey(r)] # <<>>
      /\ obs' = [obs EXCEPT ![rollout[r].kind][RolloutKey(r)] = Tail(@)]
  BY Zenon DEF RolloutRecv, RolloutKey
<1>2. k \in Kinds /\ k # "none" /\ rollout[r].kind = k
  BY <1>0, <1>1 DEF RolloutIs, Now, Kinds
<1>3. rollout[r].got \in Seq(Seq(CellSet)) /\ L \in Nat /\ L < Len(RolloutSrcs(r)) BY <1>0 DEF RolloutSet, RolloutIs
<1>4. L + 1 \in 1..Len(RolloutSrcs(r)) BY <1>0, <1>3
<1>5. src \in Envs /\ Near(src, r) /\ \A e \in Envs : src = e <=> L + 1 = By(r, e)
  BY <1>0, <1>4, RolloutSources
<1>6. RolloutKey(r) = <<src, r>> BY DEF RolloutKey
<1> HIDE DEF src, k, L
<1>7. obs[k][RolloutKey(r)] \in Seq(Seq(CellSet)) BY <1>0, <1>2, <1>5, <1>6, QueueTypes
<1>8. obs' = [obs EXCEPT ![k][RolloutKey(r)] = Tail(obs[k][RolloutKey(r)])] BY <1>1, <1>2
<1>9. Tail(obs[k][RolloutKey(r)]) \in Seq(Seq(CellSet)) BY <1>1, <1>2, <1>7
<1>10. /\ obs' \in ObsType
       /\ \A kk \in Kinds, e \in Envs, rr \in Rollouts :
            obs'[kk][<<e, rr>>] = IF kk = k /\ e = src /\ rr = r THEN Tail(obs[k][RolloutKey(r)]) ELSE obs[kk][<<e, rr>>]
  <2> DEFINE T == Seq(Seq(CellSet))
             t == Tail(obs[k][RolloutKey(r)])
             new == obs'
  <2>1. obs \in Queues(Kinds, Envs, Rollouts, T) /\ t \in T BY <1>0, <1>9 DEF ObsType, Queues
  <2>2. Replaces(new, obs, k, src, r, t) BY <1>6, <1>8 DEF Replaces
  <2> HIDE DEF T, t, new
  <2>3. new \in Queues(Kinds, Envs, Rollouts, T) /\ Replaced(new, obs, k, src, r, t, Kinds, Envs, Rollouts)
    BY <1>2, <1>5, <2>1, <2>2, QueueReplaced
  <2> QED BY <2>3 DEF T, t, new, ObsType, Queues, Replaced
<1>11. \A kk \in Kinds, e \in Envs, rr \in Rollouts :
         obs'[kk][<<e, rr>>] = IF kk = k /\ rr = r /\ e = src THEN Tail(obs[kk][<<e, rr>>]) ELSE obs[kk][<<e, rr>>]
  <2> SUFFICES ASSUME NEW kk \in Kinds, NEW e \in Envs, NEW rr \in Rollouts
               PROVE  obs'[kk][<<e, rr>>] =
                        IF kk = k /\ rr = r /\ e = src THEN Tail(obs[kk][<<e, rr>>]) ELSE obs[kk][<<e, rr>>]
    BY Zenon
  <2>1. obs'[kk][<<e, rr>>] = IF kk = k /\ e = src /\ rr = r THEN Tail(obs[k][RolloutKey(r)]) ELSE obs[kk][<<e, rr>>]
    BY <1>10, Zenon
  <2>2. RolloutKey(r) = <<src, r>> BY <1>6
  <2> HIDE DEF k, src
  <2>3. CASE kk = k /\ e = src /\ rr = r BY <2>1, <2>2, <2>3, Zenon
  <2>4. CASE ~(kk = k /\ e = src /\ rr = r) BY <2>1, <2>4, Zenon
  <2> QED BY <2>3, <2>4, Zenon
<1>12. \A e \in Envs : Near(e, r) => (e = src <=> By(r, e) = L + 1) BY <1>5
<1> QED BY <1>0, <1>1, <1>2, <1>3, <1>5, <1>6, <1>7, <1>10, <1>11, <1>12, Zenon DEF src, k, L, RolloutTakes

\* Receiving a part that does not complete the batch keeps the invariant.
LEMMA RolloutPartInv ==
  ASSUME Inv, NEW r \in Rollouts, RolloutRecv(r), Len(RolloutGot(r)) < Len(RolloutSrcs(r))
  PROVE  Inv' /\ (VInv => VInv')
<1> DEFINE k == Now
           L == Len(rollout[r].got)
           src == RolloutSrcs(r)[L + 1]
           key == RolloutKey(r)
           got == RolloutGot(r)
           ro == [rollout[r] EXCEPT !.got = got]
<1>0. /\ cfg \in Configs /\ rollout[r] \in RolloutSet /\ RolloutIs(r, Now, rollout[r])
      /\ obs \in ObsType /\ res \in ResType /\ version[r] \in Nat
      /\ rollout \in [Rollouts -> RolloutSet] /\ version \in [Rollouts -> Nat]
      /\ Len(RolloutSrcs(r)) \in Nat \ {0}
  BY RolloutHas
<1>1. /\ rollout' = [rollout EXCEPT ![r].got = got] /\ res' = res
      /\ cfg' = cfg /\ runner' = runner /\ env' = env /\ version' = version /\ prefetched' = prefetched /\ results' = results
  BY DEF RolloutRecv, RolloutKey, RolloutGot
<1>2. /\ k \in Kinds /\ k # "none" /\ rollout[r].kind = k /\ rollout[r].pc = "recv"
      /\ L \in Nat /\ L < Len(RolloutSrcs(r)) /\ rollout[r].got \in Seq(Seq(CellSet))
      /\ src \in Envs /\ Near(src, r)
      /\ key = <<src, r>>
      /\ obs[k][key] # <<>> /\ obs[k][key] \in Seq(Seq(CellSet))
      /\ obs' \in ObsType
      /\ \A kk \in Kinds, e \in Envs, rr \in Rollouts :
           obs'[kk][<<e, rr>>] = IF kk = k /\ rr = r /\ e = src THEN Tail(obs[kk][<<e, rr>>]) ELSE obs[kk][<<e, rr>>]
      /\ \A e \in Envs : Near(e, r) => (e = src <=> By(r, e) = L + 1)
  BY RolloutRecvIs DEF RolloutTakes
<1>3. got = Append(rollout[r].got, Head(obs[k][key])) BY <1>2 DEF RolloutGot
<1>4. got \in Seq(Seq(CellSet)) /\ Len(got) = L + 1 /\ Len(got) < Len(RolloutSrcs(r))
  BY <1>2, <1>3, SeqAppend
<1> HIDE DEF k, L, src, key, got
<1>5. /\ ro \in RolloutSet /\ ro.pc = "recv" /\ ro.kind = k /\ ro.i = rollout[r].i /\ ro.got = got
  BY <1>0, <1>2, <1>4 DEF RolloutSet
<1>6. rollout' = [rollout EXCEPT ![r] = ro] BY <1>0, <1>1
<1> HIDE DEF ro
<1>7. RolloutIs(r, Now, ro) BY <1>0, <1>2, <1>4, <1>5 DEF RolloutIs, k
<1>8. RolloutMoves(r, ro) BY <1>5, <1>6, <1>7 DEF RolloutMoves
<1>9. OnlyRollout(r) BY <1>0, <1>1, <1>2 DEF OnlyRollout
<1>10. ASSUME NEW e \in Envs, Near(e, r)
       PROVE  Going(k, e, r, k, ro, obs'[k][<<e, r>>]) = Going(k, e, r, k, rollout[r], obs[k][<<e, r>>])
  <2> DEFINE i == By(r, e)
             s == obs[k][key]
             g == rollout[r].got
             T == Seq(CellSet)
  <2>1. i \in Nat \ {0} BY <1>2, <1>10, PairHas
  <2>2. s \in Seq(T) /\ s # <<>> /\ g \in Seq(T) /\ L = Len(g) /\ got = Append(g, Head(s))
    BY <1>2, <1>3 DEF L
  <2>3. Going(k, e, r, k, ro, obs'[k][<<e, r>>]) = TakenPart(k, k, got, i) \o obs'[k][<<e, r>>] BY <1>5 DEF Going
  <2>4. Going(k, e, r, k, rollout[r], obs[k][<<e, r>>]) = TakenPart(k, k, g, i) \o obs[k][<<e, r>>] BY DEF Going
  <2>5. CASE e = src
    <3>1. i = L + 1 /\ obs[k][<<e, r>>] = s /\ obs'[k][<<e, r>>] = Tail(s) BY <1>2, <1>10, <2>5
    <3> HIDE DEF i, s, g, T
    <3>a. Keeps(k, g, s, i) BY <2>1, <2>2, Taking
    <3>2. TakenPart(k, k, Append(g, Head(s)), i) \o Tail(s) = TakenPart(k, k, g, i) \o s BY <2>2, <3>1, <3>a DEF Keeps
    <3> QED BY <2>2, <2>3, <2>4, <3>1, <3>2
  <2>6. CASE e # src
    <3>1. i # L + 1 /\ obs'[k][<<e, r>>] = obs[k][<<e, r>>] BY <1>2, <1>10, <2>6
    <3> HIDE DEF i, s, g, T
    <3>a. Keeps(k, g, s, i) BY <2>1, <2>2, Taking
    <3>2. TakenPart(k, k, Append(g, Head(s)), i) = TakenPart(k, k, g, i) BY <2>2, <3>1, <3>a DEF Keeps
    <3> QED BY <2>2, <2>3, <2>4, <3>1, <3>2
  <2> QED BY <2>5, <2>6
<1>11. RolloutPairsNext(r, ro)
  <2> SUFFICES ASSUME NEW kk \in Kinds, NEW e \in Envs, Near(e, r)
               PROVE  PairOK(kk, e, r, Now, env[e], prefetched[e], ro, obs'[kk][<<e, r>>], res[kk][<<r, e>>])
    BY <1>1 DEF RolloutPairsNext
  <2>0. PairOK(kk, e, r, Now, env[e], prefetched[e], rollout[r], obs[kk][<<e, r>>], res[kk][<<r, e>>]) BY PairHas
  <2>1. CASE kk # k
    <3>1. kk # Now /\ obs'[kk][<<e, r>>] = obs[kk][<<e, r>>] BY <1>2, <2>1 DEF k
    <3> QED BY <2>0, <3>1, Unaffected
  <2>2. CASE kk = k
    <3>1. Going(k, e, r, k, ro, obs'[k][<<e, r>>]) = Going(k, e, r, k, rollout[r], obs[k][<<e, r>>]) BY <1>10
    <3>2. k = Now BY DEF k
    <3>3. \A y : IsAt(k, rollout[r], y) => IsAt(k, ro, y) BY <1>2, <1>5 DEF IsAt
    <3> QED BY <2>0, <2>2, <3>1, <3>2, <3>3 DEF PairOK, PairIs
  <2> QED BY <2>1, <2>2
<1>12. Inv' BY <1>8, <1>9, <1>11, RolloutStepInv
<1>13. ASSUME VInv PROVE VInv'
  <2>1. Now # "none" => GoesInOrder(r) BY <1>1, <1>13 DEF VInv, VersionsOK, GoesInOrder
  <2> QED BY <1>9, <1>13, <2>1, RolloutStepVInv
<1> QED BY <1>12, <1>13

\* How far the env worker of a call is, busy or back.
LEMMA PosSentNow ==
  ASSUME Inv, NEW e \in Envs, NEW k \in Kinds, k = Now
  PROVE  /\ PosOf(k, env[e]) \in Nat /\ SentOf(k, env[e], prefetched[e]) \in Nat
         /\ SentOf(k, env[e], prefetched[e]) <= RolloutPositions(k) /\ RolloutPositions(k) \in Nat
<1>1. cfg \in Configs /\ EnvIs(e, Now, env[e]) BY EnvHas
<1>2. k # "none" BY DEF Kinds
<1>3. RolloutPositions(k) \in Nat BY <1>1, PositionsType
<1>4. CASE Busy(k, env[e]) BY <1>3, <1>4, PosSent
<1>5. CASE env[e].pc = "idle" BY <1>3, <1>5 DEF PosOf, SentOf
<1> QED BY <1>1, <1>2, <1>4, <1>5 DEF EnvIs

\* What the last part of a batch of observations does for one pair.
Merges(e, r, k, x, h, t) ==
  /\ Going(k, e, r, k, rollout[r], obs[k][<<e, r>>]) = <<h>> \o t
  /\ h \in Seq(CellSet) /\ t \in Seq(Seq(CellSet))
  /\ h = Piece(k, x, e, r)
  /\ AnswersFirst(k, e, r, PosOf(k, env[e]), SentOf(k, env[e], prefetched[e]), rollout[r],
                  Coming(k, e, r, k, env[e], res[k][<<r, e>>]), h, t)

\* The part that completes a batch of observations.
LEMMA LastObs ==
  ASSUME Inv, NEW r \in Rollouts, RolloutRecv(r), ~(Len(RolloutGot(r)) < Len(RolloutSrcs(r))), NEW e \in Envs, Near(e, r),
         NEW k, k = Now
  PROVE  /\ Merges(e, r, k, rollout[r].i, RolloutGot(r)[By(r, e)], obs'[k][<<e, r>>])
         /\ Len(RolloutGot(r)) = Len(RolloutSrcs(r))
<1> DEFINE L == Len(rollout[r].got)
           src == RolloutSrcs(r)[L + 1]
           key == RolloutKey(r)
           got == RolloutGot(r)
           g == rollout[r].got
           T == Seq(CellSet)
           s == obs[k][key]
           i == By(r, e)
           h == got[i]
           t == obs'[k][<<e, r>>]
           x == PosOf(k, env[e])
           n == SentOf(k, env[e], prefetched[e])
           gs == Going(k, e, r, k, rollout[r], obs[k][<<e, r>>])
           cs == Coming(k, e, r, k, env[e], res[k][<<r, e>>])
           ro == rollout[r]
<1>1. /\ k \in Kinds /\ k # "none" /\ ro.kind = k /\ ro.pc = "recv"
      /\ L \in Nat /\ L < Len(RolloutSrcs(r)) /\ g \in Seq(T)
      /\ src \in Envs /\ Near(src, r)
      /\ key = <<src, r>>
      /\ s # <<>> /\ s \in Seq(T)
      /\ obs' \in ObsType
      /\ \A kk \in Kinds, ee \in Envs, rr \in Rollouts :
           obs'[kk][<<ee, rr>>] = IF kk = k /\ rr = r /\ ee = src THEN Tail(obs[kk][<<ee, rr>>]) ELSE obs[kk][<<ee, rr>>]
      /\ \A ee \in Envs : Near(ee, r) => (ee = src <=> By(r, ee) = L + 1)
  BY RolloutRecvIs DEF RolloutTakes
<1>2. got = Append(g, Head(s)) BY <1>1 DEF RolloutGot
<1>3. /\ cfg \in Configs /\ i \in 1..Len(RolloutSrcs(r)) /\ i \in Nat \ {0} /\ obs[k][<<e, r>>] \in Seq(T)
      /\ PairOK(k, e, r, k, env[e], prefetched[e], ro, obs[k][<<e, r>>], res[k][<<r, e>>])
  BY <1>1, PairHas
<1>4. x \in Nat /\ n \in Nat /\ n <= RolloutPositions(k) BY <1>1, PosSentNow
<1>5. PairIs(k, e, r, k, x, n, ro, cs, gs) BY <1>3, Affected
<1>6. gs = TakenPart(k, k, g, i) \o obs[k][<<e, r>>] BY DEF Going
<1>7. e = src <=> i = L + 1 BY <1>1
<1>8. t = IF e = src THEN Tail(s) ELSE obs[k][<<e, r>>] BY <1>1
<1>9. L = Len(g) OBVIOUS
<1>10. Len(RolloutSrcs(r)) \in Nat BY <1>3, RolloutSources
<1>11. e = src => obs[k][<<e, r>>] = s BY <1>1
<1>12. ~(Len(got) < Len(RolloutSrcs(r))) OBVIOUS
<1> HIDE DEF L, src, key, got, g, T, s, i, h, t, x, n, gs, cs, ro
<1>13. Len(got) = L + 1 /\ Len(got) = Len(RolloutSrcs(r)) BY <1>1, <1>2, <1>9, <1>10, <1>12, SeqAppend
<1>14. i \in 1..Len(g) + 1 BY <1>3, <1>9, <1>13
<1>15. t \in Seq(T) BY <1>1, <1>3, <1>8, SeqAppend
<1>16. gs = <<h>> \o t /\ h \in T
  <2>1. FirstOf(k, g, s, i, t) /\ Append(g, Head(s))[i] \in T BY <1>1, <1>14, <1>15, Taken
  <2>2. h = Append(g, Head(s))[i] BY <1>2 DEF h
  <2>3. CASE e = src BY <2>1, <2>2, <2>3, <1>6, <1>7, <1>8, <1>9, <1>11 DEF FirstOf
  <2>4. CASE e # src BY <2>1, <2>2, <2>4, <1>6, <1>7, <1>8, <1>9 DEF FirstOf
  <2> QED BY <2>3, <2>4
<1>17. AnswersFirst(k, e, r, x, n, ro, cs, h, t)
  <2>1. t \in Seq(Seq(CellSet)) BY <1>15 DEF T
  <2> QED BY <1>1, <1>3, <1>4, <1>5, <1>16, <2>1, PairAnswers
<1>18. h = Piece(k, ro.i, e, r) BY <1>17 DEF AnswersFirst
<1>19. Merges(e, r, k, ro.i, h, t) BY <1>15, <1>16, <1>17, <1>18 DEF Merges, T, cs, ro, x, n, gs
<1> QED BY <1>13, <1>19 DEF x, n, h, t, got, i, ro

\* The batch merged from the parts.
LEMMA ObsWhole ==
  ASSUME Inv, NEW r \in Rollouts, RolloutRecv(r), ~(Len(RolloutGot(r)) < Len(RolloutSrcs(r))), NEW k, k = Now
  PROVE  FlattenSeq(RolloutGot(r)) = Whole(k, rollout[r].i, PR, r)
<1> DEFINE got == RolloutGot(r)
           x == rollout[r].i
<1>0. cfg \in Configs /\ Len(RolloutSrcs(r)) \in Nat \ {0} /\ rollout[r] \in RolloutSet BY RolloutHas
<1>1. k \in Kinds BY RolloutRecvIs DEF RolloutTakes
<1>2. x \in Nat BY <1>0 DEF RolloutSet
<1>3. ASSUME NEW i \in 1..Len(RolloutSrcs(r))
      PROVE  got[i] = Piece(k, x, RolloutSrcs(r)[i], r) /\ Len(got) = Len(RolloutSrcs(r))
  <2> DEFINE e == RolloutSrcs(r)[i]
             h == got[i]
             t == obs'[k][<<e, r>>]
  <2>1. e \in Envs /\ Near(e, r) /\ i = By(r, e) BY <1>0, RolloutSources
  <2>2. Merges(e, r, k, x, h, t) /\ Len(got) = Len(RolloutSrcs(r)) BY <2>1, LastObs
  <2> HIDE DEF e, h, t, got, x
  <2>3. h = Piece(k, x, e, r) BY <2>2 DEF Merges
  <2> QED BY <2>2, <2>3 DEF h, e
<1>4. Len(got) = Len(RolloutSrcs(r))
  <2>1. 1 \in 1..Len(RolloutSrcs(r)) BY <1>0
  <2> QED BY <1>3, <2>1
<1> HIDE DEF got, x
<1>5. ObsParts(got, k, x, r) BY <1>3, <1>4 DEF ObsParts
<1>6. FlattenSeq(got) = Whole(k, x, PR, r) BY <1>0, <1>1, <1>2, <1>5, ObsMerged
<1> QED BY <1>6 DEF got, x

Label(r) == IF IsLabelled(rollout[r].kind, rollout[r].i) THEN version[r] ELSE -1

AtLast(r) == rollout[r].i + 1 = RolloutPositions(rollout[r].kind)

Answering(r) ==
  [rollout[r] EXCEPT !.got = <<>>, !.i = IF AtLast(r) THEN 0 ELSE rollout[r].i + 1,
                     !.pc = IF AtLast(r) /\ ~cfg.async THEN "idle" ELSE "recv"]

\* The answer that is sent.
LEMMA AnswerSent ==
  ASSUME Inv, NEW r \in Rollouts, RolloutRecv(r), ~(Len(RolloutGot(r)) < Len(RolloutSrcs(r))), NEW k, k = Now
  PROVE  /\ ResSent(res', res, k, rollout[r].i, r, Label(r))
         /\ rollout' = [rollout EXCEPT ![r] = Answering(r)]
<1> DEFINE x == rollout[r].i
           v == Label(r)
           w == Whole(k, x, PR, r)
<1>0. cfg \in Configs /\ rollout[r] \in RolloutSet /\ res \in ResType /\ version[r] \in Nat BY RolloutHas
<1>1. k \in Kinds /\ rollout[r].kind = k BY RolloutRecvIs DEF RolloutTakes
<1>2. x \in Nat BY <1>0 DEF RolloutSet
<1>3. v \in Int BY <1>0 DEF Label
<1>4. FlattenSeq(RolloutGot(r)) = w BY ObsWhole, Zenon
<1>5. /\ res' = Split(res, k, r, RolloutDsts(r), Labelled(FlattenSeq(RolloutGot(r)), v))
      /\ rollout' = [rollout EXCEPT ![r] = Answering(r)]
  BY <1>1, Zenon DEF RolloutRecv, RolloutKey, RolloutGot, Label, Labelled, AtLast, Answering
<1> HIDE DEF x, v
<1>6. ResSent(Split(res, k, r, RolloutDsts(r), Labelled(Whole(k, x, PR, r), v)), res, k, x, r, v)
  BY <1>0, <1>1, <1>2, <1>3, ResSplit
<1> QED BY <1>4, <1>5, <1>6 DEF x, v

\* Where a rollout worker goes on.
LEMMA AnsweringIs ==
  ASSUME Inv, NEW r \in Rollouts, RolloutRecv(r), NEW k, k = Now
  PROVE  /\ Answering(r) \in RolloutSet /\ Answering(r).got = <<>> /\ RolloutIs(r, k, Answering(r))
         /\ IsAt(k, Answering(r), rollout[r].i + 1)
<1> DEFINE ro == Answering(r)
           x == rollout[r].i
<1>0. cfg \in Configs /\ rollout[r] \in RolloutSet /\ RolloutIs(r, k, rollout[r]) /\ Len(RolloutSrcs(r)) \in Nat \ {0}
  BY RolloutHas
<1>1. k \in Kinds /\ rollout[r].kind = k /\ k # "none" BY RolloutRecvIs DEF RolloutTakes
<1>2. x \in Nat BY <1>0 DEF RolloutSet
<1>3. RolloutPositions(k) \in Nat /\ x < RolloutPositions(k) BY <1>0, <1>1, PositionsType DEF RolloutIs
<1>4. /\ ro \in RolloutSet /\ ro.got = <<>> /\ ro.kind = k
      /\ ro.i = (IF x + 1 = RolloutPositions(k) THEN 0 ELSE x + 1)
      /\ ro.pc = IF x + 1 = RolloutPositions(k) /\ ~cfg.async THEN "idle" ELSE "recv"
  <2> DEFINE me == rollout[r]
             ends == x + 1 = RolloutPositions(k)
             to == IF ends THEN 0 ELSE x + 1
             pc == IF ends /\ ~cfg.async THEN "idle" ELSE "recv"
  <2>1. ro = [me EXCEPT !.got = <<>>, !.i = to, !.pc = pc] BY <1>1 DEF Answering, AtLast
  <2>2. me \in RolloutSet /\ me.kind = k BY <1>0, <1>1
  <2>3. to \in Nat /\ pc \in {"idle", "recv", "stopped"} BY <1>2
  <2>4. to = (IF x + 1 = RolloutPositions(k) THEN 0 ELSE x + 1)
        /\ pc = IF x + 1 = RolloutPositions(k) /\ ~cfg.async THEN "idle" ELSE "recv"
    OBVIOUS
  <2> DEFINE none == <<>>
             G == Seq(Seq(CellSet))
             R == [pc : {"idle", "recv", "stopped"}, kind : Kinds, epoch : Nat, i : Nat, got : G]
  <2>a. none \in G OBVIOUS
  <2>b. RolloutSet = R BY DEF RolloutSet
  <2> HIDE DEF me, to, pc, ro, ends, G, none
  <2>5. ro \in R /\ ro.got = none /\ ro.kind = k /\ ro.i = to /\ ro.pc = pc
    BY <2>1, <2>2, <2>3, <2>a, <2>b DEF none
  <2> QED BY <2>4, <2>5, <2>b DEF none
<1>5. <<>> \in Seq(Seq(CellSet)) /\ Len(<<>>) = 0 OBVIOUS
<1> HIDE DEF ro, x
<1>6. RolloutIs(r, k, ro) BY <1>0, <1>1, <1>2, <1>3, <1>4, <1>5 DEF RolloutIs
<1>7. IsAt(k, ro, x + 1) BY <1>2, <1>3, <1>4 DEF IsAt
<1> QED BY <1>4, <1>6, <1>7 DEF ro, x

\* Appending behind a concatenation.
LEMMA ConcatAppend ==
  ASSUME NEW S, NEW p \in Seq(S), NEW q \in Seq(S), NEW a \in S
  PROVE  p \o Append(q, a) = Append(p \o q, a)
<1> DEFINE s == p \o Append(q, a)
           t == Append(p \o q, a)
<1>1. /\ s \in Seq(S) /\ t \in Seq(S) /\ Len(s) = Len(t) /\ Len(s) \in Nat
  OBVIOUS
<1>2. \A i \in 1..Len(s) : s[i] = t[i] OBVIOUS
<1> HIDE DEF s, t
<1>3. s = t BY <1>1, <1>2, SameSeq
<1> QED BY <1>3 DEF s, t

\* The answer is the last of what comes.
LEMMA ComingGrown ==
  ASSUME cfg \in Configs, NEW k, NEW e, NEW r, NEW me, NEW s \in Seq(Seq(LabelledSet)), NEW a \in Seq(LabelledSet),
         me.got \in Seq(Seq(LabelledSet)), Of(e, r) \in Nat \ {0}
  PROVE  /\ Coming(k, e, r, k, me, Append(s, a)) = Append(Coming(k, e, r, k, me, s), a)
         /\ Coming(k, e, r, k, me, s) \in Seq(Seq(LabelledSet))
<1> DEFINE T == Seq(LabelledSet)
           p == TakenPart(k, k, me.got, Of(e, r))
<1>1. p \in Seq(T) BY PartType
<1>2. s \in Seq(T) /\ a \in T OBVIOUS
<1>3. Coming(k, e, r, k, me, Append(s, a)) = p \o Append(s, a) /\ Coming(k, e, r, k, me, s) = p \o s BY DEF Coming
<1> HIDE DEF p, T
<1>4. p \o Append(s, a) = Append(p \o s, a) BY <1>1, <1>2, ConcatAppend
<1>5. p \o s \in Seq(T) BY <1>1, <1>2
<1> QED BY <1>3, <1>4, <1>5 DEF T

\* A label on the way is the version of the worker, or none.
LEMMA OrderedGrows ==
  ASSUME NEW e, NEW r, NEW fresh, NEW bs, NEW T, NEW cs \in Seq(T), NEW a \in T, NEW v \in Nat,
         NEW w, w = v \/ w = -1, a[1].version = w, Ordered(e, r, fresh, bs, cs, v)
  PROVE  Ordered(e, r, fresh, bs, Append(cs, a), v)
<1> DEFINE c2 == Append(cs, a)
           Is(y) == IsRowOf(y, e, Of(e, r))
           Lab(c, j) == c[j][1].version
<1>1. /\ \A j \in 1..Len(cs) : Older(Lab(cs, j), v)
      /\ \A j, m \in 1..Len(cs) : j < m => Older(Lab(cs, j), Lab(cs, m))
      /\ fresh => \A l \in DOMAIN bs : \A y \in 1..PE : Is(y) =>
           /\ Older(bs[l].rows[y].version, v)
           /\ \A j \in 1..Len(cs) : Older(bs[l].rows[y].version, Lab(cs, j))
  BY DEF Ordered
<1>2. Len(cs) \in Nat /\ Len(c2) = Len(cs) + 1 /\ c2[Len(cs) + 1] = a /\ \A j \in 1..Len(cs) : c2[j] = cs[j] OBVIOUS
<1> HIDE DEF c2, Is
<1>3. \A b : Older(b, v) => Older(b, w) BY DEF Older
<1>4. Older(w, v) BY DEF Older
<1>5. \A j \in 1..Len(cs) : Lab(c2, j) = Lab(cs, j) BY <1>2
<1>6. Lab(c2, Len(cs) + 1) = w BY <1>2
<1> HIDE DEF Lab
<1>7. \A j \in 1..Len(c2) : j \in 1..Len(cs) \/ j = Len(cs) + 1 BY <1>2
<1>8. \A j \in 1..Len(c2) : Older(Lab(c2, j), v)
  <2> TAKE j \in 1..Len(c2)
  <2>1. CASE j \in 1..Len(cs)
    <3>1. Lab(c2, j) = Lab(cs, j) BY <1>5, <2>1
    <3> QED BY <1>1, <2>1, <3>1
  <2>2. CASE j = Len(cs) + 1 BY <1>4, <1>6, <2>2
  <2> QED BY <1>7, <2>1, <2>2
<1>9. ASSUME NEW j \in 1..Len(c2), NEW m \in 1..Len(c2), j < m PROVE Older(Lab(c2, j), Lab(c2, m))
  <2>1. j \in 1..Len(cs) BY <1>2, <1>9
  <2>2. Lab(c2, j) = Lab(cs, j) BY <1>5, <2>1
  <2>3. CASE m \in 1..Len(cs)
    <3>1. Lab(c2, m) = Lab(cs, m) BY <1>5, <2>3
    <3>2. Older(Lab(cs, j), Lab(cs, m)) BY <1>1, <1>9, <2>1, <2>3
    <3> QED BY <2>2, <3>1, <3>2
  <2>4. CASE m = Len(cs) + 1
    <3>1. Older(Lab(cs, j), w) BY <1>1, <1>3, <2>1
    <3> QED BY <1>6, <2>2, <2>4, <3>1
  <2> QED BY <1>7, <2>3, <2>4
<1>10. ASSUME fresh, NEW l \in DOMAIN bs, NEW y \in 1..PE, Is(y), NEW j \in 1..Len(c2)
       PROVE  Older(bs[l].rows[y].version, v) /\ Older(bs[l].rows[y].version, Lab(c2, j))
  <2> DEFINE b == bs[l].rows[y].version
  <2>1. Older(b, v) /\ \A m \in 1..Len(cs) : Older(b, Lab(cs, m)) BY <1>1, <1>10
  <2> HIDE DEF b
  <2>2. CASE j \in 1..Len(cs)
    <3>1. Lab(c2, j) = Lab(cs, j) BY <1>5, <2>2
    <3>2. Older(b, Lab(cs, j)) BY <2>1, <2>2
    <3> QED BY <2>1, <3>1, <3>2 DEF b
  <2>3. CASE j = Len(cs) + 1
    <3>1. Older(b, w) BY <1>3, <2>1
    <3> QED BY <1>6, <2>1, <2>3, <3>1 DEF b
  <2> QED BY <1>7, <2>2, <2>3
<1>11. 1 \in 1..Len(c2) BY <1>2
<1> QED BY <1>8, <1>9, <1>10, <1>11 DEF Ordered, Lab, Is, c2

\* Receiving the part that completes the batch, and answering it, keeps the invariant.
LEMMA RolloutAllInv ==
  ASSUME Inv, NEW r \in Rollouts, RolloutRecv(r), ~(Len(RolloutGot(r)) < Len(RolloutSrcs(r)))
  PROVE  Inv' /\ (VInv => VInv')
<1> DEFINE k == Now
           ro == Answering(r)
           x == rollout[r].i
           v == Label(r)
           A(e) == Answer(k, x, e, r, v)
<1>0. /\ cfg \in Configs /\ rollout[r] \in RolloutSet /\ res \in ResType /\ version[r] \in Nat
      /\ version \in [Rollouts -> Nat] /\ obs \in ObsType
  BY RolloutHas, Zenon
<1>1. /\ k \in Kinds /\ k # "none" /\ rollout[r].kind = k /\ rollout[r].pc = "recv"
      /\ obs' \in ObsType
      /\ \A kk \in Kinds, e \in Envs, rr \in Rollouts :
           kk # k \/ rr # r \/ ~Near(e, rr) => obs'[kk][<<e, rr>>] = obs[kk][<<e, rr>>]
  <2>1. RolloutTakes(r, k, Len(rollout[r].got), RolloutSrcs(r)[Len(rollout[r].got) + 1], RolloutKey(r))
    BY RolloutRecvIs, Zenon
  <2> HIDE DEF k
  <2> QED BY <2>1 DEF RolloutTakes
<1>2. cfg' = cfg /\ runner' = runner /\ env' = env /\ version' = version /\ prefetched' = prefetched /\ results' = results
  BY Zenon DEF RolloutRecv
<1>3. ResSent(res', res, k, x, r, v) /\ rollout' = [rollout EXCEPT ![r] = ro] BY AnswerSent
<1>4. ro \in RolloutSet /\ ro.got = <<>> /\ RolloutIs(r, k, ro) /\ IsAt(k, ro, x + 1) BY AnsweringIs
<1>5. v = version[r] \/ v = -1 BY DEF Label
<1>6. x \in Nat /\ v \in Int BY <1>0, <1>5 DEF RolloutSet
<1>7. /\ res' \in ResType
      /\ \A kk \in Kinds, e \in Envs, rr \in Rollouts :
           /\ kk # k \/ rr # r \/ ~Near(e, rr) => res'[kk][<<rr, e>>] = res[kk][<<rr, e>>]
           /\ kk = k /\ rr = r /\ Near(e, r) => res'[k][<<r, e>>] = Append(res[k][<<r, e>>], A(e))
  BY <1>3 DEF ResSent
<1>8. \A e \in Envs : Near(e, r) =>
        Merges(e, r, k, x, RolloutGot(r)[By(r, e)], obs'[k][<<e, r>>])
  BY LastObs
<1> HIDE DEF k, ro, x, v, A
<1>9. RolloutMoves(r, ro) BY <1>3, <1>4 DEF RolloutMoves, k
<1>10. OnlyRollout(r)
  BY <1>0, <1>1, <1>2, <1>7, Zenon DEF OnlyRollout
<1>11. ASSUME NEW e \in Envs, Near(e, r)
       PROVE  /\ A(e) \in Seq(LabelledSet)
              /\ Coming(k, e, r, k, env[e], res'[k][<<r, e>>]) = Append(Coming(k, e, r, k, env[e], res[k][<<r, e>>]), A(e))
              /\ Coming(k, e, r, k, env[e], res[k][<<r, e>>]) \in Seq(Seq(LabelledSet))
              /\ A(e)[1].version = v
  <2> DEFINE s == res[k][<<r, e>>]
             a == A(e)
             me == env[e]
  <2>1. /\ s \in Seq(Seq(LabelledSet)) /\ me \in EnvSet /\ Of(e, r) \in Nat \ {0} BY <1>1, <1>11, PairHas
  <2>2. a \in Seq(LabelledSet) BY <1>0, <1>1, <1>6, <1>11, PieceType DEF A
  <2>3. res'[k][<<r, e>>] = Append(s, a) BY <1>1, <1>7, <1>11
  <2>4. me.got \in Seq(Seq(LabelledSet)) BY <2>1 DEF EnvSet
  <2>5. a = Answer(k, x, e, r, v) BY DEF A
  <2> HIDE DEF s, a, me
  <2>6. /\ Coming(k, e, r, k, me, Append(s, a)) = Append(Coming(k, e, r, k, me, s), a)
        /\ Coming(k, e, r, k, me, s) \in Seq(Seq(LabelledSet))
    BY <1>0, <2>1, <2>2, <2>4, ComingGrown
  <2>7. a[1].version = v BY <1>0, <1>11, <2>2, <2>5, VersionType
  <2> QED BY <2>2, <2>3, <2>6, <2>7 DEF s, a, me
<1>12. RolloutPairsNext(r, ro)
  <2> SUFFICES ASSUME NEW kk \in Kinds, NEW e \in Envs, Near(e, r)
               PROVE  PairOK(kk, e, r, Now, env[e], prefetched[e], ro, obs'[kk][<<e, r>>], res'[kk][<<r, e>>])
    BY DEF RolloutPairsNext
  <2>1. CASE kk # k
    <3>1. kk # Now /\ obs'[kk][<<e, r>>] = obs[kk][<<e, r>>] /\ res'[kk][<<r, e>>] = res[kk][<<r, e>>]
      BY <1>1, <1>7, <2>1 DEF k
    <3>2. PairOK(kk, e, r, Now, env[e], prefetched[e], rollout[r], obs[kk][<<e, r>>], res[kk][<<r, e>>]) BY PairHas
    <3> QED BY <3>1, <3>2, Unaffected
  <2>2. CASE kk = k
    <3> DEFINE cs == Coming(k, e, r, k, env[e], res[k][<<r, e>>])
               h == RolloutGot(r)[By(r, e)]
               t == obs'[k][<<e, r>>]
               pos == PosOf(k, env[e])
               sent == SentOf(k, env[e], prefetched[e])
    <3>1. Merges(e, r, k, x, h, t) BY <1>8
    <3> HIDE DEF h
    <3>2. AnswersFirst(k, e, r, pos, sent, rollout[r], cs, h, t) /\ t \in Seq(Seq(CellSet)) BY <3>1 DEF Merges
    <3>3. rollout[r].i = x BY DEF x
    <3>4. By(r, e) \in Nat \ {0} BY PairHas
    <3> HIDE DEF cs, t, pos, sent
    <3>5. PairIs(k, e, r, k, pos, sent, ro, Append(cs, A(e)), t)
      BY <1>4, <1>6, <3>2, <3>3 DEF AnswersFirst, A
    <3>6. Going(k, e, r, k, ro, t) = t
      <4>1. Going(k, e, r, k, ro, t) = TakenPart(k, k, <<>>, By(r, e)) \o t BY <1>4 DEF Going
      <4> QED BY <3>2, <3>4, <4>1, NoneTaken
    <3>7. Coming(k, e, r, k, env[e], res'[k][<<r, e>>]) = Append(cs, A(e)) BY <1>11 DEF cs
    <3>8. PairIs(k, e, r, k, pos, sent, ro, Coming(k, e, r, k, env[e], res'[k][<<r, e>>]), Going(k, e, r, k, ro, t))
      BY <3>5, <3>6, <3>7
    <3>9. k = Now BY DEF k
    <3>10. PairOK(k, e, r, Now, env[e], prefetched[e], ro, t, res'[k][<<r, e>>])
      BY <3>8, <3>9, Affected DEF pos, sent
    <3> QED BY <2>2, <3>10 DEF t
  <2> QED BY <2>1, <2>2
<1>13. Inv' BY <1>9, <1>10, <1>12, RolloutStepInv
<1>14. ASSUME VInv PROVE VInv'
  <2>1. GoesInOrder(r)
    <3> SUFFICES ASSUME NEW e \in Envs, Near(e, r)
                 PROVE  Ordered(e, r, Fresh(Now, env[e]), results[e], Coming(Now, e, r, Now, env[e], res'[Now][<<r, e>>]), version[r])
      BY <1>2 DEF GoesInOrder
    <3> DEFINE cs == Coming(k, e, r, k, env[e], res[k][<<r, e>>])
               T == Seq(LabelledSet)
               fresh == Fresh(Now, env[e])
               bs == results[e]
               u == version[r]
               a == A(e)
    <3>1. Ordered(e, r, fresh, bs, cs, u) BY <1>1, <1>14 DEF VInv, VersionsOK, k
    <3>2. cs \in Seq(T) /\ a \in T /\ a[1].version = v
          /\ Coming(k, e, r, k, env[e], res'[k][<<r, e>>]) = Append(cs, a)
      BY <1>11
    <3>3. u \in Nat /\ (v = u \/ v = -1) BY <1>0, <1>5
    <3> HIDE DEF cs, T, fresh, bs, u, a
    <3>4. Ordered(e, r, fresh, bs, Append(cs, a), u) BY <3>1, <3>2, <3>3, OrderedGrows
    <3> QED BY <3>2, <3>4 DEF k, fresh, bs, u
  <2> QED BY <1>10, <1>14, <2>1, RolloutStepVInv
<1> QED BY <1>13, <1>14

\* Receiving keeps the invariant.
LEMMA RolloutRecvInv == ASSUME Inv, NEW r \in Rollouts, RolloutRecv(r) PROVE Inv' /\ (VInv => VInv')
BY RolloutPartInv, RolloutAllInv

-----------------------------------------------------------------------------
(* The runner *)

\* With nothing received, the queue is all there is on the way.
LEMMA NothingTaken ==
  ASSUME NEW k, NEW e, NEW r, NEW now, NEW me, me.got = <<>> \/ k # now
  PROVE  /\ Of(e, r) \in Nat \ {0} => \A s \in Seq(Seq(LabelledSet)) : Coming(k, e, r, now, me, s) = s
         /\ By(r, e) \in Nat \ {0} => \A q \in Seq(Seq(CellSet)) : Going(k, e, r, now, me, q) = q
<1> DEFINE T == Seq(LabelledSet)
           C == Seq(CellSet)
<1> HIDE DEF T, C
<1>1. ASSUME NEW i \in Nat \ {0} PROVE TakenPart(k, now, me.got, i) = <<>> BY DEF TakenPart
<1>2. ASSUME Of(e, r) \in Nat \ {0}, NEW s \in Seq(T) PROVE Coming(k, e, r, now, me, s) = s
  <2>1. Coming(k, e, r, now, me, s) = <<>> \o s BY <1>1, <1>2 DEF Coming
  <2> QED BY <2>1
<1>3. ASSUME By(r, e) \in Nat \ {0}, NEW q \in Seq(C) PROVE Going(k, e, r, now, me, q) = q
  <2>1. Going(k, e, r, now, me, q) = <<>> \o q BY <1>1, <1>3 DEF Going
  <2> QED BY <2>1
<1> QED BY <1>2, <1>3 DEF T, C

Between(e, r) == ~Near(e, r) \/ \A k \in Kinds : \A me, ro :
  PairOK(k, e, r, "none", me, prefetched[e], ro, obs[k][<<e, r>>], res[k][<<r, e>>])

\* Nobody is in a call.
LEMMA NoneCalled ==
  ASSUME Inv, Now = "none", NEW e \in Envs, NEW r \in Rollouts
  PROVE  Between(e, r)
<1> SUFFICES ASSUME NEW k \in Kinds, NEW me, NEW ro, Near(e, r)
             PROVE  PairOK(k, e, r, "none", me, prefetched[e], ro, obs[k][<<e, r>>], res[k][<<r, e>>])
  BY DEF Between
<1>1. PairOK(k, e, r, Now, env[e], prefetched[e], rollout[r], obs[k][<<e, r>>], res[k][<<r, e>>]) BY PairHas
<1>2. k # "none" BY DEF Kinds
<1> QED BY <1>1, <1>2, Unaffected

\* All calls have returned: nothing of theirs is left.
LEMMA AllReturned ==
  ASSUME Inv, AllIdle, ~cfg.async, NEW e \in Envs, NEW r \in Rollouts
  PROVE  Between(e, r)
<1> SUFFICES ASSUME NEW k \in Kinds, NEW me, NEW ro, Near(e, r)
             PROVE  PairOK(k, e, r, "none", me, prefetched[e], ro, obs[k][<<e, r>>], res[k][<<r, e>>])
  BY DEF Between
<1> DEFINE q == obs[k][<<e, r>>]
           s == res[k][<<r, e>>]
           pre == prefetched[e]
<1>0. /\ cfg \in Configs /\ q \in Seq(Seq(CellSet)) /\ s \in Seq(Seq(LabelledSet))
      /\ PairOK(k, e, r, Now, env[e], pre, rollout[r], q, s) /\ PrefetchIs(runner, env[e], pre)
      /\ Of(e, r) \in Nat \ {0} /\ By(r, e) \in Nat \ {0}
      /\ EnvIs(e, Now, env[e]) /\ RolloutIs(r, Now, rollout[r])
  BY PairHas
<1>1. env[e].pc = "idle" /\ rollout[r].pc = "idle" BY DEF AllIdle
<1>2. env[e].got = <<>> /\ rollout[r].got = <<>> BY <1>0, <1>1 DEF EnvIs, RolloutIs
<1>3. k # "none" BY DEF Kinds
<1>4. k = "train" /\ k = Now => ~pre BY <1>0, <1>1 DEF PrefetchIs, Now
<1> HIDE DEF q, s, pre
<1>5. CASE k # Now BY <1>0, <1>3, <1>5, Unaffected DEF q, s, pre
<1>6. CASE k = Now
  <2> DEFINE cs == Coming(k, e, r, k, env[e], s)
             gs == Going(k, e, r, k, rollout[r], q)
             P == RolloutPositions(k)
  <2>1. cs = s /\ gs = q BY <1>0, <1>2, NothingTaken
  <2>2. PairIs(k, e, r, k, PosOf(k, env[e]), SentOf(k, env[e], pre), rollout[r], cs, gs) BY <1>0, <1>6, Affected
  <2>3. PosOf(k, env[e]) = P /\ SentOf(k, env[e], pre) = P BY <1>1 DEF PosOf, SentOf
  <2>4. P \in Nat BY <1>0, PositionsType
  <2> HIDE DEF P, cs, gs
  <2>5. P + Len(s) + Len(q) = P BY <2>1, <2>2, <2>3 DEF PairIs, Linked
  <2>6. s = <<>> /\ q = <<>> BY <1>0, <2>4, <2>5
  <2>7. PairIs(k, e, r, "none", 0, 0, ro, <<>>, <<>>) BY <1>0, <1>3, PairEmpty
  <2>8. Sent(k, "none", me, pre) = 0 /\ Pos(k, "none", me) = 0 BY <1>3, <1>4, <1>6 DEF Sent, Pos
  <2>9. Coming(k, e, r, "none", me, s) = <<>> /\ Going(k, e, r, "none", ro, q) = <<>>
    BY <1>3, <2>6 DEF Coming, Going, TakenPart
  <2> QED BY <2>7, <2>8, <2>9 DEF PairOK, q, s, pre
<1> QED BY <1>5, <1>6

Called(kind) == [Idle EXCEPT !.pc = "boot", !.kind = kind]

CalledRollout(kind) == [Idle EXCEPT !.pc = "recv", !.kind = kind]

\* Workers that have just been called.
LEMMA CalledIs ==
  ASSUME cfg \in Configs, NEW kind \in Kinds, NEW pre
  PROVE  /\ Called(kind) \in EnvSet /\ Busy(kind, Called(kind)) /\ Called(kind).pc = "boot"
         /\ Called(kind).got = <<>> /\ Called(kind).epoch = 0
         /\ PosOf(kind, Called(kind)) = 0
         /\ SentOf(kind, Called(kind), pre) = (IF kind = "train" /\ pre THEN Stages ELSE 0)
         /\ 0 < RolloutPositions(kind) /\ RolloutPositions(kind) \in Nat
         /\ CalledRollout(kind) \in RolloutSet /\ CalledRollout(kind).pc = "recv" /\ CalledRollout(kind).i = 0
         /\ CalledRollout(kind).got = <<>> /\ CalledRollout(kind).kind = kind
<1> DEFINE me == Called(kind)
<1>1. /\ me \in EnvSet /\ me.pc = "boot" /\ me.kind = kind /\ me.got = <<>> /\ me.epoch = 0 /\ me.i = 0
  <2>1. <<>> \in Seq(Seq(LabelledSet)) OBVIOUS
  <2> QED BY <2>1 DEF Called, Idle, EnvSet
<1>2. /\ CalledRollout(kind) \in RolloutSet /\ CalledRollout(kind).pc = "recv" /\ CalledRollout(kind).i = 0
      /\ CalledRollout(kind).got = <<>> /\ CalledRollout(kind).kind = kind
  <2>1. <<>> \in Seq(Seq(CellSet)) OBVIOUS
  <2> QED BY <2>1 DEF CalledRollout, Idle, RolloutSet
<1> HIDE DEF me
<1>3. /\ Positions(kind) \in Nat \ {0} /\ cfg.epochs \in Nat \ {0} /\ Stages \in Nat \ {0} /\ Stages <= Positions(kind)
  BY PositionsType
<1>4. Busy(kind, me) BY <1>1, <1>3 DEF Busy
<1>5. PosOf(kind, me) < RolloutPositions(kind) /\ RolloutPositions(kind) \in Nat BY <1>4, SentRange
<1>6. Base(kind, 0) = 0 BY <1>3, Epochs
<1>7. PosOf(kind, me) = 0 BY <1>1, <1>6 DEF PosOf
<1>8. Bootstraps(kind, me, pre) <=> ~(kind = "train" /\ pre) BY <1>1 DEF Bootstraps
<1>9. SentOf(kind, me, pre) = (IF kind = "train" /\ pre THEN Stages ELSE 0)
  <2>1. CASE kind = "train" /\ pre
    <3>1. SentOf(kind, me, pre) = 0 + MinOf(0 + Stages, Positions(kind)) BY <1>1, <1>6, <1>8, <2>1 DEF SentOf
    <3>2. 0 + MinOf(0 + Stages, Positions(kind)) = Stages BY <1>3 DEF MinOf
    <3> QED BY <2>1, <3>1, <3>2
  <2>2. CASE ~(kind = "train" /\ pre) BY <1>1, <1>7, <1>8, <2>2 DEF SentOf
  <2> QED BY <2>1, <2>2
<1> QED BY <1>1, <1>2, <1>4, <1>5, <1>7, <1>9 DEF me

\* A call begins with what was prefetched for it.
LEMMA PairCalled ==
  ASSUME Inv, NEW e \in Envs, NEW r \in Rollouts, Near(e, r), Between(e, r), NEW kind \in Kinds, NEW k \in Kinds
  PROVE  /\ PairOK(k, e, r, kind, Called(kind), prefetched[e], CalledRollout(kind), obs[k][<<e, r>>], res[k][<<r, e>>])
         /\ Coming(kind, e, r, kind, Called(kind), res[kind][<<r, e>>]) = <<>>
<1>0. cfg \in Configs /\ Of(e, r) \in Nat \ {0} /\ By(r, e) \in Nat \ {0} BY PairHas
<1>a. kind # "none" BY DEF Kinds
<1>1. ASSUME NEW kk \in Kinds
      PROVE  PairOK(kk, e, r, "none", Called(kind), prefetched[e], CalledRollout(kind), obs[kk][<<e, r>>], res[kk][<<r, e>>])
  BY DEF Between
<1>2. ASSUME k # kind
      PROVE  PairOK(k, e, r, kind, Called(kind), prefetched[e], CalledRollout(kind), obs[k][<<e, r>>], res[k][<<r, e>>])
  <2> DEFINE q == obs[k][<<e, r>>]
             s == res[k][<<r, e>>]
             me == Called(kind)
             ro == CalledRollout(kind)
             pre == prefetched[e]
  <2>1. k # "none" BY DEF Kinds
  <2>2. PairOK(k, e, r, "none", me, pre, ro, q, s) BY <1>1
  <2> HIDE DEF q, s, me, ro, pre
  <2>3. PairOK(k, e, r, kind, me, pre, ro, q, s) BY <1>2, <2>1, <2>2, Unaffected
  <2> QED BY <2>3 DEF q, s, me, ro, pre
<1>3. /\ PairOK(kind, e, r, kind, Called(kind), prefetched[e], CalledRollout(kind), obs[kind][<<e, r>>], res[kind][<<r, e>>])
      /\ Coming(kind, e, r, kind, Called(kind), res[kind][<<r, e>>]) = <<>>
  <2> DEFINE q == obs[kind][<<e, r>>]
             s == res[kind][<<r, e>>]
             me == Called(kind)
             ro == CalledRollout(kind)
             pre == prefetched[e]
             to == IF kind = "train" /\ pre THEN Stages ELSE 0
  <2>1. /\ me.got = <<>> /\ ro.got = <<>> /\ PosOf(kind, me) = 0 /\ SentOf(kind, me, pre) = to
        /\ 0 < RolloutPositions(kind) /\ ro.pc = "recv" /\ ro.i = 0
    BY <1>0, CalledIs
  <2>2. PairOK(kind, e, r, "none", me, pre, ro, q, s) BY <1>1
  <2>3. q \in Seq(Seq(CellSet)) /\ s \in Seq(Seq(LabelledSet)) BY PairHas
  <2> HIDE DEF q, s, me, ro, pre
  <2>4. Coming(kind, e, r, "none", me, s) = s /\ Going(kind, e, r, "none", ro, q) = q
    BY <1>0, <2>1, <2>3, NothingTaken
  <2>5. Coming(kind, e, r, kind, me, s) = s /\ Going(kind, e, r, kind, ro, q) = q
    BY <1>0, <2>1, <2>3, NothingTaken
  <2>6. Pos(kind, "none", me) = 0 /\ Sent(kind, "none", me, pre) = to BY <1>a DEF Pos, Sent
  <2> HIDE DEF to
  <2>7. Linked(kind, e, r, 0, to, s, q) /\ s = <<>> BY <1>a, <2>2, <2>4, <2>6 DEF PairOK, PairIs
  <2>8. IsAt(kind, ro, 0 + Len(s))
    <3>1. 0 + Len(s) = 0 BY <2>7
    <3>2. IsAt(kind, ro, 0) BY <2>1 DEF IsAt
    <3> QED BY <3>1, <3>2
  <2>9. PairIs(kind, e, r, kind, 0, to, ro, s, q) BY <2>7, <2>8 DEF PairIs
  <2>10. PairOK(kind, e, r, kind, me, pre, ro, q, s) BY <2>1, <2>5, <2>9, Affected
  <2> QED BY <2>5, <2>7, <2>10 DEF q, s, me, ro, pre
<1> QED BY <1>2, <1>3

\* A step of the runner.
RunnerMoves ==
  /\ cfg' = cfg /\ results' = results /\ prefetched' = prefetched /\ obs' = obs /\ res' = res
  /\ runner'.pc \in (IF cfg.async THEN {"run", "stopping", "done"} ELSE {"start", "rollouts", "train", "eval", "done"})
  /\ runner' \in RunnerSet
  /\ env' \in [Envs -> EnvSet] /\ rollout' \in [Rollouts -> RolloutSet] /\ version' \in [Rollouts -> Nat]
  /\ \A e \in Envs : EnvIs(e, Now', env'[e]) /\ PrefetchIs(runner', env'[e], prefetched[e])
  /\ \A r \in Rollouts : RolloutIs(r, Now', rollout'[r])
  /\ \A k \in Kinds, e \in Envs, r \in Rollouts : Near(e, r) =>
       PairOK(k, e, r, Now', env'[e], prefetched[e], rollout'[r], obs[k][<<e, r>>], res[k][<<r, e>>])

\* A step of the runner keeps the invariant if its parts are kept.
LEMMA RunnerStepInv ==
  ASSUME Inv, RunnerMoves
  PROVE  Inv'
<1>1. TypeOK /\ EnvOK /\ RolloutOK /\ Paired /\ Apart /\ ResultsOK BY DEF Inv
<1>2. cfg' = cfg /\ results' = results /\ prefetched' = prefetched /\ obs' = obs /\ res' = res BY DEF RunnerMoves
<1>3. TypeOK'
  <2>1. /\ cfg \in Configs /\ prefetched \in [Envs -> BOOLEAN] /\ results \in [Envs -> Seq(ResultSet)]
        /\ obs \in ObsType /\ res \in ResType
    BY <1>1 DEF TypeOK
  <2>2. /\ prefetched' \in [Envs -> BOOLEAN] /\ results' \in [Envs -> Seq(ResultSet)]
        /\ obs' \in ObsType /\ res' \in ResType
    BY <1>2, <2>1
  <2> QED BY <1>2, <2>1, <2>2, TypeNext DEF RunnerMoves
<1>4. EnvOK' BY <1>2, OthersNext DEF RunnerMoves
<1>5. RolloutOK' BY <1>2, OthersNext DEF RunnerMoves
<1>6. Paired'
  <2>1. \A k \in Kinds, e \in Envs, r \in Rollouts : Near(e, r) =>
          PairOK(k, e, r, Now', env'[e], prefetched'[e], rollout'[r], obs'[k][<<e, r>>], res'[k][<<r, e>>])
    BY <1>2 DEF RunnerMoves
  <2> QED BY <1>2, <2>1, PairedNext
<1>7. Apart'
  <2>1. \A k \in Kinds, e \in Envs, q \in Rollouts :
          ~Near(e, q) => obs'[k][<<e, q>>] = <<>> /\ res'[k][<<q, e>>] = <<>>
    BY <1>1, <1>2 DEF Apart
  <2> QED BY <1>2, <2>1, OthersNext
<1>8. ResultsOK'
  <2>1. \A e \in Envs : AllRowsOK(results'[e], e) BY <1>1, <1>2 DEF ResultsOK, AllRowsOK
  <2> QED BY <1>2, <2>1, OthersNext DEF AllRowsOK
<1> QED BY <1>3, <1>4, <1>5, <1>6, <1>7, <1>8 DEF Inv

\* The results stay; nothing is on its way when a call begins.
LEMMA RunnerStepVInv ==
  ASSUME Inv, VInv, cfg' = cfg, results' = results,
         Now' # "none" => \A e \in Envs, r \in Rollouts : Near(e, r) =>
           Ordered(e, r, Fresh(Now', env'[e]), results[e],
                   Coming(Now', e, r, Now', env'[e], res'[Now'][<<r, e>>]), version'[r])
  PROVE  VInv'
<1>1. \A e \in Envs : InOrder(results'[e]) BY PolicyIs DEF VInv, AllInOrder
<1>2. PolicyInOrder' BY <1>1, PolicyNext
<1>3. VersionsOK'
  <2>1. \A e \in Envs, r \in Rollouts : Near(e, r) /\ Now' # "none" =>
          Ordered(e, r, Fresh(Now', env'[e]), results'[e],
                   Coming(Now', e, r, Now', env'[e], res'[Now'][<<r, e>>]), version'[r])
    OBVIOUS
  <2> QED BY <2>1, VersionsNext
<1> QED BY <1>2, <1>3 DEF VInv

\* A step between two calls: nobody is in one afterwards either.
LEMMA RestInv ==
  ASSUME Inv, \A e \in Envs, r \in Rollouts : Between(e, r), Now' = "none",
         cfg' = cfg, results' = results, prefetched' = prefetched, obs' = obs, res' = res, rollout' = rollout, version' = version,
         runner'.pc \in {"start", "train", "done"}, ~cfg.async, runner' \in RunnerSet,
         env' \in [Envs -> EnvSet],
         \A e \in Envs : EnvIs(e, "none", env'[e]) /\ PrefetchIs(runner', env'[e], prefetched[e]),
         \A r \in Rollouts : RolloutIs(r, "none", rollout[r])
  PROVE  Inv' /\ (VInv => VInv')
<1>1. rollout \in [Rollouts -> RolloutSet] /\ version \in [Rollouts -> Nat] BY DEF Inv, TypeOK
<1>2. \A k \in Kinds, e \in Envs, r \in Rollouts : Near(e, r) =>
        PairOK(k, e, r, Now', env'[e], prefetched[e], rollout'[r], obs[k][<<e, r>>], res[k][<<r, e>>])
  BY DEF Between
<1>3. RunnerMoves BY <1>1, <1>2 DEF RunnerMoves
<1>4. Inv' BY <1>3, RunnerStepInv
<1>5. VInv => VInv' BY RunnerStepVInv
<1> QED BY <1>4, <1>5

\* A call of a kind begins.
LEMMA CallInv ==
  ASSUME Inv, \A e \in Envs, r \in Rollouts : Between(e, r), NEW kind \in Kinds, Now' = kind, Call(kind),
         cfg' = cfg, results' = results, prefetched' = prefetched, obs' = obs, res' = res, version' \in [Rollouts -> Nat],
         runner'.pc \in {"rollouts", "eval"}, ~cfg.async, runner' \in RunnerSet,
         \A e \in Envs : PrefetchIs(runner', Called(kind), prefetched[e])
  PROVE  Inv' /\ (VInv => VInv')
<1>0. cfg \in Configs BY DEF Inv, TypeOK
<1>1. env' = [e \in Envs |-> Called(kind)] /\ rollout' = [r \in Rollouts |-> CalledRollout(kind)]
  BY DEF Call, Called, CalledRollout
<1>2. /\ Called(kind) \in EnvSet /\ Busy(kind, Called(kind)) /\ Called(kind).pc = "boot"
      /\ Called(kind).got = <<>> /\ Called(kind).epoch = 0
      /\ 0 < RolloutPositions(kind) /\ RolloutPositions(kind) \in Nat
      /\ CalledRollout(kind) \in RolloutSet /\ CalledRollout(kind).pc = "recv" /\ CalledRollout(kind).i = 0
      /\ CalledRollout(kind).got = <<>> /\ CalledRollout(kind).kind = kind
  BY <1>0, CalledIs
<1>3. kind # "none" /\ Len(<<>>) = 0 BY DEF Kinds
<1>4. \A e \in Envs : env'[e] = Called(kind) BY <1>1
<1>5. \A r \in Rollouts : rollout'[r] = CalledRollout(kind) BY <1>1
<1>6. env' \in [Envs -> EnvSet] /\ rollout' \in [Rollouts -> RolloutSet] BY <1>1, <1>2
<1>7. ASSUME NEW e \in Envs PROVE EnvIs(e, kind, Called(kind))
  <2>1. Len(EnvSrcs(e)) \in Nat \ {0} BY <1>0, EnvSources
  <2> QED BY <1>2, <1>3, <2>1 DEF EnvIs
<1>8. ASSUME NEW r \in Rollouts PROVE RolloutIs(r, kind, CalledRollout(kind))
  <2>1. Len(RolloutSrcs(r)) \in Nat \ {0} BY <1>0, RolloutSources
  <2> QED BY <1>2, <1>3, <2>1 DEF RolloutIs
<1>9. ASSUME NEW e \in Envs, NEW r \in Rollouts, Near(e, r)
      PROVE  /\ \A k \in Kinds : PairOK(k, e, r, kind, Called(kind), prefetched[e], CalledRollout(kind),
                                        obs[k][<<e, r>>], res[k][<<r, e>>])
             /\ Coming(kind, e, r, kind, Called(kind), res[kind][<<r, e>>]) = <<>>
  BY <1>9, PairCalled
<1>10. RunnerMoves
  <2>1. \A k \in Kinds, e \in Envs, r \in Rollouts : Near(e, r) =>
          PairOK(k, e, r, Now', env'[e], prefetched[e], rollout'[r], obs[k][<<e, r>>], res[k][<<r, e>>])
    BY <1>4, <1>5, <1>9
  <2>2. \A e \in Envs : EnvIs(e, Now', env'[e]) /\ PrefetchIs(runner', env'[e], prefetched[e]) BY <1>4, <1>7
  <2>3. \A r \in Rollouts : RolloutIs(r, Now', rollout'[r]) BY <1>5, <1>8
  <2> QED BY <1>6, <2>1, <2>2, <2>3 DEF RunnerMoves
<1>11. Inv' BY <1>10, RunnerStepInv
<1>12. ASSUME VInv PROVE VInv'
  <2>1. ASSUME NEW e \in Envs, NEW r \in Rollouts, Near(e, r)
        PROVE  Ordered(e, r, Fresh(Now', env'[e]), results[e],
                       Coming(Now', e, r, Now', env'[e], res'[Now'][<<r, e>>]), version'[r])
    <3>1. ~Fresh(kind, Called(kind)) BY <1>2 DEF Fresh
    <3>2. Coming(Now', e, r, Now', env'[e], res'[Now'][<<r, e>>]) = <<>> BY <1>4, <1>9, <2>1
    <3>3. Ordered(e, r, Fresh(Now', env'[e]), results[e], <<>>, version'[r]) BY <1>3, <1>4, <3>1 DEF Ordered
    <3> QED BY <3>2, <3>3
  <2> QED BY <1>12, <2>1, RunnerStepVInv
<1> QED BY <1>11, <1>12

\* The facts of the invariant about the runner.
LEMMA RunnerHas ==
  ASSUME Inv
  PROVE  /\ cfg \in Configs /\ runner \in RunnerSet
         /\ runner.pc \in (IF cfg.async THEN {"run", "stopping", "done"} ELSE {"start", "rollouts", "train", "eval", "done"})
         /\ env \in [Envs -> EnvSet] /\ rollout \in [Rollouts -> RolloutSet] /\ version \in [Rollouts -> Nat]
         /\ prefetched \in [Envs -> BOOLEAN]
         /\ \A e \in Envs : EnvIs(e, Now, env[e]) /\ PrefetchIs(runner, env[e], prefetched[e])
         /\ \A r \in Rollouts : RolloutIs(r, Now, rollout[r])
BY DEF Inv, TypeOK, EnvOK, RolloutOK

\* An idle worker is no longer in a call.
LEMMA IdleIs ==
  ASSUME Inv, AllIdle
  PROVE  /\ \A e \in Envs : env[e].pc = "idle" /\ EnvIs(e, "none", env[e])
         /\ \A r \in Rollouts : RolloutIs(r, "none", rollout[r])
         /\ \A e \in Envs : runner.pc = "rollouts" => ~prefetched[e]
<1>1. \A e \in Envs : EnvIs(e, Now, env[e]) /\ PrefetchIs(runner, env[e], prefetched[e]) /\ env[e].pc = "idle"
  BY RunnerHas DEF AllIdle
<1>2. \A r \in Rollouts : RolloutIs(r, Now, rollout[r]) /\ rollout[r].pc = "idle" BY RunnerHas DEF AllIdle
<1>3. \A e \in Envs : EnvIs(e, "none", env[e]) BY <1>1 DEF EnvIs
<1>4. \A r \in Rollouts : RolloutIs(r, "none", rollout[r]) BY <1>2 DEF RolloutIs
<1>5. \A e \in Envs : runner.pc = "rollouts" => ~prefetched[e] BY <1>1 DEF PrefetchIs
<1> QED BY <1>1, <1>3, <1>4, <1>5

\* The runner of an asynchronous run leaves everybody in the call.
LEMMA AsyncInv ==
  ASSUME Inv, runner.pc \in {"run", "stopping"}, runner'.pc \in {"stopping", "done"}, runner' \in RunnerSet,
         cfg' = cfg, results' = results, prefetched' = prefetched, obs' = obs, res' = res,
         env' = env, rollout' = rollout, version' = version,
         \A e \in Envs : PrefetchIs(runner', env[e], prefetched[e])
  PROVE  Inv' /\ (VInv => VInv')
<1>1. /\ cfg.async /\ env \in [Envs -> EnvSet] /\ rollout \in [Rollouts -> RolloutSet] /\ version \in [Rollouts -> Nat]
      /\ \A e \in Envs : EnvIs(e, Now, env[e])
      /\ \A r \in Rollouts : RolloutIs(r, Now, rollout[r])
  BY RunnerHas
<1>2. Now' = Now BY <1>1 DEF Now
<1>3. \A k \in Kinds, e \in Envs, r \in Rollouts : Near(e, r) =>
        PairOK(k, e, r, Now, env[e], prefetched[e], rollout[r], obs[k][<<e, r>>], res[k][<<r, e>>])
  BY DEF Inv, Paired
<1>4. RunnerMoves BY <1>1, <1>2, <1>3 DEF RunnerMoves
<1>5. Inv' BY <1>4, RunnerStepInv
<1>6. ASSUME VInv PROVE VInv'
  <2>1. \A e \in Envs, r \in Rollouts : Near(e, r) /\ Now # "none" =>
          Ordered(e, r, Fresh(Now, env[e]), results[e], Coming(Now, e, r, Now, env[e], res[Now][<<r, e>>]), version[r])
    BY <1>6 DEF VInv, VersionsOK
  <2> QED BY <1>2, <1>6, <2>1, RunnerStepVInv
<1> QED BY <1>5, <1>6

\* The start of a step keeps the invariant: the rollouts have new weights and no result of this call is there yet.
LEMMA StartStepInv == ASSUME Inv, StartStep PROVE Inv' /\ (VInv => VInv')
<1>1. /\ runner.pc = "start" /\ runner.step < cfg.steps /\ runner' = [runner EXCEPT !.pc = "rollouts"]
      /\ version' = [r \in Rollouts |-> runner.step] /\ Call("train")
      /\ cfg' = cfg /\ results' = results /\ prefetched' = prefetched /\ obs' = obs /\ res' = res
  BY DEF StartStep
<1>2. ~cfg.async /\ Now = "none" /\ runner \in RunnerSet /\ runner.step \in Nat BY <1>1, RunnerHas DEF Now, RunnerSet
<1>3. runner'.pc = "rollouts" /\ runner'.step = runner.step /\ runner' \in RunnerSet BY <1>1, <1>2 DEF RunnerSet
<1>4. Now' = "train" BY <1>1, <1>3 DEF Now
<1>5. \A e \in Envs, r \in Rollouts : Between(e, r) BY <1>2, NoneCalled
<1>6. version' \in [Rollouts -> Nat] BY <1>1, <1>2
<1>7. ASSUME NEW e \in Envs PROVE PrefetchIs(runner', Called("train"), prefetched[e])
  <2>1. Called("train").pc = "boot" /\ Called("train").epoch = 0 BY DEF Called, Idle
  <2>2. PrefetchIs(runner, env[e], prefetched[e]) BY RunnerHas
  <2> QED BY <1>1, <1>2, <1>3, <2>1, <2>2 DEF PrefetchIs
<1> QED BY <1>1, <1>2, <1>3, <1>4, <1>5, <1>6, <1>7, CallInv DEF Kinds

\* So does the begin of training,
LEMMA TrainInv == ASSUME Inv, Train PROVE Inv' /\ (VInv => VInv')
<1>1. /\ runner.pc = "rollouts" /\ AllIdle /\ runner' = [runner EXCEPT !.pc = "train"]
      /\ env' = IF Prefetches THEN [e \in Envs |-> [env[e] EXCEPT !.pc = "prefetch"]] ELSE env
      /\ cfg' = cfg /\ results' = results /\ prefetched' = prefetched /\ obs' = obs /\ res' = res
      /\ rollout' = rollout /\ version' = version
  BY DEF Train
<1>2. ~cfg.async /\ runner \in RunnerSet /\ env \in [Envs -> EnvSet] BY <1>1, RunnerHas
<1>3. runner'.pc = "train" /\ runner'.step = runner.step /\ runner' \in RunnerSet /\ runner.step \in Nat BY <1>1, <1>2 DEF RunnerSet
<1>4. Now' = "none" BY <1>1, <1>2, <1>3 DEF Now
<1>5. \A e \in Envs, r \in Rollouts : Between(e, r) BY <1>1, <1>2, AllReturned
<1>6. /\ \A e \in Envs : env[e].pc = "idle" /\ EnvIs(e, "none", env[e]) /\ ~prefetched[e]
      /\ \A r \in Rollouts : RolloutIs(r, "none", rollout[r])
  BY <1>1, IdleIs
<1>7. env' \in [Envs -> EnvSet]
  <2>1. \A e \in Envs : [env[e] EXCEPT !.pc = "prefetch"] \in EnvSet BY <1>2 DEF EnvSet
  <2> QED BY <1>1, <1>2, <2>1
<1>8. ASSUME NEW e \in Envs PROVE EnvIs(e, "none", env'[e]) /\ PrefetchIs(runner', env'[e], prefetched[e])
  <2>0. env[e] \in EnvSet /\ env[e].pc = "idle" /\ EnvIs(e, "none", env[e]) /\ ~prefetched[e] BY <1>2, <1>6
  <2>1. CASE Prefetches
    <3> DEFINE me == [env[e] EXCEPT !.pc = "prefetch"]
    <3>1. env'[e] = me BY <1>1, <2>1
    <3>2. me.pc = "prefetch" /\ me.got = env[e].got BY <2>0 DEF EnvSet
    <3>3. env[e].got = <<>> BY <2>0 DEF EnvIs
    <3> HIDE DEF me
    <3>4. EnvIs(e, "none", me) BY <2>0, <3>2, <3>3 DEF EnvIs
    <3>5. PrefetchIs(runner', me, prefetched[e]) BY <1>3, <2>0, <2>1 DEF PrefetchIs, Prefetches
    <3> QED BY <3>1, <3>4, <3>5
  <2>2. CASE ~Prefetches
    <3>1. env'[e] = env[e] BY <1>1, <2>2
    <3>2. PrefetchIs(runner', env[e], prefetched[e]) BY <2>0 DEF PrefetchIs
    <3> QED BY <2>0, <3>1, <3>2
  <2> QED BY <2>1, <2>2
<1> QED BY <1>1, <1>2, <1>3, <1>4, <1>5, <1>6, <1>7, <1>8, RestInv

\* its end, which may call the evaluation,
LEMMA TrainedInv == ASSUME Inv, Trained PROVE Inv' /\ (VInv => VInv')
<1> DEFINE to == IF cfg.eval THEN "eval" ELSE "start"
<1>1. /\ runner.pc = "train" /\ AllIdle /\ runner' = [pc |-> to, step |-> runner.step + 1]
      /\ cfg' = cfg /\ results' = results /\ prefetched' = prefetched /\ obs' = obs /\ res' = res
      /\ IF cfg.eval THEN Call("eval") /\ version' = [r \in Rollouts |-> runner.step + 1]
         ELSE env' = env /\ rollout' = rollout /\ version' = version
  BY DEF Trained
<1>2. ~cfg.async /\ runner \in RunnerSet /\ env \in [Envs -> EnvSet] BY <1>1, RunnerHas
<1>3. runner'.pc = to /\ runner'.step = runner.step + 1 /\ runner' \in RunnerSet /\ runner.step \in Nat BY <1>1, <1>2 DEF RunnerSet
<1>4. Now' = IF cfg.eval THEN "eval" ELSE "none" BY <1>1, <1>2, <1>3 DEF Now
<1>5. \A e \in Envs, r \in Rollouts : Between(e, r) BY <1>1, <1>2, AllReturned
<1>6. /\ \A e \in Envs : env[e].pc = "idle" /\ EnvIs(e, "none", env[e])
      /\ \A r \in Rollouts : RolloutIs(r, "none", rollout[r])
  BY <1>1, IdleIs
<1>7. ASSUME NEW e \in Envs, NEW me, me.pc = "idle" \/ me.pc = "boot" PROVE PrefetchIs(runner', me, prefetched[e])
  <2>1. PrefetchIs(runner, env[e], prefetched[e]) BY RunnerHas
  <2>2. prefetched[e] => runner.step + 1 < cfg.steps BY <1>1, <2>1 DEF PrefetchIs
  <2>3. runner'.pc \in {"eval", "start"} BY <1>3
  <2>4. prefetched[e] => runner'.step + 0 < cfg.steps BY <1>3, <2>2
  <2> QED BY <1>2, <1>7, <2>3, <2>4 DEF PrefetchIs
<1>8. CASE cfg.eval
  <2>1. version' \in [Rollouts -> Nat] BY <1>1, <1>3, <1>8
  <2>2. Called("eval").pc = "boot" BY DEF Called, Idle
  <2>3. \A e \in Envs : PrefetchIs(runner', Called("eval"), prefetched[e]) BY <1>7, <2>2
  <2> QED BY <1>1, <1>2, <1>3, <1>4, <1>5, <1>8, <2>1, <2>3, CallInv DEF Kinds
<1>9. CASE ~cfg.eval
  <2>1. \A e \in Envs : EnvIs(e, "none", env'[e]) /\ PrefetchIs(runner', env'[e], prefetched[e]) BY <1>1, <1>6, <1>7, <1>9
  <2> QED BY <1>1, <1>2, <1>3, <1>4, <1>5, <1>6, <1>9, <2>1, RestInv
<1> QED BY <1>8, <1>9

\* the end of the evaluation,
LEMMA EvaluatedInv == ASSUME Inv, Evaluated PROVE Inv' /\ (VInv => VInv')
<1>1. /\ runner.pc = "eval" /\ AllIdle /\ runner' = [runner EXCEPT !.pc = "start"]
      /\ cfg' = cfg /\ results' = results /\ prefetched' = prefetched /\ obs' = obs /\ res' = res
      /\ env' = env /\ rollout' = rollout /\ version' = version
  BY DEF Evaluated
<1>2. ~cfg.async /\ runner \in RunnerSet /\ env \in [Envs -> EnvSet] BY <1>1, RunnerHas
<1>3. runner'.pc = "start" /\ runner'.step = runner.step /\ runner' \in RunnerSet BY <1>1, <1>2 DEF RunnerSet
<1>4. Now' = "none" BY <1>1, <1>2, <1>3 DEF Now
<1>5. \A e \in Envs, r \in Rollouts : Between(e, r) BY <1>1, <1>2, AllReturned
<1>6. /\ \A e \in Envs : env[e].pc = "idle" /\ EnvIs(e, "none", env[e])
      /\ \A r \in Rollouts : RolloutIs(r, "none", rollout[r])
  BY <1>1, IdleIs
<1>7. \A e \in Envs : PrefetchIs(runner', env[e], prefetched[e])
  <2>1. \A e \in Envs : PrefetchIs(runner, env[e], prefetched[e]) BY RunnerHas
  <2> QED BY <1>1, <1>3, <1>6, <2>1 DEF PrefetchIs
<1> QED BY <1>1, <1>2, <1>3, <1>4, <1>5, <1>6, <1>7, RestInv

\* the end of the run,
LEMMA FinishInv == ASSUME Inv, Finish PROVE Inv' /\ (VInv => VInv')
<1>1. /\ runner' = [runner EXCEPT !.pc = "done"]
      /\ cfg' = cfg /\ results' = results /\ prefetched' = prefetched /\ obs' = obs /\ res' = res
      /\ env' = env /\ rollout' = rollout /\ version' = version
      /\ runner.pc \in {"start", "stopping"} /\ (runner.pc = "start" => runner.step = cfg.steps)
  BY DEF Finish
<1>2. runner \in RunnerSet /\ env \in [Envs -> EnvSet] BY RunnerHas
<1>3. runner'.pc = "done" /\ runner'.step = runner.step /\ runner' \in RunnerSet /\ runner.step \in Nat BY <1>1, <1>2 DEF RunnerSet
<1>4. \A e \in Envs : EnvIs(e, Now, env[e]) /\ PrefetchIs(runner, env[e], prefetched[e]) BY RunnerHas
<1>5. ASSUME NEW e \in Envs PROVE PrefetchIs(runner', env[e], prefetched[e])
  <2>1. runner.pc = "start" => ~(runner.step + 0 < cfg.steps) BY <1>1, <1>3
  <2>2. runner.pc = "stopping" => cfg.async BY RunnerHas
  <2>3. ~prefetched[e] BY <1>1, <1>4, <2>1, <2>2 DEF PrefetchIs
  <2> QED BY <1>1, <1>4, <2>3 DEF PrefetchIs
<1>6. CASE runner.pc = "start"
  <2>1. ~cfg.async /\ Now = "none" BY <1>6, RunnerHas DEF Now
  <2>2. \A e \in Envs, r \in Rollouts : Between(e, r) BY <2>1, NoneCalled
  <2>3. Now' = "none" BY <1>1, <1>3, <2>1 DEF Now
  <2>4. \A r \in Rollouts : RolloutIs(r, "none", rollout[r]) BY <2>1, RunnerHas
  <2> QED BY <1>1, <1>2, <1>3, <1>4, <1>5, <2>1, <2>2, <2>3, <2>4, RestInv
<1>7. CASE runner.pc = "stopping" BY <1>1, <1>3, <1>5, <1>7, AsyncInv
<1> QED BY <1>1, <1>6, <1>7

\* and the stop of an asynchronous run.
LEMMA StopInv == ASSUME Inv, Stop PROVE Inv' /\ (VInv => VInv')
<1>1. /\ runner.pc = "run" /\ runner' = [runner EXCEPT !.pc = "stopping"]
      /\ cfg' = cfg /\ results' = results /\ prefetched' = prefetched /\ obs' = obs /\ res' = res
      /\ env' = env /\ rollout' = rollout /\ version' = version
  BY DEF Stop
<1>2. runner \in RunnerSet BY RunnerHas
<1>3. runner'.pc = "stopping" /\ runner' \in RunnerSet BY <1>1, <1>2 DEF RunnerSet
<1>4. ASSUME NEW e \in Envs PROVE PrefetchIs(runner', env[e], prefetched[e])
  <2>1. PrefetchIs(runner, env[e], prefetched[e]) BY RunnerHas
  <2>2. cfg.async BY <1>1, RunnerHas
  <2> QED BY <1>1, <2>1, <2>2 DEF PrefetchIs
<1> QED BY <1>1, <1>3, <1>4, AsyncInv

-----------------------------------------------------------------------------
(* The invariant *)

\* A stuttering step keeps the invariant.
LEMMA StaysInv == ASSUME Inv, UNCHANGED vars PROVE Inv' /\ (VInv => VInv')
<1>1. /\ cfg' = cfg /\ runner' = runner /\ results' = results /\ prefetched' = prefetched /\ obs' = obs /\ res' = res
      /\ env' = env /\ rollout' = rollout /\ version' = version
  BY DEF vars
<1>2. Now' = Now BY <1>1, NowNext
<1>3. /\ \A e \in Envs : EnvIs(e, Now, env[e]) /\ PrefetchIs(runner, env[e], prefetched[e])
      /\ \A r \in Rollouts : RolloutIs(r, Now, rollout[r])
      /\ \A k \in Kinds, e \in Envs, r \in Rollouts : Near(e, r) =>
           PairOK(k, e, r, Now, env[e], prefetched[e], rollout[r], obs[k][<<e, r>>], res[k][<<r, e>>])
      /\ runner \in RunnerSet
      /\ runner.pc \in (IF cfg.async THEN {"run", "stopping", "done"} ELSE {"start", "rollouts", "train", "eval", "done"})
      /\ env \in [Envs -> EnvSet] /\ rollout \in [Rollouts -> RolloutSet] /\ version \in [Rollouts -> Nat]
  BY RunnerHas DEF Inv, Paired
<1>4. RunnerMoves BY <1>1, <1>2, <1>3 DEF RunnerMoves
<1>5. Inv' BY <1>4, RunnerStepInv
<1>6. ASSUME VInv PROVE VInv'
  <2>1. \A e \in Envs, r \in Rollouts : Near(e, r) /\ Now # "none" =>
          Ordered(e, r, Fresh(Now, env[e]), results[e], Coming(Now, e, r, Now, env[e], res[Now][<<r, e>>]), version[r])
    BY <1>6 DEF VInv, VersionsOK
  <2> QED BY <1>1, <1>2, <1>6, <2>1, RunnerStepVInv
<1> QED BY <1>5, <1>6

\* The initial states satisfy the invariant.
LEMMA InitInv == Init => Inv /\ VInv
<1> SUFFICES ASSUME Init PROVE Inv /\ VInv
  OBVIOUS
<1> DEFINE called == cfg.async
           me == IF called THEN Called("train") ELSE Idle
           ro == IF called THEN CalledRollout("train") ELSE Idle
<1>1. /\ cfg \in Configs /\ runner = [pc |-> IF cfg.async THEN "run" ELSE "start", step |-> 0]
      /\ env = [e \in Envs |-> me] /\ rollout = [r \in Rollouts |-> ro]
      /\ version = [r \in Rollouts |-> 0] /\ results = [e \in Envs |-> <<>>] /\ prefetched = [e \in Envs |-> FALSE]
      /\ obs = [k \in Kinds |-> [p \in Envs \X Rollouts |-> <<>>]]
      /\ res = [k \in Kinds |-> [p \in Rollouts \X Envs |-> <<>>]]
  <2>1. Called("train") = [Idle EXCEPT !.pc = "boot"] /\ CalledRollout("train") = [Idle EXCEPT !.pc = "recv"]
    <3>1. Idle = [pc |-> "idle", kind |-> "train", epoch |-> 0, i |-> 0, got |-> <<>>] BY DEF Idle
    <3>2. [Idle EXCEPT !.pc = "boot"] = [pc |-> "boot", kind |-> "train", epoch |-> 0, i |-> 0, got |-> <<>>] BY <3>1
    <3>3. [Idle EXCEPT !.pc = "recv"] = [pc |-> "recv", kind |-> "train", epoch |-> 0, i |-> 0, got |-> <<>>] BY <3>1
    <3>4. ASSUME NEW z, z = [pc |-> z.pc, kind |-> "train", epoch |-> 0, i |-> 0, got |-> <<>>]
          PROVE  [z EXCEPT !.kind = "train"] = z
      BY <3>4
    <3>5. ASSUME NEW pc PROVE [Idle EXCEPT !.pc = pc, !.kind = "train"] = [[Idle EXCEPT !.pc = pc] EXCEPT !.kind = "train"]
      OBVIOUS
    <3>6. Called("train") = [[Idle EXCEPT !.pc = "boot"] EXCEPT !.kind = "train"]
          /\ CalledRollout("train") = [[Idle EXCEPT !.pc = "recv"] EXCEPT !.kind = "train"]
      BY <3>5 DEF Called, CalledRollout
    <3>7. [[Idle EXCEPT !.pc = "boot"] EXCEPT !.kind = "train"] = [Idle EXCEPT !.pc = "boot"]
          /\ [[Idle EXCEPT !.pc = "recv"] EXCEPT !.kind = "train"] = [Idle EXCEPT !.pc = "recv"]
      <4> DEFINE x == [Idle EXCEPT !.pc = "boot"]
                 y == [Idle EXCEPT !.pc = "recv"]
      <4>1. x = [pc |-> x.pc, kind |-> "train", epoch |-> 0, i |-> 0, got |-> <<>>] BY <3>2
      <4>2. y = [pc |-> y.pc, kind |-> "train", epoch |-> 0, i |-> 0, got |-> <<>>] BY <3>3
      <4> HIDE DEF x, y
      <4>3. [x EXCEPT !.kind = "train"] = x /\ [y EXCEPT !.kind = "train"] = y BY <3>4, <4>1, <4>2
      <4> QED BY <4>3 DEF x, y
    <3> QED BY <3>6, <3>7
  <2> QED BY <2>1 DEF Init
<1>2. cfg.async \in BOOLEAN BY <1>1, ConfigsAssumption DEF Config
<1>3. runner \in RunnerSet /\ runner.pc = (IF cfg.async THEN "run" ELSE "start") /\ runner.step = 0
  BY <1>1 DEF RunnerSet
<1>4. Now = IF cfg.async THEN "train" ELSE "none" BY <1>3 DEF Now
<1>5. /\ me \in EnvSet /\ me.got = <<>> /\ me.pc = (IF cfg.async THEN "boot" ELSE "idle")
      /\ cfg.async => Busy("train", me) /\ PosOf("train", me) = 0 /\ SentOf("train", me, FALSE) = 0
      /\ ro \in RolloutSet /\ ro.got = <<>> /\ ro.pc = (IF cfg.async THEN "recv" ELSE "idle") /\ ro.i = 0 /\ ro.kind = "train"
      /\ 0 < RolloutPositions("train")
  <2>1. "train" \in Kinds BY DEF Kinds
  <2>2. /\ Called("train") \in EnvSet /\ Busy("train", Called("train")) /\ Called("train").pc = "boot"
        /\ Called("train").got = <<>>
        /\ PosOf("train", Called("train")) = 0
        /\ SentOf("train", Called("train"), FALSE) = 0
        /\ 0 < RolloutPositions("train")
        /\ CalledRollout("train") \in RolloutSet /\ CalledRollout("train").pc = "recv" /\ CalledRollout("train").i = 0
        /\ CalledRollout("train").got = <<>> /\ CalledRollout("train").kind = "train"
    BY <1>1, <2>1, CalledIs
  <2>3. /\ Idle \in EnvSet /\ Idle \in RolloutSet /\ Idle.got = <<>> /\ Idle.pc = "idle" /\ Idle.i = 0 /\ Idle.kind = "train"
    <3>1. <<>> \in Seq(Seq(CellSet)) /\ <<>> \in Seq(Seq(LabelledSet)) OBVIOUS
    <3> QED BY <2>1, <3>1 DEF Idle, EnvSet, RolloutSet
  <2>4. CASE called BY <2>2, <2>4
  <2>5. CASE ~called BY <2>2, <2>3, <2>5
  <2> QED BY <2>4, <2>5
<1> HIDE DEF me, ro
<1>6. /\ \A e \in Envs : env[e] = me /\ results[e] = <<>> /\ prefetched[e] = FALSE
      /\ \A r \in Rollouts : rollout[r] = ro /\ version[r] = 0
      /\ \A k \in Kinds, e \in Envs, r \in Rollouts : obs[k][<<e, r>>] = <<>> /\ res[k][<<r, e>>] = <<>>
  BY <1>1
<1>7. TypeOK
  <2>1. obs \in ObsType /\ res \in ResType
    <3>1. <<>> \in Seq(Seq(CellSet)) /\ <<>> \in Seq(Seq(LabelledSet)) OBVIOUS
    <3> QED BY <1>1, <3>1 DEF ObsType, ResType
  <2>2. results \in [Envs -> Seq(ResultSet)] BY <1>1
  <2>3. env \in [Envs -> EnvSet] /\ rollout \in [Rollouts -> RolloutSet] /\ version \in [Rollouts -> Nat]
        /\ prefetched \in [Envs -> BOOLEAN]
    BY <1>1, <1>5
  <2> QED BY <1>1, <1>2, <1>3, <2>1, <2>2, <2>3 DEF TypeOK
<1>8. EnvOK
  <2> SUFFICES ASSUME NEW e \in Envs PROVE EnvIs(e, Now, env[e]) /\ PrefetchIs(runner, env[e], prefetched[e])
    BY DEF EnvOK
  <2>1. Len(EnvSrcs(e)) \in Nat \ {0} /\ Len(<<>>) = 0 BY <1>1, EnvSources
  <2>2. EnvIs(e, Now, me)
    <3>1. Len(me.got) < Len(EnvSrcs(e)) BY <1>5, <2>1
    <3>2. CASE cfg.async BY <1>4, <1>5, <3>1, <3>2 DEF EnvIs
    <3>3. CASE ~cfg.async BY <1>4, <1>5, <3>1, <3>3 DEF EnvIs
    <3> QED BY <3>2, <3>3
  <2>3. PrefetchIs(runner, me, FALSE) BY <1>2, <1>5 DEF PrefetchIs
  <2> QED BY <1>6, <2>2, <2>3
<1>9. RolloutOK
  <2> SUFFICES ASSUME NEW r \in Rollouts PROVE RolloutIs(r, Now, rollout[r])
    BY DEF RolloutOK
  <2>1. Len(RolloutSrcs(r)) \in Nat \ {0} /\ Len(<<>>) = 0 BY <1>1, RolloutSources
  <2>2. RolloutIs(r, Now, ro) BY <1>2, <1>4, <1>5, <2>1 DEF RolloutIs
  <2> QED BY <1>6, <2>2
<1>10. ASSUME NEW k, NEW e \in Envs, NEW r \in Rollouts PROVE (Coming(k, e, r, Now, me, <<>>) = <<>> /\ Going(k, e, r, Now, ro, <<>>) = <<>>) \/ ~Near(e, r)
  <2> SUFFICES ASSUME Near(e, r) PROVE Coming(k, e, r, Now, me, <<>>) = <<>> /\ Going(k, e, r, Now, ro, <<>>) = <<>>
    OBVIOUS
  <2>1. Of(e, r) \in 1..Len(EnvSrcs(e)) /\ By(r, e) \in 1..Len(RolloutSrcs(r))
        /\ Len(EnvSrcs(e)) \in Nat /\ Len(RolloutSrcs(r)) \in Nat
    BY <1>1, EnvSources, RolloutSources
  <2>2. Of(e, r) \in Nat \ {0} /\ By(r, e) \in Nat \ {0} BY <2>1
  <2>3. <<>> \in Seq(Seq(CellSet)) /\ <<>> \in Seq(Seq(LabelledSet)) OBVIOUS
  <2> DEFINE none == <<>>
             now == Now
  <2>4. me.got = <<>> /\ ro.got = <<>> /\ none \in Seq(Seq(CellSet)) /\ none \in Seq(Seq(LabelledSet)) BY <1>5, <2>3
  <2> HIDE DEF none, now
  <2>5. Coming(k, e, r, now, me, none) = none
    <3>1. me.got = <<>> /\ Of(e, r) \in Nat \ {0} /\ none \in Seq(Seq(LabelledSet)) BY <2>2, <2>4
    <3> QED BY <3>1, NothingTaken
  <2>6. Going(k, e, r, now, ro, none) = none
    <3>1. ro.got = <<>> /\ By(r, e) \in Nat \ {0} /\ none \in Seq(Seq(CellSet)) BY <2>2, <2>4
    <3> QED BY <3>1, NothingTaken
  <2> QED BY <2>5, <2>6 DEF none, now
<1>11. Paired
  <2> SUFFICES ASSUME NEW k \in Kinds, NEW e \in Envs, NEW r \in Rollouts, Near(e, r)
               PROVE  PairOK(k, e, r, Now, me, FALSE, ro, <<>>, <<>>)
    BY <1>6 DEF Paired
  <2>1. Coming(k, e, r, Now, me, <<>>) = <<>> /\ Going(k, e, r, Now, ro, <<>>) = <<>> BY <1>10
  <2>2. Pos(k, Now, me) = 0 /\ Sent(k, Now, me, FALSE) = 0 BY <1>2, <1>4, <1>5 DEF Pos, Sent, Kinds
  <2>3. k = Now => IsAt(k, ro, 0) BY <1>2, <1>4, <1>5 DEF IsAt, Kinds
  <2>4. PairIs(k, e, r, Now, 0, 0, ro, <<>>, <<>>) BY <1>1, <2>3, PairEmpty
  <2> QED BY <2>1, <2>2, <2>4 DEF PairOK
<1>12. Apart BY <1>6 DEF Apart
<1>13. ResultsOK BY <1>6 DEF ResultsOK
<1>14. PolicyInOrder
  <2>1. AllInOrder BY <1>6 DEF AllInOrder, InOrder
  <2> QED BY <2>1, PolicyIs
<1>15. VersionsOK
  <2> SUFFICES ASSUME NEW e \in Envs, NEW r \in Rollouts, Near(e, r), Now # "none"
               PROVE  Ordered(e, r, Fresh(Now, env[e]), results[e], Coming(Now, e, r, Now, env[e], res[Now][<<r, e>>]), version[r])
    BY DEF VersionsOK
  <2>1. Now \in Kinds BY <1>2, <1>4 DEF Kinds
  <2>2. Coming(Now, e, r, Now, env[e], res[Now][<<r, e>>]) = <<>> BY <1>6, <1>10, <2>1
  <2>3. results[e] = <<>> /\ Len(<<>>) = 0 /\ DOMAIN <<>> = {} BY <1>6
  <2>4. Ordered(e, r, Fresh(Now, env[e]), <<>>, <<>>, version[r]) BY <2>3 DEF Ordered
  <2> QED BY <2>2, <2>3, <2>4
<1> QED BY <1>7, <1>8, <1>9, <1>11, <1>12, <1>13, <1>14, <1>15 DEF Inv, VInv

\* Every step keeps the invariant; the order of versions needs the rest of it.
LEMMA StepInv == Inv /\ [Next]_vars => Inv' /\ (VInv => VInv')
<1> SUFFICES ASSUME Inv, [Next]_vars PROVE Inv' /\ (VInv => VInv')
  OBVIOUS
<1>1. ASSUME NEW e \in Envs, EnvStep(e) \/ EnvStop(e) PROVE Inv' /\ (VInv => VInv')
  BY <1>1, BootInv, YieldInv, EnvRecvInv, PrefetchInv, EnvStopInv DEF EnvStep
<1>2. ASSUME NEW r \in Rollouts, RolloutRecv(r) \/ RolloutSync(r) \/ RolloutStop(r) PROVE Inv' /\ (VInv => VInv')
  BY <1>2, RolloutRecvInv, SyncInv, RolloutStopInv
<1>3. CASE Runner BY <1>3, StartStepInv, TrainInv, TrainedInv, EvaluatedInv, FinishInv DEF Runner
<1>4. CASE Stop BY <1>4, StopInv
<1>5. CASE UNCHANGED vars BY <1>5, StaysInv
<1> QED BY <1>1, <1>2, <1>3, <1>4, <1>5 DEF Next

\* The invariant holds in every run, whatever the configurations, the number of
\* stages and the bound on versions.
THEOREM Invariance == Spec => [](Inv /\ VInv)
<1>1. Init => Inv /\ VInv BY InitInv
<1>2. (Inv /\ VInv) /\ [Next]_vars => (Inv /\ VInv)' BY StepInv
<1> QED BY <1>1, <1>2, PTL DEF Spec

\* The variables have their types.
THEOREM WellTyped == Spec => []TypeOK
<1>1. Inv /\ VInv => TypeOK BY DEF Inv
<1> QED BY <1>1, Invariance, PTL

\* The versions along a slot's trajectory never go down, and are all one in a
\* synchronous run (AsyncEnvWorker and the rollout workers share no lock:
\* the order comes from the route, which is the same for every batch of a slot).
THEOREM PoliciesInOrder == Spec => []PolicyInOrder
<1>1. Inv /\ VInv => PolicyInOrder BY DEF VInv
<1> QED BY <1>1, Invariance, PTL

\* Rows that name the right cells are the answer to the observation.
LEMMA RowsMatch == ResultsOK => ResultsMatchObs
<1> SUFFICES ASSUME ResultsOK, NEW e \in Envs, NEW l \in DOMAIN results[e]
             PROVE  LET b == results[e][l]
                        asked == Observation(b.kind, e, b.stage, b.n)
                    IN /\ Len(b.rows) = Len(asked)
                       /\ \A j \in DOMAIN asked : b.rows[j].cell = asked[j]
  BY DEF ResultsMatchObs
<1> DEFINE b == results[e][l]
           asked == Observation(b.kind, e, b.stage, b.n)
<1>1. RowsOK(b.rows, b.kind, b.stage, b.n, e) BY DEF ResultsOK
<1> HIDE DEF b
<1>2. DOMAIN Cells(e) = 1..PE /\ \A j \in 1..PE : Cells(e)[j] = e * PE + j - 1 BY DEF Cells, PE
<1>3. DOMAIN asked = 1..PE
      /\ \A j \in 1..PE : asked[j] = [kind |-> b.kind, slot |-> e * PE + j - 1, stage |-> b.stage, n |-> b.n]
  BY <1>2 DEF Observation
<1>4. Len(b.rows) = PE /\ \A j \in 1..PE : b.rows[j].cell = asked[j] BY <1>1, <1>3 DEF RowsOK
<1> QED BY <1>3, <1>4 DEF b

-----------------------------------------------------------------------------
(* What the invariant says of the channels *)

LeftOver(pos, sent, a, b) == \E n \in Nat : pos + a + b + n = sent

\* A queue is no longer than what is on the way.
LEMMA OnTheWay ==
  ASSUME Inv, NEW k \in Kinds, NEW e \in Envs, NEW r \in Rollouts, Near(e, r), NEW pos \in Nat, NEW sent \in Nat,
         NEW now, NEW me \in EnvSet, NEW ro \in RolloutSet,
         NEW q \in Seq(Seq(CellSet)), NEW s \in Seq(Seq(LabelledSet)),
         PairIs(k, e, r, now, pos, sent, ro, Coming(k, e, r, now, me, s), Going(k, e, r, now, ro, q))
  PROVE  LeftOver(pos, sent, Len(q), Len(s))
<1> DEFINE C == Seq(CellSet)
           T == Seq(LabelledSet)
           p1 == TakenPart(k, now, me.got, Of(e, r))
           p2 == TakenPart(k, now, ro.got, By(r, e))
<1>1. /\ q \in Seq(C) /\ s \in Seq(T)
      /\ Of(e, r) \in Nat \ {0} /\ By(r, e) \in Nat \ {0}
  BY PairHas
<1>2. me.got \in Seq(T) /\ ro.got \in Seq(C) BY DEF EnvSet, RolloutSet
<1> HIDE DEF C, T
<1>3. p1 \in Seq(T) /\ p2 \in Seq(C) BY <1>1, <1>2, PartType
<1> HIDE DEF p1, p2
<1>4. Coming(k, e, r, now, me, s) = p1 \o s /\ Going(k, e, r, now, ro, q) = p2 \o q BY DEF Coming, Going, p1, p2
<1>5. pos + Len(p1 \o s) + Len(p2 \o q) = sent BY <1>4 DEF PairIs, Linked
<1>6. Len(p1 \o s) = Len(p1) + Len(s) /\ Len(p1) \in Nat /\ Len(s) \in Nat BY <1>1, <1>3, ConcatIs
<1>7. Len(p2 \o q) = Len(p2) + Len(q) /\ Len(p2) \in Nat /\ Len(q) \in Nat BY <1>1, <1>3, ConcatIs
<1>8. PICK n \in Nat : n = Len(p1) + Len(p2) BY <1>6, <1>7
<1>9. pos + Len(q) + Len(s) + n = sent
  <2> DEFINE a == Len(p1)
             b == Len(p2)
             c == Len(s)
             d == Len(q)
             A == Len(p1 \o s)
             B == Len(p2 \o q)
  <2>1. A = a + c /\ B = b + d /\ a \in Nat /\ b \in Nat /\ c \in Nat /\ d \in Nat /\ pos + A + B = sent /\ n = a + b
    BY <1>5, <1>6, <1>7, <1>8
  <2> HIDE DEF a, b, c, d, A, B
  <2>2. pos + d + c + n = sent BY <2>1
  <2> QED BY <2>2 DEF c, d
<1> QED BY <1>9 DEF LeftOver

\* The invariant bounds what is between two workers.
LEMMA Bounded == Inv => OneBatchPerStage
<1> SUFFICES ASSUME Inv, NEW k \in Kinds, NEW e \in Envs, NEW r \in Rollouts
             PROVE  Len(obs[k][<<e, r>>]) + Len(res[k][<<r, e>>]) <= Stages
  BY DEF OneBatchPerStage
<1>1. CASE ~Near(e, r)
  <2>1. obs[k][<<e, r>>] = <<>> /\ res[k][<<r, e>>] = <<>> /\ Len(<<>>) = 0 /\ Stages \in Nat
    BY <1>1, StagesAssumption DEF Inv, Apart
  <2> QED BY <2>1
<1>2. CASE Near(e, r)
  <2> DEFINE q == obs[k][<<e, r>>]
             s == res[k][<<r, e>>]
             me == env[e]
             pre == prefetched[e]
             ro == rollout[r]
             pos == Pos(k, Now, me)
             sent == Sent(k, Now, me, pre)
  <2>1. /\ cfg \in Configs /\ me \in EnvSet /\ ro \in RolloutSet /\ pre \in BOOLEAN
        /\ q \in Seq(Seq(CellSet)) /\ s \in Seq(Seq(LabelledSet))
        /\ PairOK(k, e, r, Now, me, pre, ro, q, s) /\ EnvIs(e, Now, me)
    BY <1>2, PairHas
  <2>2. PairIs(k, e, r, Now, pos, sent, ro, Coming(k, e, r, Now, me, s), Going(k, e, r, Now, ro, q))
    BY <2>1 DEF PairOK
  <2>3. pos \in Nat /\ sent \in Nat /\ sent <= pos + Stages
    <3>1. Stages \in Nat /\ k # "none" BY StagesAssumption DEF Kinds
    <3>2. CASE k # Now BY <3>1, <3>2 DEF Pos, Sent
    <3>3. CASE k = Now /\ Busy(Now, me)
      <4>1. pos = PosOf(k, me) /\ sent = SentOf(k, me, pre) BY <3>3 DEF Pos, Sent
      <4>2. PosOf(k, me) \in Nat /\ SentOf(k, me, pre) \in Nat /\ SentOf(k, me, pre) <= PosOf(k, me) + Stages
        BY <2>1, <3>3, SentRange
      <4> QED BY <4>1, <4>2
    <3>4. CASE k = Now /\ ~Busy(Now, me)
      <4>1. me.pc = "idle" BY <2>1, <3>1, <3>4 DEF EnvIs
      <4>2. pos = RolloutPositions(k) /\ sent = RolloutPositions(k) BY <3>4, <4>1 DEF Pos, Sent, PosOf, SentOf
      <4> QED BY <2>1, <3>1, <4>2, PositionsType
    <3> QED BY <3>2, <3>3, <3>4
  <2>8. me \in EnvSet /\ ro \in RolloutSet BY <2>1
  <2>9. q \in Seq(Seq(CellSet)) /\ s \in Seq(Seq(LabelledSet)) BY <2>1
  <2> HIDE DEF pos, sent, me, ro, q, s
  <2>10. LeftOver(pos, sent, Len(q), Len(s)) BY <1>2, <2>2, <2>3, <2>8, <2>9, OnTheWay
  <2>4. PICK n \in Nat : pos + Len(q) + Len(s) + n = sent BY <2>10 DEF LeftOver
  <2>5. Len(q) \in Nat /\ Len(s) \in Nat /\ Stages \in Nat BY <2>1, StagesAssumption
  <2> DEFINE a == Len(q)
             b == Len(s)
  <2>6. a \in Nat /\ b \in Nat /\ pos + a + b + n = sent BY <2>4, <2>5
  <2> HIDE DEF a, b
  <2>7. a + b <= Stages BY <2>3, <2>5, <2>6
  <2> QED BY <2>7 DEF a, b, q, s
<1> QED BY <1>1, <1>2

\* When all calls have returned, the pairs hold the prefetched bootstrap or nothing.
LEMMA Clean == Inv => CleanHandover
<1> SUFFICES ASSUME Inv, ~cfg.async, AllIdle PROVE CleanHandover
  BY DEF CleanHandover
<1>1. ASSUME NEW k \in Kinds, NEW e \in Envs, NEW r \in Rollouts
      PROVE  /\ res[k][<<r, e>>] = <<>>
             /\ Len(obs[k][<<e, r>>]) =
                  IF k = "train" /\ prefetched[e] /\ e \in ToSet(RolloutSrcs(r)) THEN Stages ELSE 0
  <2>1. e \in ToSet(RolloutSrcs(r)) <=> Near(e, r)
    <3> DEFINE s == RolloutSrcs(r)
    <3>1. /\ s \in Seq(Envs) /\ By(r, e) \in Int /\ (Near(e, r) <=> By(r, e) \in 1..Len(s))
          /\ \A i \in 1..Len(s) : Near(s[i], r) /\ (s[i] = e <=> i = By(r, e))
      BY <1>1, RolloutSources DEF Inv, TypeOK
    <3> HIDE DEF s
    <3>2. e \in ToSet(s) <=> \E i \in 1..Len(s) : s[i] = e BY <3>1 DEF ToSet
    <3> QED BY <3>1, <3>2 DEF s
  <2>2. CASE ~Near(e, r)
    <3>1. obs[k][<<e, r>>] = <<>> /\ res[k][<<r, e>>] = <<>> /\ Len(<<>>) = 0 BY <2>2 DEF Inv, Apart
    <3> QED BY <2>1, <2>2, <3>1
  <2>3. CASE Near(e, r)
    <3> DEFINE q == obs[k][<<e, r>>]
               s == res[k][<<r, e>>]
               me == env[e]
               ro == rollout[r]
               sent == IF k = "train" /\ prefetched[e] THEN Stages ELSE 0
    <3>1. /\ cfg \in Configs /\ me \in EnvSet /\ ro \in RolloutSet
          /\ q \in Seq(Seq(CellSet)) /\ s \in Seq(Seq(LabelledSet))
          /\ Of(e, r) \in Nat \ {0} /\ By(r, e) \in Nat \ {0}
      BY <2>3, PairHas
    <3>2. PairOK(k, e, r, "none", me, prefetched[e], ro, q, s) BY <2>3, AllReturned DEF Between
    <3>3. k # "none" BY DEF Kinds
    <3>4. PairIs(k, e, r, "none", 0, sent, ro, Coming(k, e, r, "none", me, s), Going(k, e, r, "none", ro, q))
      BY <3>2, <3>3 DEF PairOK, Pos, Sent
    <3> HIDE DEF q, s, me, ro, sent
    <3>5. Coming(k, e, r, "none", me, s) = s /\ Going(k, e, r, "none", ro, q) = q
      <4> DEFINE none == "none"
      <4>1. k # none BY <3>3
      <4> HIDE DEF none
      <4>2. Coming(k, e, r, none, me, s) = s BY <3>1, <4>1, NothingTaken
      <4>3. Going(k, e, r, none, ro, q) = q BY <3>1, <4>1, NothingTaken
      <4> QED BY <4>2, <4>3 DEF none
    <3>6. s = <<>> /\ 0 + Len(s) + Len(q) = sent BY <3>3, <3>4, <3>5 DEF PairIs, Linked
    <3>7. Len(<<>>) = 0 /\ Len(q) \in Nat BY <3>1
    <3>8. s = <<>> /\ Len(q) = sent BY <3>6, <3>7
    <3> QED BY <2>1, <2>3, <3>8 DEF q, s, sent
  <2> QED BY <2>2, <2>3
<1>2. ASSUME runner.pc = "done", NEW e \in Envs PROVE ~prefetched[e]
  BY <1>2, EnvHas DEF PrefetchIs
<1> QED BY <1>1, <1>2 DEF CleanHandover

\* Between two calls of a synchronous run nothing is left in the channels but a
\* prefetched bootstrap, and after the run nothing at all.
THEOREM HandedOverClean == Spec => []CleanHandover
<1>1. Inv /\ VInv => CleanHandover BY Clean
<1> QED BY <1>1, Invariance, PTL

\* Two workers never have more than a batch per stage on the way, though the
\* channels of env and rollout workers are created without a maxsize.
THEOREM HeldBack == Spec => []OneBatchPerStage
<1>1. Inv /\ VInv => OneBatchPerStage BY Bounded
<1> QED BY <1>1, Invariance, PTL

\* Every row an env worker takes answers its own latest observation of this
\* slot and stage: split and merge by rank maps are inverse to each other.
THEOREM AnswersMatch == Spec => []ResultsMatchObs
<1>1. Inv /\ VInv => ResultsMatchObs BY RowsMatch DEF Inv
<1> QED BY <1>1, Invariance, PTL
=============================================================================
