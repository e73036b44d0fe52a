---------------------------- MODULE ChannelProofs ----------------------------
(***************************************************************************)
(* For any program: every item is in one place, a put that waits knows of   *)
(* the room, and where the order and the wake-ups of the code allow it,     *)
(* items enter in order and no get waits for an item that is there; and a   *)
(* worker whose gets are all asynchronous, or none, gets its own answers.   *)
(***************************************************************************)
EXTENDS Channel, ChannelGet, WellFoundedInduction, FiniteSetTheorems, SequenceTheorems, TLAPS

-----------------------------------------------------------------------------
(* Induction, in a form that needs no predicate *)

\* A set of natural numbers has a least element.
LEMMA LeastNumber ==
  ASSUME NEW T, T \subseteq Nat, T # {}
  PROVE  \E x \in T : \A y \in T : x <= y
<1> DEFINE R == {ss \in Nat \X Nat : ss[1] < ss[2]}
<1>1. IsWellFoundedOn(R, Nat)
  BY NatLessThanWellFounded DEF OpToRel
<1>2. PICK x \in T : \A y \in T : ~(<<y, x>> \in R)
  <2> HIDE DEF R
  <2> QED BY <1>1, WFMin
<1>3. \A y \in T : x <= y
  <2> SUFFICES ASSUME NEW y \in T, y < x PROVE FALSE
    OBVIOUS
  <2>1. <<y, x>> \in Nat \X Nat
    OBVIOUS
  <2> QED BY <1>2, <2>1
<1> QED BY <1>3

\* A set that has 0, and the next of each of its numbers, has all.
LEMMA Induction ==
  ASSUME NEW T, 0 \in T, \A n \in T \cap Nat : n + 1 \in T
  PROVE  Nat \subseteq T
<1> DEFINE S == Nat \ T
<1> SUFFICES ASSUME S # {} PROVE FALSE
  OBVIOUS
<1>1. PICK x \in S : \A y \in S : x <= y
  <2>1. S \subseteq Nat
    OBVIOUS
  <2> HIDE DEF S
  <2> QED BY <2>1, LeastNumber
<1>2. x - 1 \in Nat \cap T
  BY <1>1
<1>3. (x - 1) + 1 = x
  OBVIOUS
<1> QED BY <1>2, <1>3

\* f[i] is what base has become after i steps.
Iterated(f, m, B, base, step) ==
  /\ f \in [0..m -> B]
  /\ f[0] = base
  /\ \A i \in 1..m : f[i] = step[<<i, f[i - 1]>>]

LEMMA Recursion ==
  ASSUME NEW B, NEW base \in B, NEW step \in [Nat \X B -> B], NEW m \in Nat
  PROVE  \E f : Iterated(f, m, B, base, step)
<1> DEFINE Steps(f, k) == f[0] = base /\ \A i \in 1..k : f[i] = step[<<i, f[i - 1]>>]
           T == {k \in Nat : \E f \in [0..k -> B] : Steps(f, k)}
<1>1. 0 \in T
  <2>1. [i \in 0..0 |-> base] \in [0..0 -> B] /\ Steps([i \in 0..0 |-> base], 0)
    OBVIOUS
  <2> QED BY <2>1
<1>2. ASSUME NEW k \in T PROVE k + 1 \in T
  <2>1. PICK f \in [0..k -> B] : Steps(f, k)
    OBVIOUS
  <2> DEFINE g == [i \in 0..k + 1 |-> IF i <= k THEN f[i] ELSE step[<<k + 1, f[k]>>]]
  <2>2. g \in [0..k + 1 -> B]
    OBVIOUS
  <2>3. Steps(g, k + 1)
    <3>1. g[0] = base
      BY <2>1
    <3>2. ASSUME NEW i \in 1..k + 1 PROVE g[i] = step[<<i, g[i - 1]>>]
      <4>1. CASE i <= k
        <5>1. g[i] = f[i] /\ g[i - 1] = f[i - 1] /\ i \in 1..k
          BY <3>2, <4>1
        <5> QED BY <2>1, <5>1
      <4>2. CASE i = k + 1
        <5>1. g[k + 1] = step[<<k + 1, f[k]>>] /\ g[k] = f[k] /\ (k + 1) - 1 = k
          OBVIOUS
        <5> QED BY <4>2, <5>1
      <4> QED BY <3>2, <4>1, <4>2
    <3> QED BY <3>1, <3>2
  <2> HIDE DEF g
  <2> QED BY <2>2, <2>3
<1>3. Nat \subseteq T
  <2> HIDE DEF T
  <2> QED BY <1>1, <1>2, Induction
<1>4. PICK f \in [0..m -> B] : Steps(f, m)
  BY <1>3
<1> QED BY <1>4 DEF Iterated

-----------------------------------------------------------------------------
(* Sequences and their elements *)

LEMMA LeastIs ==
  ASSUME NEW T, T \subseteq Nat, T # {}
  PROVE  Min(T) \in T /\ \A y \in T : Min(T) <= y
BY LeastNumber DEF Min

LEMMA Element ==
  ASSUME NEW S, NEW s \in Seq(S)
  PROVE  /\ \A i : i \in ToSet(s) <=> \E n \in 1..Len(s) : s[n] = i
         /\ IsInjective(s) <=> \A m, n \in 1..Len(s) : s[m] = s[n] => m = n
         /\ ToSet(s) \subseteq S /\ Len(s) \in Nat
BY DEF ToSet, IsInjective

LEMMA EmptyOne == ToSet(<<>>) = {} /\ IsInjective(<<>>) /\ \A S : <<>> \in Seq(S)
BY DEF ToSet, IsInjective

\* A sequence and its two parts.
LEMMA Parted ==
  ASSUME NEW S, NEW s \in Seq(S), NEW n \in 0..Len(s)
  PROVE  LET x == SubSeq(s, 1, n)
             y == SubSeq(s, n + 1, Len(s))
         IN  /\ x \in Seq(S) /\ Len(x) = n /\ y \in Seq(S) /\ Len(y) = Len(s) - n
             /\ ToSet(s) = ToSet(x) \cup ToSet(y)
             /\ IsInjective(s) => IsInjective(x) /\ IsInjective(y) /\ ToSet(x) \cap ToSet(y) = {}
<1> DEFINE x == SubSeq(s, 1, n)
           y == SubSeq(s, n + 1, Len(s))
<1>1. x \in Seq(S) /\ Len(x) = n /\ \A i \in 1..n : x[i] = s[i]
  OBVIOUS
<1>2. y \in Seq(S) /\ Len(y) = Len(s) - n /\ \A i \in 1..Len(s) - n : y[i] = s[n + i]
  OBVIOUS
<1> HIDE DEF x, y
<1>0. Len(s) \in Nat /\ n \in Nat /\ n <= Len(s)
  OBVIOUS
<1>3. \A i \in ToSet(x) \cup ToSet(y) : i \in ToSet(s)
  <2>1. ASSUME NEW m \in 1..n PROVE x[m] \in ToSet(s)
    BY <1>0, <1>1, <2>1, Element
  <2>2. ASSUME NEW m \in 1..Len(s) - n PROVE y[m] \in ToSet(s)
    <3>1. n + m \in 1..Len(s)
      BY <1>0
    <3>2. y[m] = s[n + m]
      BY <1>2
    <3> QED BY <3>1, <3>2, Element
  <2>3. ASSUME NEW i \in ToSet(x) PROVE i \in ToSet(s)
    BY <1>1, <2>1, <2>3, Element
  <2>4. ASSUME NEW i \in ToSet(y) PROVE i \in ToSet(s)
    BY <1>2, <2>2, <2>4, Element
  <2> QED BY <2>3, <2>4
<1>4. ASSUME NEW m \in 1..Len(s) PROVE s[m] \in ToSet(x) \cup ToSet(y)
  <2>1. CASE m <= n
    BY <1>0, <1>1, <2>1, Element
  <2>2. CASE m > n
    <3>1. m - n \in 1..Len(s) - n /\ n + (m - n) = m
      BY <1>0, <2>2
    <3>2. s[m] = y[m - n] /\ m - n \in 1..Len(y)
      BY <1>2, <3>1
    <3> QED BY <1>2, <3>2, Element
  <2> QED BY <1>0, <2>1, <2>2
<1>5. ASSUME IsInjective(s)
      PROVE  IsInjective(x) /\ IsInjective(y) /\ ToSet(x) \cap ToSet(y) = {}
  <2>1. IsInjective(x)
    BY <1>0, <1>1, <1>5, Element
  <2>2. IsInjective(y)
    <3> SUFFICES ASSUME NEW i \in 1..Len(s) - n, NEW j \in 1..Len(s) - n, y[i] = y[j]
                 PROVE  i = j
      BY <1>2, Element
    <3>1. n + i \in 1..Len(s) /\ n + j \in 1..Len(s) /\ s[n + i] = s[n + j]
      BY <1>0, <1>2
    <3>2. n + i = n + j
      BY <1>5, <3>1, Element
    <3> QED BY <1>0, <3>2
  <2>3. ASSUME NEW i \in 1..n, NEW j \in 1..Len(s) - n PROVE x[i] # y[j]
    <3>1. i \in 1..Len(s) /\ n + j \in 1..Len(s) /\ i # n + j
      BY <1>0
    <3>2. s[i] # s[n + j]
      BY <1>5, <3>1, Element
    <3> QED BY <1>1, <1>2, <3>2
  <2>4. ASSUME NEW i \in ToSet(x), i \in ToSet(y) PROVE FALSE
    <3>1. PICK k \in 1..n : x[k] = i
      BY <1>1, Element
    <3>2. PICK j \in 1..Len(s) - n : y[j] = i
      BY <1>2, <2>4, Element
    <3> QED BY <2>3, <3>1, <3>2
  <2> QED BY <2>1, <2>2, <2>4
<1>6. ToSet(s) = ToSet(x) \cup ToSet(y)
  BY <1>3, <1>4, Element
<1> QED BY <1>1, <1>2, <1>5, <1>6 DEF x, y

LEMMA Joined ==
  ASSUME NEW S, NEW s \in Seq(S), NEW t \in Seq(S)
  PROVE  /\ s \o t \in Seq(S) /\ Len(s \o t) = Len(s) + Len(t)
         /\ ToSet(s \o t) = ToSet(s) \cup ToSet(t)
         /\ IsInjective(s) /\ IsInjective(t) /\ ToSet(s) \cap ToSet(t) = {} => IsInjective(s \o t)
<1> DEFINE z == s \o t
<1>0. Len(s) \in Nat /\ Len(t) \in Nat
  OBVIOUS
<1>1. /\ z \in Seq(S) /\ Len(z) = Len(s) + Len(t)
      /\ \A i \in 1..Len(s) : z[i] = s[i]
      /\ \A i \in Len(s) + 1..Len(s) + Len(t) : z[i] = t[i - Len(s)]
  OBVIOUS
<1> HIDE DEF z
<1>2. ASSUME NEW i \in ToSet(s) \cup ToSet(t) PROVE i \in ToSet(z)
  <2>1. CASE i \in ToSet(s)
    <3>1. PICK m \in 1..Len(s) : s[m] = i
      BY <2>1, Element
    <3>2. m \in 1..Len(z) /\ z[m] = i
      BY <1>0, <1>1, <3>1
    <3> QED BY <1>1, <3>2, Element
  <2>2. CASE i \in ToSet(t)
    <3>1. PICK m \in 1..Len(t) : t[m] = i
      BY <2>2, Element
    <3>2. Len(s) + m \in Len(s) + 1..Len(s) + Len(t) /\ (Len(s) + m) - Len(s) = m
      BY <1>0
    <3>3. z[Len(s) + m] = t[(Len(s) + m) - Len(s)]
      BY <1>1, <3>2
    <3>4. Len(s) + m \in 1..Len(z) /\ z[Len(s) + m] = i
      BY <1>0, <1>1, <3>1, <3>2, <3>3
    <3> QED BY <1>1, <3>4, Element
  <2> QED BY <2>1, <2>2
<1>3. ASSUME NEW m \in 1..Len(z)
      PROVE  \/ m \in 1..Len(s) /\ z[m] = s[m]
             \/ m - Len(s) \in 1..Len(t) /\ z[m] = t[m - Len(s)]
  <2>1. CASE m <= Len(s)
    BY <1>0, <1>1, <2>1
  <2>2. CASE m > Len(s)
    <3>1. m \in Len(s) + 1..Len(s) + Len(t) /\ m - Len(s) \in 1..Len(t)
      BY <1>0, <1>1, <2>2
    <3> QED BY <1>1, <3>1
  <2> QED BY <1>0, <2>1, <2>2
<1>4. ToSet(z) = ToSet(s) \cup ToSet(t)
  <2>1. ASSUME NEW i \in ToSet(z) PROVE i \in ToSet(s) \cup ToSet(t)
    <3>1. PICK m \in 1..Len(z) : z[m] = i
      BY <1>1, Element
    <3> QED BY <1>3, <3>1, Element
  <2> QED BY <1>2, <2>1
<1>5. ASSUME IsInjective(s), IsInjective(t), ToSet(s) \cap ToSet(t) = {} PROVE IsInjective(z)
  <2> SUFFICES ASSUME NEW m \in 1..Len(z), NEW n \in 1..Len(z), z[m] = z[n] PROVE m = n
    BY <1>1, Element
  <2>1. CASE m \in 1..Len(s) /\ n \in 1..Len(s)
    <3>1. s[m] = s[n]
      BY <1>1, <2>1
    <3> QED BY <1>5, <2>1, <3>1, Element
  <2>2. ASSUME NEW a \in 1..Len(s), NEW b \in 1..Len(t) PROVE s[a] # t[b]
    <3>1. s[a] \in ToSet(s) /\ t[b] \in ToSet(t)
      BY Element
    <3> QED BY <1>5, <3>1
  <2>3. CASE /\ m - Len(s) \in 1..Len(t) /\ z[m] = t[m - Len(s)]
             /\ n - Len(s) \in 1..Len(t) /\ z[n] = t[n - Len(s)]
    <3>0. \A a, b \in 1..Len(t) : t[a] = t[b] => a = b
      BY <1>5, Element
    <3>1. m - Len(s) = n - Len(s)
      BY <2>3, <3>0
    <3> QED BY <1>0, <3>1
  <2> QED BY <1>3, <2>1, <2>2, <2>3
<1> QED BY <1>1, <1>4, <1>5 DEF z

LEMMA Appended ==
  ASSUME NEW S, NEW s \in Seq(S), NEW e \in S
  PROVE  /\ Append(s, e) \in Seq(S) /\ Len(Append(s, e)) = Len(s) + 1
         /\ ToSet(Append(s, e)) = ToSet(s) \cup {e}
         /\ IsInjective(s) /\ e \notin ToSet(s) => IsInjective(Append(s, e))
<1>1. <<e>> \in Seq(S) /\ ToSet(<<e>>) = {e} /\ IsInjective(<<e>>) /\ Len(<<e>>) = 1
  BY DEF ToSet, IsInjective
<1>3. e \notin ToSet(s) => ToSet(s) \cap ToSet(<<e>>) = {}
  BY <1>1
<1>4. /\ s \o <<e>> \in Seq(S) /\ Len(s \o <<e>>) = Len(s) + Len(<<e>>)
      /\ ToSet(s \o <<e>>) = ToSet(s) \cup ToSet(<<e>>)
      /\ IsInjective(s) /\ IsInjective(<<e>>) /\ ToSet(s) \cap ToSet(<<e>>) = {}
         => IsInjective(s \o <<e>>)
  BY <1>1, Joined
<1>2. Append(s, e) = s \o <<e>>
  BY AppendIsConcat
<1> QED BY <1>1, <1>2, <1>3, <1>4

LEMMA Tailed ==
  ASSUME NEW S, NEW s \in Seq(S), s # <<>>
  PROVE  /\ Head(s) \in ToSet(s) /\ Tail(s) \in Seq(S)
         /\ IsInjective(s) => IsInjective(Tail(s)) /\ ToSet(Tail(s)) = ToSet(s) \ {Head(s)}
<1>1. Len(s) \in Nat \ {0} /\ Head(s) = s[1] /\ Head(s) \in S
  OBVIOUS
<1>2. /\ Tail(s) \in Seq(S) /\ Len(Tail(s)) = Len(s) - 1
      /\ \A i \in 1..Len(s) - 1 : Tail(s)[i] = s[i + 1]
  OBVIOUS
<1> DEFINE z == Tail(s)
<1> HIDE DEF z
<1>3. ASSUME NEW i \in 1..Len(z) PROVE z[i] = s[i + 1] /\ i + 1 \in 1..Len(s) /\ i + 1 # 1
  BY <1>1, <1>2 DEF z
<1>4. ASSUME NEW j \in 1..Len(s), j # 1 PROVE j - 1 \in 1..Len(z) /\ z[j - 1] = s[j]
  <2>1. j - 1 \in 1..Len(s) - 1 /\ (j - 1) + 1 = j
    BY <1>1, <1>4
  <2> QED BY <1>2, <2>1 DEF z
<1>5. Head(s) \in ToSet(s) /\ z \in Seq(S)
  BY <1>1, <1>2, Element DEF z
<1>6. ASSUME IsInjective(s) PROVE IsInjective(z) /\ ToSet(z) = ToSet(s) \ {Head(s)}
  <2>1. IsInjective(z)
    <3> SUFFICES ASSUME NEW m \in 1..Len(z), NEW n \in 1..Len(z), z[m] = z[n] PROVE m = n
      BY <1>5, Element
    <3>1. m + 1 = n + 1
      BY <1>3, <1>6, Element
    <3> QED BY <3>1
  <2>2. ASSUME NEW i \in ToSet(z) PROVE i \in ToSet(s) \ {Head(s)}
    <3>1. PICK m \in 1..Len(z) : z[m] = i
      BY <1>5, Element
    <3>2. i = s[m + 1] /\ m + 1 \in 1..Len(s) /\ m + 1 # 1 /\ 1 \in 1..Len(s)
      BY <1>1, <1>3, <3>1
    <3>3. s[m + 1] # s[1]
      BY <1>6, <3>2, Element
    <3> QED BY <1>1, <3>2, <3>3, Element
  <2>3. ASSUME NEW i \in ToSet(s) \ {Head(s)} PROVE i \in ToSet(z)
    <3>1. PICK j \in 1..Len(s) : s[j] = i
      BY Element
    <3>2. j - 1 \in 1..Len(z) /\ z[j - 1] = i
      BY <1>1, <1>4, <2>3, <3>1
    <3> QED BY <1>5, <3>2, Element
  <2> QED BY <2>1, <2>2, <2>3
<1> QED BY <1>5, <1>6 DEF z

LEMMA Counted ==
  ASSUME NEW S, NEW s \in Seq(S), IsInjective(s)
  PROVE  IsFiniteSet(ToSet(s)) /\ Cardinality(ToSet(s)) = Len(s)
<1>1. Len(s) \in Nat /\ s \in [1..Len(s) -> ToSet(s)] /\ DOMAIN s = 1..Len(s)
  BY DEF ToSet
<1>2. s \in Bijection(1..Len(s), ToSet(s))
  BY <1>1 DEF Bijection, Injection, Surjection, IsInjective, ToSet
<1>3. IsFiniteSet(1..Len(s)) /\ Cardinality(1..Len(s)) = Len(s)
  BY <1>1, FS_Interval
<1> QED BY <1>2, <1>3, FS_Bijection DEF ExistsBijection

-----------------------------------------------------------------------------
(* The invariant *)

Consumers == Gets \cup Batches

States == {"new", "ready", "waiting", "done", "raised"}

Types ==
  /\ program \in Programs
  /\ issued \subseteq Puts /\ received \subseteq issued
  /\ carries \in [Puts -> Puts \cup {0}]
  /\ state \in [Calls -> States]
  /\ ready \in Seq(Calls)
  /\ queue \in [Keys -> Seq(Puts)] /\ entered \in [Keys -> Seq(Puts)]
  /\ getters \in [Keys -> Seq(Consumers)] /\ putters \in [Keys -> Seq(Puts)]
  /\ taken \in [Consumers -> Seq(Puts)]

\* The event loop has the calls that can run, once each.
Loop == IsInjective(ready) /\ ToSet(ready) = {c \in Calls : state[c] = "ready"}

\* A call waits once, and for the key it has to do with.
Waiters ==
  \A k \in Keys :
    /\ IsInjective(getters[k]) /\ IsInjective(putters[k])
    /\ \A c \in ToSet(getters[k]) : state[c] = "waiting" /\ Key(c) = k
    /\ \A p \in ToSet(putters[k]) : state[p] = "waiting" /\ carries[p] # 0 /\ Key(carries[p]) = k
    /\ putters[k] # <<>> => MaxSize > 0
    /\ MaxSize > 0 => Len(queue[k]) <= MaxSize

Beginning(S) == \A q \in S, p \in Puts : p < q => p \in S

\* The items received are the first of the stream, each carried by one put.
Stream ==
  /\ Beginning(issued) /\ Beginning(received)
  /\ \A p \in Puts :
       /\ state[p] # "new" => p \in issued
       /\ state[p] = "new" => carries[p] = 0
       /\ carries[p] = 0 => state[p] \in {"new", "ready"}
       /\ carries[p] # 0 => carries[p] \in received
  /\ \A i \in received : \E p \in Puts : carries[p] = i
  /\ \A p, q \in Puts : carries[p] # 0 /\ carries[p] = carries[q] => p = q

StoredIn(i, q, t) ==
  (\E k \in Keys : i \in ToSet(q[k])) \/ (\E c \in Consumers : i \in ToSet(t[c]))

\* An item is in the queue of its key, or with one consumer of its key, once,
\* from the moment its put is done.
Places ==
  /\ \A k \in Keys : IsInjective(queue[k]) /\ \A i \in ToSet(queue[k]) : Key(i) = k
  /\ \A c \in Consumers :
       /\ IsInjective(taken[c])
       /\ \A i \in ToSet(taken[c]) : Key(i) = Key(c) /\ i \notin ToSet(queue[Key(c)])
  /\ \A c, d \in Consumers : c # d => ToSet(taken[c]) \cap ToSet(taken[d]) = {}
  /\ \A p \in Puts : carries[p] # 0 => (state[p] = "done" <=> StoredIn(carries[p], queue, taken))
  /\ \A i \in Puts : StoredIn(i, queue, taken) => i \in received
  /\ \A k \in Keys : \A i \in ToSet(entered[k]) :
       \E p \in Puts : carries[p] = i /\ state[p] = "done"

\* AsyncChannelWork: the puts of a key run one after the other.
Chained ==
  \A p, q \in Puts : q < p /\ Key(q) = Key(p) /\ state[p] # "new" => state[q] = "done"

\* The puts that are about to enter the item they hold.
Entering(k) == {p \in Puts : state[p] = "ready" /\ carries[p] # 0 /\ Key(carries[p]) = k}

\* For all the room that puts wait for, there is a put that has been woken.
RoomIsKnown ==
  \A k \in Keys : putters[k] # <<>> => MaxSize <= Len(queue[k]) + Cardinality(Entering(k))

IInv == Types /\ Loop /\ Waiters /\ Stream /\ Places /\ Chained /\ RoomIsKnown

-----------------------------------------------------------------------------
(* What a program is *)

LEMMA Calling ==
  ASSUME program \in Programs
  PROVE  /\ Calls = 1..Len(Requests) /\ Len(Requests) \in Nat /\ MaxSize \in Nat
         /\ Calls = Puts \cup Consumers /\ Puts \cap Consumers = {} /\ Gets \cap Batches = {}
         /\ Puts \subseteq Nat \ {0} /\ Puts \subseteq Calls /\ Consumers \subseteq Calls
         /\ IsFiniteSet(Calls) /\ IsFiniteSet(Puts) /\ IsFiniteSet(Consumers)
         /\ \A c \in Calls : Key(c) \in Keys /\ Weight(c) \in Nat
<1>1. MaxSize \in Nat /\ Requests \in Seq(Request)
  BY ChannelAssumption DEF MaxSize, Requests
<1>2. Calls = 1..Len(Requests) /\ Len(Requests) \in Nat /\ \A c \in Calls : Requests[c] \in Request
  BY <1>1 DEF Calls
<1>3. /\ Calls = Puts \cup Consumers /\ Puts \cap Consumers = {} /\ Gets \cap Batches = {}
      /\ Puts \subseteq Calls /\ Consumers \subseteq Calls
  BY <1>2 DEF Puts, Gets, Batches, Consumers, Request
<1>4. IsFiniteSet(Calls)
  BY <1>2, FS_Interval
<1>5. IsFiniteSet(Puts) /\ IsFiniteSet(Consumers)
  BY <1>3, <1>4, FS_Subset
<1>6. \A c \in Calls : Key(c) \in Keys /\ Weight(c) \in Nat
  BY <1>2 DEF Key, Weight, Request
<1>7. Puts \subseteq Nat \ {0}
  BY <1>2, <1>3
<1> QED BY <1>1, <1>2, <1>3, <1>4, <1>5, <1>6, <1>7

LEMMA Frame ==
  ASSUME program' = program
  PROVE  /\ Puts' = Puts /\ Calls' = Calls /\ Consumers' = Consumers /\ Batches' = Batches
         /\ MaxSize' = MaxSize
BY DEF Puts, Calls, Requests, Consumers, Gets, Batches, MaxSize

\* The parts of the invariant in the next state, with the program of this one.
LEMMA WaitersNext ==
  ASSUME program' = program,
         \A k \in Keys :
           /\ IsInjective(getters'[k]) /\ IsInjective(putters'[k])
           /\ \A c \in ToSet(getters'[k]) : state'[c] = "waiting" /\ Key(c) = k
           /\ \A p \in ToSet(putters'[k]) :
                state'[p] = "waiting" /\ carries'[p] # 0 /\ Key(carries'[p]) = k
           /\ putters'[k] # <<>> => MaxSize > 0
           /\ MaxSize > 0 => Len(queue'[k]) <= MaxSize
  PROVE  Waiters'
BY DEF Waiters, Key, Requests, MaxSize

LEMMA StreamNext ==
  ASSUME program' = program, Beginning(issued'), Beginning(received'),
         \A p \in Puts :
           /\ state'[p] # "new" => p \in issued'
           /\ state'[p] = "new" => carries'[p] = 0
           /\ carries'[p] = 0 => state'[p] \in {"new", "ready"}
           /\ carries'[p] # 0 => carries'[p] \in received',
         \A i \in received' : \E p \in Puts : carries'[p] = i,
         \A p, q \in Puts : carries'[p] # 0 /\ carries'[p] = carries'[q] => p = q
  PROVE  Stream'
BY DEF Stream, Beginning, Puts, Calls, Requests

LEMMA PlacesNext ==
  ASSUME program' = program,
         \A k \in Keys : IsInjective(queue'[k]) /\ \A i \in ToSet(queue'[k]) : Key(i) = k,
         \A c \in Consumers :
           /\ IsInjective(taken'[c])
           /\ \A i \in ToSet(taken'[c]) : Key(i) = Key(c) /\ i \notin ToSet(queue'[Key(c)]),
         \A c, d \in Consumers : c # d => ToSet(taken'[c]) \cap ToSet(taken'[d]) = {},
         \A p \in Puts :
           carries'[p] # 0 => (state'[p] = "done" <=> StoredIn(carries'[p], queue', taken')),
         \A i \in Puts : StoredIn(i, queue', taken') => i \in received',
         \A k \in Keys : \A i \in ToSet(entered'[k]) :
           \E p \in Puts : carries'[p] = i /\ state'[p] = "done"
  PROVE  Places'
<1>1. \A c : Key(c)' = Key(c)
  BY DEF Key, Requests
<1>2. Puts' = Puts /\ Consumers' = Consumers
  BY Frame
<1> QED BY <1>1, <1>2 DEF Places, StoredIn, Key, Requests

LEMMA ChainedNext ==
  ASSUME program' = program,
         \A p, q \in Puts : q < p /\ Key(q) = Key(p) /\ state'[p] # "new" => state'[q] = "done"
  PROVE  Chained'
BY DEF Chained, Key, Requests, Puts, Calls

LEMMA RoomIsKnownNext ==
  ASSUME program' = program, NEW E,
         \A k \in Keys : E[k] = {p \in Puts : /\ state'[p] = "ready" /\ carries'[p] # 0
                                             /\ Key(carries'[p]) = k},
         \A k \in Keys : putters'[k] # <<>> => MaxSize <= Len(queue'[k]) + Cardinality(E[k])
  PROVE  RoomIsKnown'
<1>1. \A k \in Keys : E[k] = Entering(k)'
  BY DEF Entering, Key, Requests, Puts, Calls
<1> QED BY <1>1 DEF RoomIsKnown, MaxSize

-----------------------------------------------------------------------------
(* The event loop and its waiters *)

LEMMA WakeUp ==
  ASSUME NEW S, NEW w \in Seq(S), NEW n \in Nat
  PROVE  /\ Woken(w, n) \in Seq(S) /\ Others(w, n) \in Seq(S)
         /\ Len(Woken(w, n)) = IF n <= Len(w) THEN n ELSE Len(w)
         /\ Len(Others(w, n)) = Len(w) - Len(Woken(w, n))
         /\ ToSet(w) = ToSet(Woken(w, n)) \cup ToSet(Others(w, n))
         /\ IsInjective(w) => /\ IsInjective(Woken(w, n)) /\ IsInjective(Others(w, n))
                              /\ ToSet(Woken(w, n)) \cap ToSet(Others(w, n)) = {}
<1> DEFINE m == IF n <= Len(w) THEN n ELSE Len(w)
<1>1. Len(w) \in Nat /\ m \in 0..Len(w)
  OBVIOUS
<1>2. Min({n, Len(w)}) = m
  <2>1. \A x : x \in {n, Len(w)} /\ (\A y \in {n, Len(w)} : x <= y) => x = m
    BY <1>1
  <2>2. {n, Len(w)} \subseteq Nat /\ {n, Len(w)} # {}
    BY <1>1
  <2> HIDE DEF m
  <2>3. Min({n, Len(w)}) \in {n, Len(w)} /\ \A y \in {n, Len(w)} : Min({n, Len(w)}) <= y
    BY <2>2, LeastIs
  <2> QED BY <2>1, <2>3
<1> HIDE DEF m
<1> DEFINE x == SubSeq(w, 1, m)
           y == SubSeq(w, m + 1, Len(w))
<1>3. /\ x \in Seq(S) /\ Len(x) = m /\ y \in Seq(S) /\ Len(y) = Len(w) - m
      /\ ToSet(w) = ToSet(x) \cup ToSet(y)
      /\ IsInjective(w) => IsInjective(x) /\ IsInjective(y) /\ ToSet(x) \cap ToSet(y) = {}
  BY <1>1, Parted
<1>4. Woken(w, n) = x
  BY <1>2 DEF Woken
<1>5. Others(w, n) = y
  BY <1>3, <1>4 DEF Others
<1> HIDE DEF x, y
<1> QED BY <1>3, <1>4, <1>5 DEF m

\* The running call leaves, and with the woken ones the loop has what can run.
LEMMA LeaveKeeps ==
  ASSUME Types, Loop, ready # <<>>, NEW s \in {"waiting", "done", "raised"},
         NEW w \in Seq(Calls), IsInjective(w), \A d \in ToSet(w) : state[d] = "waiting",
         program' = program, Leave(Head(ready), s, w)
  PROVE  /\ state' \in [Calls -> States] /\ ready' \in Seq(Calls) /\ Loop'
         /\ Head(ready) \in Calls /\ state[Head(ready)] = "ready" /\ state'[Head(ready)] = s
         /\ \A d \in Calls : d # Head(ready) =>
              state'[d] = IF d \in ToSet(w) THEN "ready" ELSE state[d]
<1> DEFINE c == Head(ready)
<1>1. ready \in Seq(Calls)
  BY DEF Types
<1>2. /\ c \in ToSet(ready) /\ Tail(ready) \in Seq(Calls)
      /\ IsInjective(Tail(ready)) /\ ToSet(Tail(ready)) = ToSet(ready) \ {c}
  BY <1>1, Tailed DEF Loop
<1>3. c \in Calls /\ state[c] = "ready"
  BY <1>2 DEF Loop
<1>4. ToSet(w) \subseteq Calls
  BY Element
<1>5. ToSet(Tail(ready)) \cap ToSet(w) = {}
  BY <1>2 DEF Loop
<1>6. /\ ready' \in Seq(Calls) /\ IsInjective(ready')
      /\ ToSet(ready') = (ToSet(ready) \ {c}) \cup ToSet(w)
  <2>1. ready' = Tail(ready) \o w
    BY DEF Leave
  <2> DEFINE t == Tail(ready)
  <2>2. t \in Seq(Calls) /\ IsInjective(t) /\ ToSet(t) \cap ToSet(w) = {}
    BY <1>2, <1>5
  <2> HIDE DEF t
  <2>3. t \o w \in Seq(Calls) /\ IsInjective(t \o w) /\ ToSet(t \o w) = ToSet(t) \cup ToSet(w)
    BY <2>2, Joined
  <2> QED BY <1>2, <2>1, <2>3 DEF t
<1> HIDE DEF c
<1>7. state' = [d \in Calls |-> IF d = c THEN s ELSE IF d \in ToSet(w) THEN "ready" ELSE state[d]]
  BY DEF Leave, c
<1>8. state' \in [Calls -> States]
  BY <1>7 DEF Types, States
<1>9. ToSet(ready') = {d \in Calls : state'[d] = "ready"}
  BY <1>3, <1>4, <1>6, <1>7 DEF Loop
<1>10. Calls' = Calls
  BY Frame
<1> QED BY <1>3, <1>6, <1>7, <1>8, <1>9, <1>10 DEF Loop, c

-----------------------------------------------------------------------------
(* The initial state, Issue and Arrive *)

LEMMA InitIInv == Init => IInv
<1> SUFFICES ASSUME Init PROVE IInv
  OBVIOUS
<1>1. program \in Programs /\ Consumers = Gets \cup Batches
  BY DEF Init, Consumers
<1>2. Types
  BY <1>1, Calling, EmptyOne DEF Init, Types, States
<1>3. Loop /\ Waiters /\ Stream /\ Chained /\ RoomIsKnown
  BY <1>1, Calling, EmptyOne DEF Init, Loop, Waiters, Stream, Beginning, Chained, RoomIsKnown
<1>4. Places
  BY <1>1, EmptyOne DEF Init, Places, StoredIn
<1> QED BY <1>2, <1>3, <1>4 DEF IInv

LEMMA PlacesFrame ==
  ASSUME Places, UNCHANGED <<program, carries, received, queue, taken, entered>>,
         \A p \in Puts : state'[p] = "done" <=> state[p] = "done"
  PROVE  Places'
<1>1. \A p \in Puts :
        carries'[p] # 0 => (state'[p] = "done" <=> StoredIn(carries'[p], queue', taken'))
  BY DEF Places
<1>2. \A k \in Keys : \A i \in ToSet(entered'[k]) :
        \E p \in Puts : carries'[p] = i /\ state'[p] = "done"
  BY DEF Places
<1>3. \A i \in Puts : StoredIn(i, queue', taken') => i \in received'
  BY DEF Places
<1>4. /\ \A k \in Keys : IsInjective(queue'[k]) /\ \A i \in ToSet(queue'[k]) : Key(i) = k
      /\ \A c \in Consumers :
           /\ IsInjective(taken'[c])
           /\ \A i \in ToSet(taken'[c]) : Key(i) = Key(c) /\ i \notin ToSet(queue'[Key(c)])
      /\ \A c, d \in Consumers : c # d => ToSet(taken'[c]) \cap ToSet(taken'[d]) = {}
  BY DEF Places
<1> QED BY <1>1, <1>2, <1>3, <1>4, PlacesNext

LEMMA IssueStep == ASSUME IInv, Issue PROVE IInv'
<1> DEFINE m == Min(Puts \ issued)
<1>0. program' = program /\ program \in Programs /\ Types
  BY DEF Issue, IInv, Types
<1>1. m \in Puts \ issued /\ \A q \in Puts \ issued : m <= q
  <2>1. Puts \ issued \subseteq Nat /\ Puts \ issued # {}
    BY <1>0, Calling DEF Issue, Types
  <2> QED BY <2>1, LeastIs
<1>2. issued' = issued \cup {m}
  BY DEF Issue
<1> HIDE DEF m
<1>3. Types'
  BY <1>0, <1>1, <1>2, Frame DEF Types, Issue
<1>4. Beginning(issued')
  <2> SUFFICES ASSUME NEW q \in issued', NEW p \in Puts, p < q PROVE p \in issued'
    BY DEF Beginning
  <2>1. CASE q \in issued
    BY <1>2, <2>1 DEF IInv, Stream, Beginning
  <2>2. CASE q = m
    <3>1. p \in Nat /\ m \in Nat /\ p < m
      BY <1>0, <1>1, <2>2, Calling
    <3> QED BY <1>1, <1>2, <3>1
  <2> QED BY <1>2, <2>1, <2>2
<1>5. Stream'
  BY <1>0, <1>2, <1>4, StreamNext DEF IInv, Stream, Issue
<1>6. Places'
  BY PlacesFrame DEF IInv, Issue
<1>7. Loop' /\ Waiters' /\ Chained'
  BY DEF IInv, Issue, Loop, Waiters, Chained, Key, Requests, Calls, Puts, MaxSize
<1>8. RoomIsKnown'
  BY DEF IInv, Issue, RoomIsKnown, Entering, Key, Requests, Calls, Puts, MaxSize
<1> QED BY <1>3, <1>5, <1>6, <1>7, <1>8 DEF IInv

LEMMA ArriveStep == ASSUME IInv, NEW c \in Calls, Arrive(c) PROVE IInv'
<1>0. /\ program' = program /\ program \in Programs /\ Types /\ state[c] = "new"
      /\ UNCHANGED <<issued, received, carries, queue, getters, putters, taken, entered>>
  BY DEF Arrive, IInv, Types
<1>1. state' = [state EXCEPT ![c] = "ready"] /\ state' \in [Calls -> States]
  BY DEF Arrive, IInv, Types, States
<1>s. state'[c] = "ready" /\ \A d \in Calls : d # c => state'[d] = state[d]
  BY <1>1, <1>0 DEF Types
<1>2. ready' \in Seq(Calls) /\ ToSet(ready') = ToSet(ready) \cup {c} /\ IsInjective(ready')
  <2>1. ready \in Seq(Calls) /\ c \notin ToSet(ready) /\ IsInjective(ready)
    BY <1>0 DEF IInv, Types, Loop
  <2> QED BY <2>1, Appended DEF Arrive
<1>3. Types'
  BY <1>0, <1>1, <1>2, Frame DEF Types
<1>4. Loop'
  BY <1>0, <1>2, <1>s, Frame DEF IInv, Loop
<1>p. Puts \subseteq Calls /\ Consumers \subseteq Calls
  BY <1>0, Calling
<1>5. Waiters'
  <2>1. \A k \in Keys : ToSet(getters[k]) \subseteq Calls /\ ToSet(putters[k]) \subseteq Calls
    BY <1>0, <1>p, Element DEF Types
  <2> QED BY <1>0, <1>s, <2>1, WaitersNext DEF IInv, Waiters
<1>6. Stream'
  <2>1. c \in Puts => c \in issued
    BY DEF Arrive, MayExecute
  <2> QED BY <1>0, <1>s, <1>p, <2>1, StreamNext DEF IInv, Stream, Beginning
<1>d. \A p \in Puts : state'[p] = "done" <=> state[p] = "done"
  BY <1>0, <1>s, <1>p
<1>7. Places'
  BY <1>0, <1>d, PlacesFrame DEF IInv
<1>8. Chained'
  <2> SUFFICES ASSUME NEW p \in Puts, NEW q \in Puts, q < p, Key(q) = Key(p), state'[p] # "new"
               PROVE  state'[q] = "done"
    BY <1>0, ChainedNext
  <2>1. CASE p = c
    <3>1. p \in issued /\ \A r \in issued : r < p /\ Key(r) = Key(p) => state[r] = "done"
      BY <2>1 DEF Arrive, MayExecute
    <3>2. q \in issued
      BY <3>1 DEF IInv, Stream, Beginning
    <3> QED BY <1>d, <3>1, <3>2
  <2>2. CASE p # c
    BY <1>s, <1>p, <1>d, <2>2 DEF IInv, Chained
  <2> QED BY <2>1, <2>2
<1>9. RoomIsKnown'
  <2> DEFINE E == [k \in Keys |-> Entering(k)]
  <2>1. ASSUME NEW k \in Keys
        PROVE  E[k] = {p \in Puts : state'[p] = "ready" /\ carries'[p] # 0 /\ Key(carries'[p]) = k}
    <3>1. c \in Puts => carries[c] = 0
      BY <1>0 DEF IInv, Stream
    <3> QED BY <1>0, <1>s, <1>p, <3>1 DEF Entering
  <2>2. \A k \in Keys : putters'[k] # <<>> => MaxSize <= Len(queue'[k]) + Cardinality(E[k])
    BY <1>0 DEF IInv, RoomIsKnown
  <2> HIDE DEF E
  <2> QED BY <1>0, <2>1, <2>2, RoomIsKnownNext
<1> QED BY <1>3, <1>4, <1>5, <1>6, <1>7, <1>8, <1>9 DEF IInv

-----------------------------------------------------------------------------
(* The item of a put *)

LEMMA ItemOf ==
  ASSUME IInv, NEW p \in Puts, state[p] = "ready"
  PROVE  /\ Item(p) \in issued /\ Beginning(received \cup {Item(p)})
         /\ carries[p] # 0 => Item(p) = carries[p] /\ Item(p) \in received
         /\ carries[p] = 0 => Item(p) \notin received /\ \A q \in Puts : q < Item(p) => q \in received
         /\ \A q \in Puts : q # p => carries[q] # Item(p)
         /\ Item(p) # 0 /\ ~StoredIn(Item(p), queue, taken)
<1>0. /\ Types /\ Stream /\ program \in Programs /\ Puts \subseteq Nat \ {0} /\ IsFiniteSet(Puts)
      /\ received \subseteq issued /\ issued \subseteq Puts /\ p \in issued
  BY Calling DEF IInv, Types, Stream
<1>1. CASE carries[p] # 0
  <2>1. Item(p) = carries[p] /\ carries[p] \in received
    BY <1>0, <1>1 DEF Item, Stream
  <2>2. ~StoredIn(Item(p), queue, taken)
    BY <1>1, <2>1 DEF IInv, Places
  <2>3. Beginning(received \cup {Item(p)})
    BY <1>0, <2>1 DEF Stream, Beginning
  <2>4. \A q \in Puts : q # p => carries[q] # Item(p)
    BY <1>0, <1>1, <2>1 DEF Stream
  <2> QED BY <1>0, <1>1, <2>1, <2>2, <2>3, <2>4
<1>2. CASE carries[p] = 0
  <2>1. issued \ received # {}
    <3> SUFFICES ASSUME issued \subseteq received PROVE FALSE
      OBVIOUS
    <3> DEFINE f == [i \in issued |-> CHOOSE q \in Puts : carries[q] = i]
    <3>1. ASSUME NEW i \in issued PROVE f[i] \in issued \ {p} /\ carries[f[i]] = i
      <4>1. f[i] \in Puts /\ carries[f[i]] = i
        BY <1>0 DEF Stream
      <4>2. i # 0
        BY <1>0
      <4> HIDE DEF f
      <4>3. state[f[i]] # "new"
        BY <1>0, <4>1, <4>2 DEF Stream
      <4> QED BY <1>0, <1>2, <4>1, <4>2, <4>3 DEF Stream
    <3>2. f \in Injection(issued, issued)
      <4>1. f \in [issued -> issued] /\ DOMAIN f = issued
        <5>1. \A i \in issued : (CHOOSE q \in Puts : carries[q] = i) \in issued
          BY <3>1
        <5> QED BY <5>1
      <4>2. \A i, j \in issued : f[i] = f[j] => i = j
        <5> HIDE DEF f
        <5> QED BY <3>1
      <4> HIDE DEF f
      <4> QED BY <4>1, <4>2 DEF Injection, IsInjective
    <3>3. IsFiniteSet(issued)
      BY <1>0, FS_Subset
    <3> HIDE DEF f
    <3>4. f \in Surjection(issued, issued)
      BY <3>2, <3>3, FS_Injection
    <3> QED BY <1>0, <3>1, <3>4 DEF Surjection
  <2> DEFINE m == Min(Puts \ received)
  <2>2. m \in Puts \ received /\ \A q \in Puts \ received : m <= q
    <3>1. Puts \ received \subseteq Nat /\ Puts \ received # {}
      BY <1>0, <2>1
    <3> QED BY <3>1, LeastIs
  <2>3. Item(p) = m
    BY <1>2 DEF Item
  <2> HIDE DEF m
  <2>4. ASSUME NEW q \in Puts, q < m PROVE q \in received
    <3>1. q \in Nat /\ m \in Nat
      BY <1>0, <2>2
    <3> QED BY <2>2, <2>4, <3>1
  <2>5. m \in issued
    <3>1. PICK i \in issued : i \notin received
      BY <2>1
    <3>2. i \in Nat /\ m \in Nat /\ m <= i /\ i \in Puts
      BY <1>0, <2>2, <3>1
    <3>3. m = i \/ m < i
      BY <3>2
    <3> QED BY <1>0, <2>2, <3>1, <3>3 DEF Stream, Beginning
  <2>6. Beginning(received \cup {m})
    <3> SUFFICES ASSUME NEW q \in received \cup {m}, NEW r \in Puts, r < q
                 PROVE  r \in received \cup {m}
      BY DEF Beginning
    <3> QED BY <1>0, <2>4 DEF Stream, Beginning
  <2>7. ~StoredIn(m, queue, taken)
    BY <2>2 DEF IInv, Places
  <2>8. m # 0 /\ \A q \in Puts : carries[q] # m
    BY <1>0, <2>2 DEF Stream
  <2> QED BY <1>2, <2>2, <2>3, <2>4, <2>5, <2>6, <2>7, <2>8
<1> QED BY <1>1, <1>2

-----------------------------------------------------------------------------
(* A put runs: its item enters, or the queue is full *)

PutItem(p, i) ==
  /\ carries' = [carries EXCEPT ![p] = i] /\ received' = received \cup {i}
  /\ UNCHANGED <<program, issued, taken>>

Enters(p, i) ==
  LET k == Key(i)
  IN  /\ PutItem(p, i) /\ ~Full(k)
      /\ queue' = [queue EXCEPT ![k] = Append(@, i)]
      /\ entered' = [entered EXCEPT ![k] = Append(@, i)]
      /\ Leave(p, "done", Woken(getters[k], 1))
      /\ getters' = [getters EXCEPT ![k] = Others(@, 1)]
      /\ putters' = putters

Stays(p, i, s) ==
  /\ PutItem(p, i) /\ Full(Key(i)) /\ Leave(p, s, <<>>)
  /\ s = "waiting" => putters' = [putters EXCEPT ![Key(i)] = Append(@, p)]
  /\ s = "raised" => putters' = putters
  /\ UNCHANGED <<queue, entered, getters>>

LEMMA PutRuns ==
  ASSUME NEW p, Put(p), UNCHANGED <<program, issued>>
  PROVE  Enters(p, Item(p)) \/ \E s \in {"waiting", "raised"} : Stays(p, Item(p), s)
BY DEF Put, Enters, Stays, PutItem

\* What both have in common.
LEMMA PutKeeps ==
  ASSUME IInv, NEW p \in Puts, state[p] = "ready", PutItem(p, Item(p)),
         state'[p] \in {"waiting", "done", "raised"},
         \A q \in Puts : q # p => state'[q] = state[q]
  PROVE  /\ carries' \in [Puts -> Puts \cup {0}] /\ received' \subseteq issued'
         /\ carries'[p] = Item(p) /\ \A q \in Puts : q # p => carries'[q] = carries[q]
         /\ Stream' /\ Chained'
         /\ Item(p) \in Puts /\ Key(Item(p)) \in Keys
<1> DEFINE i == Item(p)
<1>0. /\ Types /\ Stream /\ program \in Programs /\ Puts \subseteq Nat \ {0}
      /\ received \subseteq issued /\ issued \subseteq Puts /\ Puts \subseteq Calls
      /\ \A c \in Calls : Key(c) \in Keys
  BY Calling DEF IInv, Types
<1>1. /\ i \in issued /\ Beginning(received \cup {i}) /\ i # 0
      /\ \A q \in Puts : q # p => carries[q] # i
      /\ carries[p] # 0 => i = carries[p]
  BY ItemOf
<1> HIDE DEF i
<1>2. /\ carries' = [carries EXCEPT ![p] = i] /\ received' = received \cup {i}
      /\ UNCHANGED <<program, issued, taken>>
  BY DEF PutItem, i
<1>3. /\ carries' \in [Puts -> Puts \cup {0}] /\ received' \subseteq issued'
      /\ carries'[p] = i /\ \A q \in Puts : q # p => carries'[q] = carries[q]
  BY <1>0, <1>1, <1>2 DEF Types
<1>4. Stream'
  <2>1. Beginning(issued') /\ Beginning(received')
    BY <1>0, <1>1, <1>2 DEF Stream
  <2>2. \A q \in Puts :
          /\ state'[q] # "new" => q \in issued'
          /\ state'[q] = "new" => carries'[q] = 0
          /\ carries'[q] = 0 => state'[q] \in {"new", "ready"}
          /\ carries'[q] # 0 => carries'[q] \in received'
    <3> SUFFICES ASSUME NEW q \in Puts
                 PROVE  /\ state'[q] # "new" => q \in issued'
                        /\ state'[q] = "new" => carries'[q] = 0
                        /\ carries'[q] = 0 => state'[q] \in {"new", "ready"}
                        /\ carries'[q] # 0 => carries'[q] \in received'
      OBVIOUS
    <3>1. CASE q = p
      BY <1>0, <1>1, <1>2, <1>3, <3>1 DEF Stream
    <3>2. CASE q # p
      BY <1>0, <1>2, <1>3, <3>2 DEF Stream
    <3> QED BY <3>1, <3>2
  <2>3. \A j \in received' : \E q \in Puts : carries'[q] = j
    <3> SUFFICES ASSUME NEW j \in received' PROVE \E q \in Puts : carries'[q] = j
      OBVIOUS
    <3>1. CASE j = i
      BY <1>3, <3>1
    <3>2. CASE j # i
      <4>1. PICK q \in Puts : carries[q] = j
        BY <1>0, <1>2, <3>2 DEF Stream
      <4>2. q # p
        BY <1>0, <1>1, <1>2, <3>2, <4>1
      <4> QED BY <1>3, <4>1, <4>2
    <3> QED BY <3>1, <3>2
  <2>4. \A q, r \in Puts : carries'[q] # 0 /\ carries'[q] = carries'[r] => q = r
    BY <1>0, <1>1, <1>3 DEF Stream
  <2> QED BY <1>2, <2>1, <2>2, <2>3, <2>4, StreamNext
<1>5. Chained'
  <2> SUFFICES ASSUME NEW r \in Puts, NEW q \in Puts, q < r, Key(q) = Key(r), state'[r] # "new"
               PROVE  state'[q] = "done"
    BY <1>2, ChainedNext
  <2>1. state[r] # "new" \/ r = p
    OBVIOUS
  <2>2. state[q] = "done"
    BY <2>1 DEF IInv, Chained
  <2> QED BY <2>2
<1> QED BY <1>0, <1>1, <1>3, <1>4, <1>5 DEF i

LEMMA EnteringAfterPut ==
  ASSUME IInv, NEW p \in Puts, state[p] = "ready", PutItem(p, Item(p)),
         state'[p] \in {"waiting", "done", "raised"},
         \A q \in Puts : q # p => state'[q] = state[q]
  PROVE  \A k \in Keys :
           /\ Entering(k) \ {p} = {q \in Puts : /\ state'[q] = "ready" /\ carries'[q] # 0
                                                /\ Key(carries'[q]) = k}
           /\ Cardinality(Entering(k)) \in Nat /\ Cardinality(Entering(k) \ {p}) \in Nat
           /\ k # Key(Item(p)) => Cardinality(Entering(k) \ {p}) = Cardinality(Entering(k))
           /\ Cardinality(Entering(k) \ {p}) >= Cardinality(Entering(k)) - 1
<1> SUFFICES ASSUME NEW k \in Keys
             PROVE  /\ Entering(k) \ {p} = {q \in Puts : /\ state'[q] = "ready" /\ carries'[q] # 0
                                                         /\ Key(carries'[q]) = k}
                    /\ Cardinality(Entering(k)) \in Nat /\ Cardinality(Entering(k) \ {p}) \in Nat
                    /\ k # Key(Item(p)) => Cardinality(Entering(k) \ {p}) = Cardinality(Entering(k))
                    /\ Cardinality(Entering(k) \ {p}) >= Cardinality(Entering(k)) - 1
  OBVIOUS
<1>1. \A q \in Puts : q # p => carries'[q] = carries[q]
  BY PutKeeps
<1>2. Entering(k) \ {p} = {q \in Puts : /\ state'[q] = "ready" /\ carries'[q] # 0
                                        /\ Key(carries'[q]) = k}
  BY <1>1 DEF Entering
<1>3. IsFiniteSet(Entering(k))
  <2>1. IsFiniteSet(Puts) /\ Entering(k) \subseteq Puts
    BY Calling DEF IInv, Types, Entering
  <2> QED BY <2>1, FS_Subset
<1>4. /\ Cardinality(Entering(k)) \in Nat
      /\ Cardinality(Entering(k) \ {p}) =
           IF p \in Entering(k) THEN Cardinality(Entering(k)) - 1 ELSE Cardinality(Entering(k))
      /\ Cardinality(Entering(k) \ {p}) \in Nat
  BY <1>3, FS_RemoveElement, FS_CardinalityType
<1>5. k # Key(Item(p)) => p \notin Entering(k)
  BY ItemOf DEF Entering
<1> QED BY <1>2, <1>4, <1>5

LEMMA StaysStep ==
  ASSUME IInv, ready # <<>>, NEW p \in Puts, p = Head(ready),
         NEW s \in {"waiting", "raised"}, Stays(p, Item(p), s)
  PROVE  IInv'
<1> DEFINE i == Item(p)
           k == Key(i)
<1>0. /\ Types /\ Loop /\ Waiters /\ Places /\ program \in Programs /\ program' = program
      /\ Puts \subseteq Calls /\ Consumers \subseteq Calls /\ Puts \cap Consumers = {}
      /\ UNCHANGED <<issued, queue, entered, getters, taken>>
      /\ PutItem(p, i)
  BY Calling DEF IInv, Types, Stays, PutItem
<1>1. /\ state' \in [Calls -> States] /\ ready' \in Seq(Calls) /\ Loop'
      /\ state[p] = "ready" /\ state'[p] = s
      /\ \A d \in Calls : d # p => state'[d] = state[d]
  <2>1. <<>> \in Seq(Calls) /\ IsInjective(<<>>) /\ ToSet(<<>>) = {}
    BY EmptyOne
  <2> QED BY <1>0, <2>1, LeaveKeeps DEF Stays
<1>2. /\ carries' \in [Puts -> Puts \cup {0}] /\ received' \subseteq issued'
      /\ carries'[p] = i /\ \A q \in Puts : q # p => carries'[q] = carries[q]
      /\ Stream' /\ Chained' /\ i \in Puts /\ k \in Keys
  BY <1>0, <1>1, PutKeeps
<1>3. i # 0 /\ ~StoredIn(i, queue, taken) /\ received' = received \cup {i}
  BY <1>0, <1>1, ItemOf DEF PutItem
<1>4. /\ s = "waiting" => putters' = [putters EXCEPT ![k] = Append(@, p)]
      /\ s = "raised" => putters' = putters
      /\ MaxSize > 0 /\ Len(queue[k]) >= MaxSize
  BY DEF Stays, Full
<1>5. /\ Append(putters[k], p) \in Seq(Puts) /\ p \notin ToSet(putters[k])
      /\ IsInjective(Append(putters[k], p)) /\ ToSet(Append(putters[k], p)) = ToSet(putters[k]) \cup {p}
  <2>1. putters[k] \in Seq(Puts) /\ p \notin ToSet(putters[k]) /\ IsInjective(putters[k])
    BY <1>0, <1>1, <1>2 DEF Types, Waiters
  <2> QED BY <2>1, Appended
<1> HIDE DEF i, k
<1>6. /\ putters' \in [Keys -> Seq(Puts)]
      /\ \A j \in Keys : \/ putters'[j] = putters[j]
                         \/ j = k /\ s = "waiting" /\ putters'[j] = Append(putters[k], p)
  BY <1>0, <1>2, <1>4, <1>5, ZenonT(40) DEF Types
<1>7. Types'
  BY <1>0, <1>1, <1>2, <1>6, Frame DEF Types
<1>8. Waiters'
  <2> SUFFICES ASSUME NEW j \in Keys
               PROVE  /\ IsInjective(getters'[j]) /\ IsInjective(putters'[j])
                      /\ \A c \in ToSet(getters'[j]) : state'[c] = "waiting" /\ Key(c) = j
                      /\ \A q \in ToSet(putters'[j]) :
                           state'[q] = "waiting" /\ carries'[q] # 0 /\ Key(carries'[q]) = j
                      /\ putters'[j] # <<>> => MaxSize > 0
                      /\ MaxSize > 0 => Len(queue'[j]) <= MaxSize
    BY <1>0, WaitersNext
  <2>1. ToSet(getters[j]) \subseteq Consumers /\ ToSet(putters[j]) \subseteq Puts
    BY <1>0, Element DEF Types
  <2>2. \A c \in ToSet(getters'[j]) : state'[c] = "waiting" /\ Key(c) = j
    BY <1>0, <1>1, <2>1 DEF Waiters
  <2>3. \A q \in ToSet(putters[j]) :
          state'[q] = "waiting" /\ carries'[q] # 0 /\ Key(carries'[q]) = j
    BY <1>0, <1>1, <1>2, <2>1 DEF Waiters
  <2>4. s = "waiting" => state'[p] = "waiting" /\ carries'[p] # 0 /\ Key(carries'[p]) = k
    BY <1>1, <1>2, <1>3 DEF k
  <2>5. \A q \in ToSet(putters'[j]) :
          state'[q] = "waiting" /\ carries'[q] # 0 /\ Key(carries'[q]) = j
    BY <1>5, <1>6, <2>3, <2>4
  <2> QED BY <1>0, <1>4, <1>5, <1>6, <2>2, <2>5 DEF Waiters
<1>9. Places'
  <2>1. \A q \in Puts :
          carries'[q] # 0 => (state'[q] = "done" <=> StoredIn(carries'[q], queue', taken'))
    <3> SUFFICES ASSUME NEW q \in Puts, carries'[q] # 0
                 PROVE  state'[q] = "done" <=> StoredIn(carries'[q], queue, taken)
      BY <1>0
    <3>1. CASE q = p
      BY <1>1, <1>2, <1>3, <3>1
    <3>2. CASE q # p
      BY <1>0, <1>1, <1>2, <3>2 DEF Places
    <3> QED BY <3>1, <3>2
  <2>2. \A j \in Puts : StoredIn(j, queue', taken') => j \in received'
    BY <1>0, <1>3 DEF Places
  <2>3. \A j \in Keys : \A e \in ToSet(entered'[j]) :
          \E q \in Puts : carries'[q] = e /\ state'[q] = "done"
    <3> SUFFICES ASSUME NEW j \in Keys, NEW e \in ToSet(entered[j])
                 PROVE  \E q \in Puts : carries'[q] = e /\ state'[q] = "done"
      BY <1>0
    <3>1. PICK q \in Puts : carries[q] = e /\ state[q] = "done"
      BY <1>0 DEF Places
    <3>2. q # p /\ q \in Calls
      BY <1>0, <1>1, <3>1
    <3> QED BY <1>1, <1>2, <3>1, <3>2
  <2>4. /\ \A j \in Keys : IsInjective(queue'[j]) /\ \A e \in ToSet(queue'[j]) : Key(e) = j
        /\ \A c \in Consumers :
             /\ IsInjective(taken'[c])
             /\ \A e \in ToSet(taken'[c]) : Key(e) = Key(c) /\ e \notin ToSet(queue'[Key(c)])
        /\ \A c, d \in Consumers : c # d => ToSet(taken'[c]) \cap ToSet(taken'[d]) = {}
    BY <1>0 DEF Places
  <2> QED BY <1>0, <2>1, <2>2, <2>3, <2>4, PlacesNext
<1>10. RoomIsKnown'
  <2> DEFINE E == [j \in Keys |-> Entering(j) \ {p}]
  <2>1. \A j \in Keys :
          /\ E[j] = {q \in Puts : state'[q] = "ready" /\ carries'[q] # 0 /\ Key(carries'[q]) = j}
          /\ Cardinality(E[j]) \in Nat
          /\ j # k => Cardinality(E[j]) = Cardinality(Entering(j))
    BY <1>0, <1>1, EnteringAfterPut DEF k, i
  <2> HIDE DEF E
  <2>2. ASSUME NEW j \in Keys, putters'[j] # <<>>
        PROVE  MaxSize <= Len(queue'[j]) + Cardinality(E[j])
    <3>0. Len(queue[j]) \in Nat /\ MaxSize \in Nat
      BY <1>0, Calling DEF Types
    <3>1. CASE j = k
      BY <1>0, <1>4, <2>1, <3>0, <3>1
    <3>2. CASE j # k
      <4>1. putters[j] # <<>>
        BY <1>6, <2>2, <3>2
      <4> QED BY <1>0, <2>1, <3>2, <4>1 DEF IInv, RoomIsKnown
    <3> QED BY <3>1, <3>2
  <2> QED BY <1>0, <2>1, <2>2, RoomIsKnownNext
<1> QED BY <1>1, <1>2, <1>7, <1>8, <1>9, <1>10 DEF IInv

LEMMA EntersStep ==
  ASSUME IInv, ready # <<>>, NEW p \in Puts, p = Head(ready), Enters(p, Item(p))
  PROVE  IInv'
<1> DEFINE i == Item(p)
           k == Key(i)
           w == Woken(getters[k], 1)
           o == Others(getters[k], 1)
<1>0. /\ Types /\ Loop /\ Waiters /\ Places /\ program \in Programs /\ program' = program
      /\ Puts \subseteq Calls /\ Consumers \subseteq Calls /\ Puts \cap Consumers = {}
      /\ UNCHANGED <<issued, putters, taken>>
      /\ PutItem(p, i)
  BY Calling DEF IInv, Types, Enters, PutItem
<1>p. state[p] = "ready"
  BY <1>0, Tailed DEF Types, Loop
<1>k. i \in Puts /\ k \in Keys
  <2>1. i \in issued
    BY <1>p, ItemOf
  <2> QED BY <1>0, <2>1, Calling DEF Types
<1>w. /\ w \in Seq(Calls) /\ o \in Seq(Consumers) /\ IsInjective(w) /\ IsInjective(o)
      /\ ToSet(getters[k]) = ToSet(w) \cup ToSet(o) /\ ToSet(w) \cap ToSet(o) = {}
      /\ ToSet(w) \subseteq Consumers
      /\ \A d \in ToSet(w) : state[d] = "waiting" /\ Key(d) = k
  <2>1. getters[k] \in Seq(Consumers) /\ IsInjective(getters[k])
    BY <1>0, <1>k DEF Types, Waiters
  <2>2. /\ w \in Seq(Consumers) /\ o \in Seq(Consumers) /\ IsInjective(w) /\ IsInjective(o)
        /\ ToSet(getters[k]) = ToSet(w) \cup ToSet(o) /\ ToSet(w) \cap ToSet(o) = {}
    BY <2>1, WakeUp
  <2> HIDE DEF w, o
  <2>3. w \in Seq(Calls) /\ ToSet(w) \subseteq Consumers
    BY <1>0, <2>2, SeqMonotonic, Element
  <2> QED BY <1>0, <1>k, <2>2, <2>3 DEF Waiters
<1> HIDE DEF w, o
<1>1. /\ state' \in [Calls -> States] /\ ready' \in Seq(Calls) /\ Loop'
      /\ state'[p] = "done"
      /\ \A d \in Calls : d # p => state'[d] = IF d \in ToSet(w) THEN "ready" ELSE state[d]
  <2>1. Leave(Head(ready), "done", w)
    BY DEF Enters, w
  <2> QED BY <1>0, <1>w, <2>1, LeaveKeeps
<1>q. \A q \in Puts : q # p => state'[q] = state[q]
  BY <1>0, <1>1, <1>w
<1>2. /\ carries' \in [Puts -> Puts \cup {0}] /\ received' \subseteq issued'
      /\ carries'[p] = i /\ \A q \in Puts : q # p => carries'[q] = carries[q]
      /\ Stream' /\ Chained'
  BY <1>0, <1>1, <1>p, <1>q, PutKeeps
<1>3. /\ i # 0 /\ ~StoredIn(i, queue, taken) /\ received' = received \cup {i}
      /\ \A q \in Puts : q # p => carries[q] # i
  BY <1>0, <1>p, ItemOf DEF PutItem
<1>4. /\ queue' = [queue EXCEPT ![k] = Append(@, i)] /\ entered' = [entered EXCEPT ![k] = Append(@, i)]
      /\ getters' = [getters EXCEPT ![k] = o]
      /\ MaxSize > 0 => ~(Len(queue[k]) >= MaxSize)
  BY DEF Enters, Full, o
<1>5. /\ Append(queue[k], i) \in Seq(Puts) /\ Len(Append(queue[k], i)) = Len(queue[k]) + 1
      /\ IsInjective(Append(queue[k], i)) /\ ToSet(Append(queue[k], i)) = ToSet(queue[k]) \cup {i}
  <2>1. queue[k] \in Seq(Puts) /\ i \notin ToSet(queue[k]) /\ IsInjective(queue[k])
    BY <1>0, <1>k, <1>3 DEF Types, Places, StoredIn
  <2> QED BY <1>k, <2>1, Appended
<1>6. /\ Append(entered[k], i) \in Seq(Puts) /\ ToSet(Append(entered[k], i)) = ToSet(entered[k]) \cup {i}
  BY <1>0, <1>k, Appended DEF Types
<1>i. Key(i) = k
  OBVIOUS
<1> HIDE DEF i, k
<1>7. Types'
  <2>1. /\ queue' \in [Keys -> Seq(Puts)] /\ entered' \in [Keys -> Seq(Puts)]
        /\ getters' \in [Keys -> Seq(Consumers)]
    BY <1>0, <1>4, <1>5, <1>6, <1>w, <1>k DEF Types
  <2> QED BY <1>0, <1>1, <1>2, <2>1, Frame DEF Types
<1>8. /\ queue'[k] = Append(queue[k], i) /\ entered'[k] = Append(entered[k], i) /\ getters'[k] = o
      /\ \A j \in Keys : j # k => /\ queue'[j] = queue[j] /\ entered'[j] = entered[j]
                                  /\ getters'[j] = getters[j]
  BY <1>0, <1>4, <1>k DEF Types
<1>t. /\ ToSet(queue'[k]) = ToSet(queue[k]) \cup {i} /\ IsInjective(queue'[k])
      /\ Len(queue'[k]) = Len(queue[k]) + 1 /\ ToSet(entered'[k]) = ToSet(entered[k]) \cup {i}
  BY <1>5, <1>6, <1>8
<1>9. Waiters'
  <2> SUFFICES ASSUME NEW j \in Keys
               PROVE  /\ IsInjective(getters'[j]) /\ IsInjective(putters'[j])
                      /\ \A c \in ToSet(getters'[j]) : state'[c] = "waiting" /\ Key(c) = j
                      /\ \A q \in ToSet(putters'[j]) :
                           state'[q] = "waiting" /\ carries'[q] # 0 /\ Key(carries'[q]) = j
                      /\ putters'[j] # <<>> => MaxSize > 0
                      /\ MaxSize > 0 => Len(queue'[j]) <= MaxSize
    BY <1>0, WaitersNext
  <2>1. /\ ToSet(getters[j]) \subseteq Consumers /\ ToSet(putters[j]) \subseteq Puts
        /\ Len(queue[k]) \in Nat /\ MaxSize \in Nat
    BY <1>0, <1>k, Element, Calling DEF Types
  <2>2. \A c \in ToSet(getters'[j]) : state'[c] = "waiting" /\ Key(c) = j
    <3> SUFFICES ASSUME NEW c \in ToSet(getters'[j]) PROVE state'[c] = "waiting" /\ Key(c) = j
      OBVIOUS
    <3>1. c \in ToSet(getters[j]) /\ (j = k => c \notin ToSet(w))
      <4>1. CASE j = k
        <5>1. c \in ToSet(o)
          BY <1>8, <4>1
        <5> QED BY <1>w, <4>1, <5>1
      <4>2. CASE j # k
        BY <1>8, <4>2
      <4> QED BY <4>1, <4>2
    <3>2. state[c] = "waiting" /\ Key(c) = j /\ c \in Consumers
      BY <1>0, <2>1, <3>1 DEF Waiters
    <3>3. c \notin ToSet(w) /\ c # p /\ c \in Calls
      BY <1>0, <1>w, <1>p, <3>1, <3>2
    <3> QED BY <1>1, <3>2, <3>3
  <2>3. \A q \in ToSet(putters'[j]) :
          state'[q] = "waiting" /\ carries'[q] # 0 /\ Key(carries'[q]) = j
    BY <1>0, <1>2, <1>p, <1>q, <2>1 DEF Waiters
  <2>4. MaxSize > 0 => Len(queue'[j]) <= MaxSize
    <3>1. CASE j = k
      BY <1>4, <1>5, <1>8, <2>1, <3>1
    <3>2. CASE j # k
      BY <1>0, <1>8, <3>2 DEF Waiters
    <3> QED BY <3>1, <3>2
  <2>5. IsInjective(getters'[j])
    BY <1>0, <1>8, <1>w DEF Waiters
  <2> QED BY <1>0, <2>2, <2>3, <2>4, <2>5 DEF Waiters
<1>10. \A e : StoredIn(e, queue', taken') <=> StoredIn(e, queue, taken) \/ e = i
  <2>1. ASSUME NEW e, NEW j \in Keys PROVE e \in ToSet(queue'[j]) <=> e \in ToSet(queue[j]) \/ (e = i /\ j = k)
    BY <1>8, <1>t
  <2> QED BY <1>0, <1>k, <2>1 DEF StoredIn
<1>11. Places'
  <2>1. \A q \in Puts :
          carries'[q] # 0 => (state'[q] = "done" <=> StoredIn(carries'[q], queue', taken'))
    <3> SUFFICES ASSUME NEW q \in Puts, carries'[q] # 0
                 PROVE  state'[q] = "done" <=> StoredIn(carries'[q], queue', taken')
      OBVIOUS
    <3>1. CASE q = p
      BY <1>1, <1>2, <1>10, <3>1
    <3>2. CASE q # p
      BY <1>0, <1>q, <1>2, <1>3, <1>10, <3>2 DEF Places
    <3> QED BY <3>1, <3>2
  <2>2. \A j \in Puts : StoredIn(j, queue', taken') => j \in received'
    BY <1>0, <1>3, <1>10 DEF Places
  <2>3. \A j \in Keys : \A e \in ToSet(entered'[j]) :
          \E q \in Puts : carries'[q] = e /\ state'[q] = "done"
    <3> SUFFICES ASSUME NEW j \in Keys, NEW e \in ToSet(entered'[j])
                 PROVE  \E q \in Puts : carries'[q] = e /\ state'[q] = "done"
      OBVIOUS
    <3>1. CASE e \in ToSet(entered[j])
      <4>1. PICK q \in Puts : carries[q] = e /\ state[q] = "done"
        BY <1>0, <3>1 DEF Places
      <4>2. q # p
        BY <1>p, <4>1
      <4> QED BY <1>q, <1>2, <4>1, <4>2
    <3>2. CASE e = i
      BY <1>1, <1>2, <3>2
    <3>3. e \in ToSet(entered[j]) \/ e = i
      BY <1>8, <1>t
    <3> QED BY <3>1, <3>2, <3>3
  <2>4. \A j \in Keys : IsInjective(queue'[j]) /\ \A e \in ToSet(queue'[j]) : Key(e) = j
    <3> SUFFICES ASSUME NEW j \in Keys
                 PROVE  IsInjective(queue'[j]) /\ \A e \in ToSet(queue'[j]) : Key(e) = j
      OBVIOUS
    <3>1. CASE j = k
      <4>1. ASSUME NEW e \in ToSet(queue'[k]) PROVE Key(e) = k
        <5>1. e \in ToSet(queue[k]) \/ e = i
          BY <1>t
        <5> QED BY <1>0, <1>i, <1>k, <5>1 DEF Places
      <4> QED BY <1>t, <3>1, <4>1
    <3>2. CASE j # k
      BY <1>0, <1>8, <3>2 DEF Places
    <3> QED BY <3>1, <3>2
  <2>5. \A c \in Consumers :
          /\ IsInjective(taken'[c])
          /\ \A e \in ToSet(taken'[c]) : Key(e) = Key(c) /\ e \notin ToSet(queue'[Key(c)])
    <3> SUFFICES ASSUME NEW c \in Consumers, NEW e \in ToSet(taken[c])
                 PROVE  Key(e) = Key(c) /\ e \notin ToSet(queue'[Key(c)])
      BY <1>0 DEF Places
    <3>1. e # i /\ Key(c) \in Keys
      BY <1>0, <1>3, Calling DEF StoredIn
    <3>2. Key(e) = Key(c) /\ e \notin ToSet(queue[Key(c)])
      BY <1>0 DEF Places
    <3> QED BY <1>8, <1>t, <3>1, <3>2
  <2>6. \A c, d \in Consumers : c # d => ToSet(taken'[c]) \cap ToSet(taken'[d]) = {}
    BY <1>0 DEF Places
  <2> QED BY <1>0, <2>1, <2>2, <2>3, <2>4, <2>5, <2>6, PlacesNext
<1>12. RoomIsKnown'
  <2> DEFINE E == [j \in Keys |-> Entering(j) \ {p}]
  <2>1. \A j \in Keys :
          /\ E[j] = {q \in Puts : state'[q] = "ready" /\ carries'[q] # 0 /\ Key(carries'[q]) = j}
          /\ Cardinality(E[j]) \in Nat /\ Cardinality(Entering(j)) \in Nat
          /\ j # k => Cardinality(E[j]) = Cardinality(Entering(j))
          /\ Cardinality(E[j]) >= Cardinality(Entering(j)) - 1
    BY <1>0, <1>1, <1>p, <1>q, EnteringAfterPut DEF k, i
  <2> HIDE DEF E
  <2>2. ASSUME NEW j \in Keys, putters'[j] # <<>>
        PROVE  MaxSize <= Len(queue'[j]) + Cardinality(E[j])
    <3>0. Len(queue[j]) \in Nat /\ MaxSize \in Nat
      BY <1>0, Calling DEF Types
    <3>1. MaxSize <= Len(queue[j]) + Cardinality(Entering(j))
      BY <1>0, <2>2 DEF IInv, RoomIsKnown
    <3>2. CASE j = k
      <4>1. Len(queue'[j]) = Len(queue[j]) + 1
        BY <1>5, <1>8, <3>2
      <4> QED BY <2>1, <3>0, <3>1, <4>1
    <3>3. CASE j # k
      BY <1>8, <2>1, <3>1, <3>3
    <3> QED BY <3>2, <3>3
  <2> QED BY <1>0, <2>1, <2>2, RoomIsKnownNext
<1> QED BY <1>1, <1>2, <1>7, <1>9, <1>11, <1>12 DEF IInv

-----------------------------------------------------------------------------
(* A consumer runs: it takes what it may *)

Consume(c, n, s) ==
  LET k == Key(c)
  IN  /\ n \in 0..Len(queue[k]) /\ s \in {"waiting", "done", "raised"}
      /\ Take(c, k, n)
      /\ Leave(c, s, Woken(putters[k], n))
      /\ getters' = IF s = "waiting" THEN [getters EXCEPT ![k] = Append(@, c)] ELSE getters
      /\ UNCHANGED <<program, issued, carries, received, entered>>
      /\ s = "waiting" => n = Len(queue[k])
      /\ c \in Batches /\ s = "waiting" => ~Reached(c, taken[c] \o SubSeq(queue[k], 1, n))
      /\ n = 0 /\ queue[k] # <<>> =>
           c \in Batches /\ (Reached(c, taken[c]) \/ ~Fits(c, taken[c], queue[k][1]))

LEMMA GetRuns ==
  ASSUME Types, NEW c \in Gets, Get(c), UNCHANGED <<program, issued>>
  PROVE  \E n, s : Consume(c, n, s)
<1> DEFINE k == Key(c)
<1>0. /\ queue[k] \in Seq(Puts) /\ putters[k] \in Seq(Puts) /\ c \in Consumers /\ c \notin Batches
      /\ k \in Keys /\ taken[c] \in Seq(Puts) /\ c \in Calls
  BY Calling DEF Types, Consumers
<1>1. CASE queue[k] # <<>>
  <2>1. 1 \in 0..Len(queue[k])
    BY <1>0, <1>1
  <2>2. Leave(c, "done", Woken(putters[k], 1)) /\ Take(c, k, 1) /\ getters' = getters
    BY <1>1 DEF Get
  <2>3. Consume(c, 1, "done")
    BY <1>1, <2>1, <2>2 DEF Consume, Get
  <2> QED BY <2>3
<1>2. ASSUME queue[k] = <<>>, NEW s \in {"waiting", "raised"}, Leave(c, s, <<>>),
             UNCHANGED <<queue, taken, putters>>,
             getters' = IF s = "waiting" THEN [getters EXCEPT ![k] = Append(@, c)] ELSE getters
      PROVE  Consume(c, 0, s)
  <2>0. Len(queue[k]) = 0
    BY <1>2
  <2>1. Woken(putters[k], 0) = <<>> /\ Others(putters[k], 0) = putters[k]
    <3>1. Woken(putters[k], 0) \in Seq(Puts) /\ Len(Woken(putters[k], 0)) = 0
      BY <1>0, WakeUp
    <3>2. Others(putters[k], 0) = SubSeq(putters[k], 1, Len(putters[k]))
      <4>1. Len(Woken(putters[k], 0)) + 1 = 1
        BY <3>1
      <4> QED BY <4>1 DEF Others
    <3> QED BY <1>0, <3>1, <3>2
  <2>2. SubSeq(queue[k], 1, Len(queue[k])) = queue[k] /\ SubSeq(queue[k], 1, 0) = <<>>
        /\ taken[c] \o <<>> = taken[c]
    BY <1>0
  <2>3. Take(c, k, 0)
    <3>1. queue' = [queue EXCEPT ![k] = SubSeq(@, 0 + 1, Len(@))]
      BY <1>0, <1>2, <2>2 DEF Types
    <3>2. taken' = [taken EXCEPT ![c] = @ \o SubSeq(queue[k], 1, 0)]
      BY <1>0, <1>2, <2>2 DEF Types
    <3>3. putters' = [putters EXCEPT ![k] = Others(@, 0)]
      BY <1>0, <1>2, <2>1 DEF Types
    <3> QED BY <3>1, <3>2, <3>3 DEF Take
  <2>4. 0 \in 0..Len(queue[k])
    BY <2>0
  <2> QED BY <1>0, <1>2, <2>0, <2>1, <2>3, <2>4 DEF Consume, Get
<1>3. CASE queue[k] = <<>>
  <2>1. \E s \in {"waiting", "raised"} :
          /\ Leave(c, s, <<>>) /\ UNCHANGED <<queue, taken, putters>>
          /\ getters' = IF s = "waiting" THEN [getters EXCEPT ![k] = Append(@, c)] ELSE getters
    BY <1>3 DEF Get
  <2> HIDE DEF k
  <2> QED BY <1>2, <1>3, <2>1
<1> QED BY <1>1, <1>3

LEMMA GetBatchRuns ==
  ASSUME Types, NEW c \in Batches, GetBatch(c), UNCHANGED <<program, issued>>
  PROVE  \E n, s : Consume(c, n, s)
<1> DEFINE k == Key(c)
           after(n) == taken[c] \o SubSeq(queue[k], 1, n)
           more(n) == n < Len(queue[k]) /\ ~Reached(c, after(n)) /\ Fits(c, after(n), queue[k][n + 1])
           T == {m \in 0 .. Len(queue[k]) : ~more(m)}
           n == Min(T)
           complete == n < Len(queue[k]) \/ Reached(c, after(n))
           s == IF complete THEN "done" ELSE "waiting"
<1>0. /\ queue[k] \in Seq(Puts) /\ k \in Keys /\ taken[c] \in Seq(Puts) /\ Len(queue[k]) \in Nat
  BY Calling DEF Types, Consumers
<1>1. n \in T
  <2>1. Len(queue[k]) \in T /\ T \subseteq Nat
    BY <1>0
  <2> HIDE DEF T
  <2> QED BY <2>1, LeastIs
<1>2. n \in 0..Len(queue[k]) /\ ~more(n)
  <2> HIDE DEF n, more
  <2> QED BY <1>1
<1>3. /\ Take(c, k, n) /\ Leave(c, s, Woken(putters[k], n))
      /\ getters' = IF complete THEN getters ELSE [getters EXCEPT ![k] = Append(@, c)]
      /\ UNCHANGED <<carries, received, entered>>
  BY DEF GetBatch
<1> HIDE DEF n
<1>4. ~complete => n = Len(queue[k]) /\ ~Reached(c, after(n))
  BY <1>0, <1>2
<1>5. after(0) = taken[c]
  BY <1>0
<1>6. n = 0 /\ queue[k] # <<>> => Reached(c, taken[c]) \/ ~Fits(c, taken[c], queue[k][1])
  <2> SUFFICES ASSUME n = 0, queue[k] # <<>>
               PROVE  Reached(c, taken[c]) \/ ~Fits(c, taken[c], queue[k][1])
    OBVIOUS
  <2>1. 0 < Len(queue[k]) /\ 0 + 1 = 1
    BY <1>0
  <2>2. ~more(0)
    BY <1>2
  <2> QED BY <1>5, <2>1, <2>2
<1> HIDE DEF complete
<1>7. Consume(c, n, s)
  BY <1>2, <1>3, <1>4, <1>6 DEF Consume
<1> QED BY <1>7

LEMMA ConsumeKeeps ==
  ASSUME IInv, ready # <<>>, NEW c \in Consumers, c = Head(ready), NEW n, NEW s, Consume(c, n, s)
  PROVE  LET k == Key(c)
             w == Woken(putters[k], n)
             o == Others(putters[k], n)
             b == SubSeq(queue[k], 1, n)
             r == SubSeq(queue[k], n + 1, Len(queue[k]))
         IN  /\ k \in Keys /\ n \in 0..Len(queue[k]) /\ state[c] = "ready" /\ state'[c] = s
             /\ w \in Seq(Puts) /\ o \in Seq(Puts) /\ IsInjective(w) /\ IsInjective(o)
             /\ Len(putters[k]) > n => Len(w) = n
             /\ Len(o) > 0 => Len(putters[k]) > n
             /\ ToSet(putters[k]) = ToSet(w) \cup ToSet(o) /\ ToSet(w) \cap ToSet(o) = {}
             /\ b \in Seq(Puts) /\ r \in Seq(Puts) /\ Len(r) = Len(queue[k]) - n
             /\ IsInjective(b) /\ IsInjective(r)
             /\ ToSet(queue[k]) = ToSet(b) \cup ToSet(r) /\ ToSet(b) \cap ToSet(r) = {}
             /\ ToSet(taken'[c]) = ToSet(taken[c]) \cup ToSet(b) /\ IsInjective(taken'[c])
             /\ queue'[k] = r /\ putters'[k] = o
             /\ \A j \in Keys : j # k => queue'[j] = queue[j] /\ putters'[j] = putters[j]
             /\ \A d \in Consumers : d # c => taken'[d] = taken[d] /\ state'[d] = state[d]
             /\ \A p \in Puts : state'[p] = IF p \in ToSet(w) THEN "ready" ELSE state[p]
             /\ \A p \in ToSet(w) : state[p] = "waiting" /\ carries[p] # 0 /\ Key(carries[p]) = k
             /\ state' \in [Calls -> States] /\ ready' \in Seq(Calls) /\ Loop'
             /\ queue' \in [Keys -> Seq(Puts)] /\ putters' \in [Keys -> Seq(Puts)]
             /\ taken' \in [Consumers -> Seq(Puts)]
<1> DEFINE k == Key(c)
           w == Woken(putters[k], n)
           o == Others(putters[k], n)
           b == SubSeq(queue[k], 1, n)
           r == SubSeq(queue[k], n + 1, Len(queue[k]))
<1>0. /\ Types /\ Loop /\ Waiters /\ Places /\ program \in Programs /\ program' = program
      /\ Puts \subseteq Calls /\ Consumers \subseteq Calls /\ Puts \cap Consumers = {}
      /\ k \in Keys /\ c \in Calls
      /\ n \in 0..Len(queue[k]) /\ s \in {"waiting", "done", "raised"}
  BY Calling DEF IInv, Types, Consume
<1>p. state[c] = "ready"
  BY <1>0, Tailed DEF Types, Loop
<1>q. /\ queue[k] \in Seq(Puts) /\ putters[k] \in Seq(Puts) /\ taken[c] \in Seq(Puts)
      /\ IsInjective(queue[k]) /\ IsInjective(putters[k]) /\ IsInjective(taken[c])
      /\ n \in Nat /\ Len(queue[k]) \in Nat /\ Len(putters[k]) \in Nat
  BY <1>0 DEF Types, Waiters, Places
<1>1. /\ w \in Seq(Puts) /\ o \in Seq(Puts) /\ IsInjective(w) /\ IsInjective(o)
      /\ Len(w) = IF n <= Len(putters[k]) THEN n ELSE Len(putters[k])
      /\ Len(o) = Len(putters[k]) - Len(w)
      /\ ToSet(putters[k]) = ToSet(w) \cup ToSet(o) /\ ToSet(w) \cap ToSet(o) = {}
  <2> DEFINE v == putters[k]
  <2>1. v \in Seq(Puts) /\ n \in Nat /\ IsInjective(v)
    BY <1>q
  <2> HIDE DEF v
  <2>2. /\ Woken(v, n) \in Seq(Puts) /\ Others(v, n) \in Seq(Puts)
        /\ IsInjective(Woken(v, n)) /\ IsInjective(Others(v, n))
        /\ Len(Woken(v, n)) = IF n <= Len(v) THEN n ELSE Len(v)
        /\ Len(Others(v, n)) = Len(v) - Len(Woken(v, n))
        /\ ToSet(v) = ToSet(Woken(v, n)) \cup ToSet(Others(v, n))
        /\ ToSet(Woken(v, n)) \cap ToSet(Others(v, n)) = {}
    BY <2>1, WakeUp
  <2> QED BY <2>2 DEF v
<1>2. /\ b \in Seq(Puts) /\ r \in Seq(Puts) /\ Len(r) = Len(queue[k]) - n
      /\ IsInjective(b) /\ IsInjective(r)
      /\ ToSet(queue[k]) = ToSet(b) \cup ToSet(r) /\ ToSet(b) \cap ToSet(r) = {}
  <2> DEFINE v == queue[k]
  <2>1. v \in Seq(Puts) /\ n \in 0..Len(v) /\ IsInjective(v)
    BY <1>0, <1>q
  <2> HIDE DEF v
  <2>2. LET x == SubSeq(v, 1, n)
            y == SubSeq(v, n + 1, Len(v))
        IN  /\ x \in Seq(Puts) /\ y \in Seq(Puts) /\ Len(y) = Len(v) - n
            /\ IsInjective(x) /\ IsInjective(y)
            /\ ToSet(v) = ToSet(x) \cup ToSet(y) /\ ToSet(x) \cap ToSet(y) = {}
    BY <2>1, Parted
  <2> QED BY <2>2 DEF v
<1>3. /\ Leave(c, s, w)
      /\ queue' = [queue EXCEPT ![k] = r] /\ putters' = [putters EXCEPT ![k] = o]
      /\ taken' = [taken EXCEPT ![c] = taken[c] \o b]
  BY <1>0 DEF Consume, Take, Types
<1> HIDE DEF w, o, b, r
<1>4. /\ taken[c] \o b \in Seq(Puts) /\ ToSet(taken[c] \o b) = ToSet(taken[c]) \cup ToSet(b)
      /\ IsInjective(taken[c] \o b)
  <2>1. ToSet(taken[c]) \cap ToSet(b) = {}
    BY <1>0, <1>2 DEF Places
  <2> QED BY <1>q, <1>2, <2>1, Joined
<1>5. /\ queue'[k] = r /\ putters'[k] = o /\ taken'[c] = taken[c] \o b
      /\ \A j \in Keys : j # k => queue'[j] = queue[j] /\ putters'[j] = putters[j]
      /\ \A d \in Consumers : d # c => taken'[d] = taken[d]
      /\ queue' \in [Keys -> Seq(Puts)] /\ putters' \in [Keys -> Seq(Puts)]
      /\ taken' \in [Consumers -> Seq(Puts)]
  BY <1>0, <1>1, <1>2, <1>3, <1>4 DEF Types
<1>6. ToSet(w) \subseteq Puts /\ w \in Seq(Calls)
      /\ \A p \in ToSet(w) : state[p] = "waiting" /\ carries[p] # 0 /\ Key(carries[p]) = k
  BY <1>0, <1>1, SeqMonotonic, Element DEF Waiters
<1>7. /\ state' \in [Calls -> States] /\ ready' \in Seq(Calls) /\ Loop' /\ state'[c] = s
      /\ \A d \in Calls : d # c => state'[d] = IF d \in ToSet(w) THEN "ready" ELSE state[d]
  BY <1>0, <1>1, <1>3, <1>6, LeaveKeeps
<1>8. \A d \in Consumers : d # c => state'[d] = state[d]
  BY <1>0, <1>6, <1>7
<1>9. \A p \in Puts : state'[p] = IF p \in ToSet(w) THEN "ready" ELSE state[p]
  BY <1>0, <1>7
<1>10. (Len(putters[k]) > n => Len(w) = n) /\ (Len(o) > 0 => Len(putters[k]) > n)
  <2>1. CASE n <= Len(putters[k])
    <3>1. Len(w) = n /\ Len(o) = Len(putters[k]) - n
      BY <1>1, <2>1
    <3> QED BY <1>q, <3>1
  <2>2. CASE ~(n <= Len(putters[k]))
    <3>1. Len(w) = Len(putters[k]) /\ Len(o) = Len(putters[k]) - Len(putters[k])
      BY <1>1, <2>2
    <3> QED BY <1>q, <2>2, <3>1
  <2> QED BY <2>1, <2>2
<1> HIDE DEF k
<1>11. /\ k \in Keys /\ n \in 0..Len(queue[k]) /\ state[c] = "ready" /\ state'[c] = s
       /\ w \in Seq(Puts) /\ o \in Seq(Puts) /\ IsInjective(w) /\ IsInjective(o)
       /\ ToSet(putters[k]) = ToSet(w) \cup ToSet(o) /\ ToSet(w) \cap ToSet(o) = {}
  BY <1>0, <1>1, <1>p, <1>7
<1>12. ToSet(taken'[c]) = ToSet(taken[c]) \cup ToSet(b) /\ IsInjective(taken'[c])
  BY <1>4, <1>5
<1> QED BY <1>2, <1>12, <1>5, <1>6, <1>7, <1>8, <1>9, <1>10, <1>11 DEF k, w, o, b, r

LEMMA ConsumeStep ==
  ASSUME IInv, ready # <<>>, NEW c \in Consumers, c = Head(ready), NEW n, NEW s, Consume(c, n, s)
  PROVE  IInv'
<1> DEFINE k == Key(c)
           w == Woken(putters[k], n)
           o == Others(putters[k], n)
           b == SubSeq(queue[k], 1, n)
           r == SubSeq(queue[k], n + 1, Len(queue[k]))
<1>0. /\ Types /\ Loop /\ Waiters /\ Places /\ Stream /\ Chained
      /\ program \in Programs /\ program' = program
      /\ Puts \subseteq Calls /\ Consumers \subseteq Calls /\ Puts \cap Consumers = {}
      /\ UNCHANGED <<issued, carries, received, entered>>
      /\ s \in {"waiting", "done", "raised"}
      /\ getters' = IF s = "waiting" THEN [getters EXCEPT ![k] = Append(@, c)] ELSE getters
  BY Calling DEF IInv, Types, Consume
<1>1. /\ k \in Keys /\ n \in 0..Len(queue[k]) /\ state[c] = "ready" /\ state'[c] = s
      /\ w \in Seq(Puts) /\ o \in Seq(Puts) /\ IsInjective(w) /\ IsInjective(o)
      /\ Len(putters[k]) > n => Len(w) = n
      /\ Len(o) > 0 => Len(putters[k]) > n
      /\ ToSet(putters[k]) = ToSet(w) \cup ToSet(o) /\ ToSet(w) \cap ToSet(o) = {}
  BY ConsumeKeeps
<1>2. /\ r \in Seq(Puts) /\ Len(r) = Len(queue[k]) - n
      /\ IsInjective(r)
      /\ ToSet(queue[k]) = ToSet(b) \cup ToSet(r) /\ ToSet(b) \cap ToSet(r) = {}
      /\ IsInjective(taken'[c]) /\ ToSet(taken'[c]) = ToSet(taken[c]) \cup ToSet(b)
      /\ queue'[k] = r /\ putters'[k] = o
  BY ConsumeKeeps
<1>3. /\ \A j \in Keys : j # k => queue'[j] = queue[j] /\ putters'[j] = putters[j]
      /\ \A d \in Consumers : d # c => taken'[d] = taken[d] /\ state'[d] = state[d]
      /\ \A p \in Puts : state'[p] = IF p \in ToSet(w) THEN "ready" ELSE state[p]
      /\ \A p \in ToSet(w) : state[p] = "waiting" /\ carries[p] # 0 /\ Key(carries[p]) = k
  BY ConsumeKeeps
<1>4. /\ state' \in [Calls -> States] /\ ready' \in Seq(Calls) /\ Loop'
      /\ queue' \in [Keys -> Seq(Puts)] /\ putters' \in [Keys -> Seq(Puts)]
      /\ taken' \in [Consumers -> Seq(Puts)]
  BY ConsumeKeeps
<1>k. Key(c) = k
  OBVIOUS
<1> HIDE DEF k, w, o, b, r
<1>5. /\ Append(getters[k], c) \in Seq(Consumers) /\ IsInjective(Append(getters[k], c))
      /\ ToSet(Append(getters[k], c)) = ToSet(getters[k]) \cup {c}
  <2>1. getters[k] \in Seq(Consumers) /\ IsInjective(getters[k]) /\ c \notin ToSet(getters[k])
    BY <1>0, <1>1 DEF Types, Waiters
  <2> QED BY <2>1, Appended
<1>6. /\ getters' \in [Keys -> Seq(Consumers)]
      /\ \A j \in Keys : \/ getters'[j] = getters[j]
                         \/ j = k /\ s = "waiting" /\ getters'[j] = Append(getters[k], c)
  BY <1>0, <1>1, <1>5 DEF Types
<1>7. Types'
  BY <1>0, <1>4, <1>6, Frame DEF Types
<1>8. Waiters'
  <2> SUFFICES ASSUME NEW j \in Keys
               PROVE  /\ IsInjective(getters'[j]) /\ IsInjective(putters'[j])
                      /\ \A d \in ToSet(getters'[j]) : state'[d] = "waiting" /\ Key(d) = j
                      /\ \A q \in ToSet(putters'[j]) :
                           state'[q] = "waiting" /\ carries'[q] # 0 /\ Key(carries'[q]) = j
                      /\ putters'[j] # <<>> => MaxSize > 0
                      /\ MaxSize > 0 => Len(queue'[j]) <= MaxSize
    BY <1>0, WaitersNext
  <2>1. /\ ToSet(getters[j]) \subseteq Consumers /\ ToSet(putters[j]) \subseteq Puts
        /\ Len(queue[j]) \in Nat /\ MaxSize \in Nat /\ n \in Nat
    <3>1. n \in Nat
      BY <1>1
    <3> QED BY <1>0, <3>1, Element, Calling DEF Types
  <2>2. ASSUME NEW d \in ToSet(getters'[j]) PROVE state'[d] = "waiting" /\ Key(d) = j
    <3>1. CASE d \in ToSet(getters[j])
      <4>1. d # c /\ d \in Consumers /\ state[d] = "waiting" /\ Key(d) = j
        BY <1>0, <1>1, <2>1, <3>1 DEF Waiters
      <4> QED BY <1>3, <4>1
    <3>2. CASE d = c /\ j = k /\ s = "waiting"
      BY <1>1, <1>k, <3>2
    <3>3. d \in ToSet(getters[j]) \/ (d = c /\ j = k /\ s = "waiting")
      BY <1>5, <1>6
    <3> QED BY <3>1, <3>2, <3>3
  <2>3. ASSUME NEW q \in ToSet(putters'[j])
        PROVE  state'[q] = "waiting" /\ carries'[q] # 0 /\ Key(carries'[q]) = j
    <3>1. q \in ToSet(putters[j]) /\ (j = k => q \notin ToSet(w))
      BY <1>1, <1>2, <1>3
    <3>2. state[q] = "waiting" /\ carries[q] # 0 /\ Key(carries[q]) = j /\ q \in Puts
      BY <1>0, <2>1, <3>1 DEF Waiters
    <3>3. q \notin ToSet(w)
      BY <1>3, <3>1, <3>2
    <3> QED BY <1>0, <1>3, <3>2, <3>3
  <2>4. IsInjective(getters'[j]) /\ IsInjective(putters'[j])
    BY <1>0, <1>1, <1>2, <1>3, <1>5, <1>6 DEF Waiters
  <2>5. putters'[j] # <<>> => MaxSize > 0
    <3>1. CASE j = k
      <4>1. o # <<>> => putters[k] # <<>>
        <5>1. o # <<>> => Len(o) > 0
          BY <1>1
        <5>2. Len(o) > 0 => Len(putters[k]) > 0
          <6>1. n \in Nat /\ Len(putters[k]) \in Nat
            BY <1>0, <1>1, <2>1 DEF Types
          <6> QED BY <1>1, <6>1
        <5> QED BY <5>1, <5>2
      <4> QED BY <1>0, <1>2, <3>1, <4>1 DEF Waiters
    <3>2. CASE j # k
      BY <1>0, <1>3, <3>2 DEF Waiters
    <3> QED BY <3>1, <3>2
  <2>6. MaxSize > 0 => Len(queue'[j]) <= MaxSize
    <3>1. Len(queue'[j]) <= Len(queue[j])
      <4>1. CASE j = k
        BY <1>2, <2>1, <4>1
      <4>2. CASE j # k
        BY <1>3, <2>1, <4>2
      <4> QED BY <4>1, <4>2
    <3>2. Len(queue'[j]) \in Nat
      BY <1>4
    <3>3. MaxSize > 0 => Len(queue[j]) <= MaxSize
      BY <1>0 DEF Waiters
    <3> QED BY <2>1, <3>1, <3>2, <3>3
  <2> QED BY <2>2, <2>3, <2>4, <2>5, <2>6
<1>n. \A p \in Puts : /\ state'[p] = "new" <=> state[p] = "new"
                      /\ state'[p] = "done" <=> state[p] = "done"
  BY <1>3
<1>9. Stream'
  <2>1. \A p \in Puts : carries'[p] = 0 => state'[p] \in {"new", "ready"}
    BY <1>0, <1>3 DEF Stream
  <2> QED BY <1>0, <1>n, <2>1, StreamNext DEF Stream, Beginning
<1>10. Chained'
  BY <1>0, <1>n, ChainedNext DEF Chained
<1>11. \A i : StoredIn(i, queue', taken') <=> StoredIn(i, queue, taken)
  <2> SUFFICES ASSUME NEW i PROVE StoredIn(i, queue', taken') <=> StoredIn(i, queue, taken)
    OBVIOUS
  <2>1. ASSUME StoredIn(i, queue, taken) PROVE StoredIn(i, queue', taken')
    <3>1. ASSUME NEW j \in Keys, i \in ToSet(queue[j]) PROVE StoredIn(i, queue', taken')
      <4>1. i \in ToSet(queue'[j]) \/ i \in ToSet(taken'[c])
        BY <1>2, <1>3, <3>1
      <4> QED BY <4>1 DEF StoredIn
    <3>2. ASSUME NEW d \in Consumers, i \in ToSet(taken[d]) PROVE StoredIn(i, queue', taken')
      <4>1. i \in ToSet(taken'[d])
        BY <1>2, <1>3, <3>2
      <4> QED BY <4>1 DEF StoredIn
    <3> QED BY <2>1, <3>1, <3>2 DEF StoredIn
  <2>2. ASSUME StoredIn(i, queue', taken') PROVE StoredIn(i, queue, taken)
    <3>1. ASSUME NEW j \in Keys, i \in ToSet(queue'[j]) PROVE StoredIn(i, queue, taken)
      <4>1. i \in ToSet(queue[j])
        BY <1>2, <1>3, <3>1
      <4> QED BY <4>1 DEF StoredIn
    <3>2. ASSUME NEW d \in Consumers, i \in ToSet(taken'[d]) PROVE StoredIn(i, queue, taken)
      <4>1. i \in ToSet(taken[d]) \/ i \in ToSet(queue[k])
        BY <1>2, <1>3, <3>2
      <4> QED BY <1>1, <4>1 DEF StoredIn
    <3> QED BY <2>2, <3>1, <3>2 DEF StoredIn
  <2> QED BY <2>1, <2>2
<1>12. Places'
  <2>1. \A p \in Puts :
          carries'[p] # 0 => (state'[p] = "done" <=> StoredIn(carries'[p], queue', taken'))
    BY <1>0, <1>n, <1>11 DEF Places
  <2>2. \A j \in Puts : StoredIn(j, queue', taken') => j \in received'
    BY <1>0, <1>11 DEF Places
  <2>3. \A j \in Keys : \A e \in ToSet(entered'[j]) :
          \E q \in Puts : carries'[q] = e /\ state'[q] = "done"
    BY <1>0, <1>n DEF Places
  <2>4. \A j \in Keys : IsInjective(queue'[j]) /\ \A e \in ToSet(queue'[j]) : Key(e) = j
    <3> SUFFICES ASSUME NEW j \in Keys
                 PROVE  IsInjective(queue'[j]) /\ \A e \in ToSet(queue'[j]) : Key(e) = j
      OBVIOUS
    <3>1. ToSet(queue'[j]) \subseteq ToSet(queue[j]) /\ IsInjective(queue'[j])
      BY <1>0, <1>2, <1>3 DEF Places
    <3> QED BY <1>0, <3>1 DEF Places
  <2>5. \A d \in Consumers :
          /\ IsInjective(taken'[d])
          /\ \A e \in ToSet(taken'[d]) : Key(e) = Key(d) /\ e \notin ToSet(queue'[Key(d)])
    <3> SUFFICES ASSUME NEW d \in Consumers
                 PROVE  /\ IsInjective(taken'[d])
                        /\ \A e \in ToSet(taken'[d]) : Key(e) = Key(d) /\ e \notin ToSet(queue'[Key(d)])
      OBVIOUS
    <3>0. Key(d) \in Keys
      BY <1>0, Calling
    <3>1. ToSet(queue'[Key(d)]) \subseteq ToSet(queue[Key(d)])
      BY <1>2, <1>3, <3>0
    <3>2. IsInjective(taken'[d])
      BY <1>0, <1>2, <1>3 DEF Places
    <3>3. ASSUME NEW e \in ToSet(taken'[d]) PROVE Key(e) = Key(d) /\ e \notin ToSet(queue'[Key(d)])
      <4>1. CASE e \in ToSet(taken[d])
        BY <1>0, <3>1, <4>1 DEF Places
      <4>2. CASE d = c /\ e \in ToSet(b)
        <5>1. e \in ToSet(queue[k]) /\ e \notin ToSet(queue'[k])
          BY <1>2, <4>2
        <5> QED BY <1>0, <1>1, <1>k, <4>2, <5>1 DEF Places
      <4>3. e \in ToSet(taken[d]) \/ (d = c /\ e \in ToSet(b))
        BY <1>2, <1>3
      <4> QED BY <4>1, <4>2, <4>3
    <3> QED BY <3>2, <3>3
  <2>6. \A d, e \in Consumers : d # e => ToSet(taken'[d]) \cap ToSet(taken'[e]) = {}
    <3>1. ASSUME NEW d \in Consumers, d # c PROVE ToSet(taken'[d]) \cap ToSet(taken'[c]) = {}
      <4> SUFFICES ASSUME NEW i \in ToSet(taken[d]), i \in ToSet(taken[c]) \/ i \in ToSet(b)
                   PROVE  FALSE
        BY <1>2, <1>3, <3>1
      <4>1. i \notin ToSet(taken[c])
        BY <1>0, <3>1 DEF Places
      <4>2. i \in ToSet(queue[k])
        BY <1>2, <4>1
      <4>3. Key(i) = k /\ Key(i) = Key(d) /\ i \notin ToSet(queue[Key(d)])
        BY <1>0, <1>1, <4>2 DEF Places
      <4> QED BY <4>2, <4>3
    <3> QED BY <1>0, <1>3, <3>1, ZenonT(40) DEF Places
  <2> QED BY <1>0, <2>1, <2>2, <2>3, <2>4, <2>5, <2>6, PlacesNext
<1>13. RoomIsKnown'
  <2> DEFINE E == [j \in Keys |-> {q \in Puts : /\ state'[q] = "ready" /\ carries'[q] # 0
                                                /\ Key(carries'[q]) = j}]
  <2>1. ASSUME NEW j \in Keys
        PROVE  /\ Entering(j) \subseteq E[j] /\ IsFiniteSet(Entering(j)) /\ IsFiniteSet(E[j])
               /\ j = k => ToSet(w) \subseteq E[j] /\ ToSet(w) \cap Entering(j) = {}
    <3>1. Entering(j) \subseteq E[j]
      BY <1>0, <1>3 DEF Entering
    <3>2. Entering(j) \subseteq Puts /\ E[j] \subseteq Puts /\ IsFiniteSet(Puts)
      BY <1>0, Calling DEF Entering
    <3>3. ToSet(w) \subseteq Puts
      BY <1>1, Element
    <3>4. j = k => ToSet(w) \subseteq E[j] /\ ToSet(w) \cap Entering(j) = {}
      BY <1>0, <1>3, <3>3 DEF Entering
    <3> QED BY <3>1, <3>2, <3>4, FS_Subset
  <2>2. \A j \in Keys : E[j] = {q \in Puts : /\ state'[q] = "ready" /\ carries'[q] # 0
                                             /\ Key(carries'[q]) = j}
    OBVIOUS
  <2> HIDE DEF E
  <2>3. ASSUME NEW j \in Keys, putters'[j] # <<>>
        PROVE  MaxSize <= Len(queue'[j]) + Cardinality(E[j])
    <3>0. /\ Len(queue[j]) \in Nat /\ MaxSize \in Nat /\ Cardinality(Entering(j)) \in Nat
          /\ Cardinality(E[j]) \in Nat
      BY <1>0, <2>1, Calling, FS_CardinalityType DEF Types
    <3>1. CASE j = k
      <4>1. Len(o) > 0
        BY <1>1, <1>2, <2>3, <3>1
      <4>2. Len(w) = n /\ putters[j] # <<>>
        <5>1. Len(putters[k]) > n /\ n \in Nat
          BY <1>1, <4>1
        <5> QED BY <1>1, <3>1, <5>1
      <4>3. Cardinality(ToSet(w)) = n /\ IsFiniteSet(ToSet(w))
        BY <1>1, <4>2, Counted
      <4>4. Cardinality(Entering(j)) + n <= Cardinality(E[j])
        <5>1. /\ IsFiniteSet(Entering(j) \cup ToSet(w)) /\ Entering(j) \cap ToSet(w) = {}
              /\ Cardinality(Entering(j) \cup ToSet(w)) =
                   Cardinality(Entering(j)) + Cardinality(ToSet(w)) - Cardinality(Entering(j) \cap ToSet(w))
          BY <2>1, <3>1, <4>3, FS_Union
        <5>2. Cardinality(Entering(j) \cup ToSet(w)) <= Cardinality(E[j])
          BY <2>1, <3>1, FS_Subset
        <5>3. Cardinality(Entering(j) \cap ToSet(w)) = 0
          BY <5>1, FS_EmptySet
        <5>4. n \in Nat
          BY <1>1
        <5> QED BY <3>0, <4>3, <5>1, <5>2, <5>3, <5>4
      <4>5. Len(queue'[j]) = Len(queue[j]) - n /\ n \in Nat
        BY <1>1, <1>2, <3>1
      <4>6. MaxSize <= Len(queue[j]) + Cardinality(Entering(j))
        BY <4>2 DEF IInv, RoomIsKnown
      <4> QED BY <3>0, <4>4, <4>5, <4>6
    <3>2. CASE j # k
      <4>1. MaxSize <= Len(queue[j]) + Cardinality(Entering(j))
        BY <1>3, <2>3, <3>2 DEF IInv, RoomIsKnown
      <4>2. Cardinality(Entering(j)) <= Cardinality(E[j])
        BY <2>1, FS_Subset
      <4> QED BY <1>3, <3>0, <3>2, <4>1, <4>2
    <3> QED BY <3>1, <3>2
  <2> QED BY <1>0, <2>2, <2>3, RoomIsKnownNext
<1> QED BY <1>4, <1>7, <1>8, <1>9, <1>10, <1>12, <1>13 DEF IInv

-----------------------------------------------------------------------------
(* Every step *)

\* What the running call does, in terms of the steps above.
LEMMA RunCases ==
  ASSUME IInv, Run
  PROVE  /\ ready # <<>> /\ program' = program /\ issued' = issued
         /\ \/ Head(ready) \in Puts /\ Enters(Head(ready), Item(Head(ready)))
            \/ /\ Head(ready) \in Puts
               /\ \E s \in {"waiting", "raised"} : Stays(Head(ready), Item(Head(ready)), s)
            \/ Head(ready) \in Consumers /\ \E n, s : Consume(Head(ready), n, s)
<1> DEFINE c == Head(ready)
<1>1. /\ ready # <<>> /\ UNCHANGED <<program, issued>>
      /\ (c \in Puts /\ Put(c)) \/ (c \in Gets /\ Get(c)) \/ (c \in Batches /\ GetBatch(c))
  BY DEF Run
<1> HIDE DEF c
<1>2. CASE c \in Puts /\ Put(c)
  BY <1>1, <1>2, PutRuns DEF c
<1>3. CASE c \in Gets /\ Get(c)
  BY <1>1, <1>3, GetRuns DEF IInv, Consumers, c
<1>4. CASE c \in Batches /\ GetBatch(c)
  BY <1>1, <1>4, GetBatchRuns DEF IInv, Consumers, c
<1> QED BY <1>1, <1>2, <1>3, <1>4

LEMMA NextIInv == IInv /\ [Next]_vars => IInv'
<1> SUFFICES ASSUME IInv, [Next]_vars PROVE IInv'
  OBVIOUS
<1>1. CASE Issue
  BY <1>1, IssueStep
<1>2. CASE Run
  BY <1>2, RunCases, EntersStep, StaysStep, ConsumeStep
<1>3. CASE \E c \in Calls : Arrive(c)
  BY <1>3, ArriveStep
<1>4. CASE UNCHANGED vars
  <2>1. Places'
    BY <1>4, PlacesFrame DEF IInv, vars
  <2>2. Types' /\ Loop'
    BY <1>4, Frame DEF IInv, vars, Types, Loop
  <2>3. Waiters' /\ Stream' /\ Chained'
    BY <1>4 DEF IInv, vars, Waiters, Stream, Beginning, Chained, Key, Requests, Calls, Puts, MaxSize
  <2>4. RoomIsKnown'
    BY <1>4 DEF IInv, vars, RoomIsKnown, Entering, Key, Requests, Calls, Puts, MaxSize
  <2> QED BY <2>1, <2>2, <2>3, <2>4 DEF IInv
<1> QED BY <1>1, <1>2, <1>3, <1>4 DEF Next

-----------------------------------------------------------------------------
(* Theorems for every program *)

\* The items received are the first of the producer's stream, each is held by
\* one put until it is in one place for its key, and for all the room that puts
\* wait for there is a put that has been woken (ChannelWorker.put, get,
\* get_batch; asyncio.Queue).
THEOREM Invariance == Spec => []IInv
<1>1. Init => IInv
  BY InitIInv
<1>2. IInv /\ [Next]_vars => IInv'
  BY NextIInv
<1> QED BY <1>1, <1>2, PTL DEF Spec

\* Every variable stays within its type; the event loop holds the calls that
\* can run, once each, and no queue is longer than maxsize.
THEOREM Typed == Spec => []TypeOK
<1>1. IInv => TypeOK
  <2> SUFFICES ASSUME IInv PROVE TypeOK
    OBVIOUS
  <2>1. \A k \in Keys :
          /\ ToSet(queue[k]) \subseteq Puts /\ (MaxSize > 0 => Len(queue[k]) <= MaxSize)
          /\ ToSet(getters[k]) \cup ToSet(putters[k]) \subseteq {c \in Calls : state[c] = "waiting"}
          /\ ToSet(entered[k]) \subseteq received
    <3> SUFFICES ASSUME NEW k \in Keys
                 PROVE  /\ ToSet(queue[k]) \subseteq Puts /\ (MaxSize > 0 => Len(queue[k]) <= MaxSize)
                        /\ ToSet(getters[k]) \cup ToSet(putters[k]) \subseteq
                             {c \in Calls : state[c] = "waiting"}
                        /\ ToSet(entered[k]) \subseteq received
      OBVIOUS
    <3>1. /\ ToSet(queue[k]) \subseteq Puts /\ ToSet(getters[k]) \subseteq Consumers
          /\ ToSet(putters[k]) \subseteq Puts /\ ToSet(entered[k]) \subseteq Puts
      BY Element DEF IInv, Types
    <3>2. Puts \subseteq Calls /\ Consumers \subseteq Calls /\ Puts \subseteq Nat \ {0}
      BY Calling DEF IInv, Types
    <3>3. \A i \in ToSet(entered[k]) : i \in received
      BY <3>1, <3>2 DEF IInv, Places, Stream
    <3> QED BY <3>1, <3>2, <3>3 DEF IInv, Waiters
  <2>2. \A c \in Gets \cup Batches : ToSet(taken[c]) \subseteq received
    <3> SUFFICES ASSUME NEW c \in Consumers, NEW i \in ToSet(taken[c]) PROVE i \in received
      BY DEF Consumers
    <3>1. i \in Puts
      BY Element DEF IInv, Types
    <3> QED BY <3>1 DEF IInv, Places, StoredIn
  <2> QED BY <2>1, <2>2 DEF IInv, Types, Loop, TypeOK, States
<1> QED BY <1>1, Invariance, PTL

LEMMA OneHolder == ASSUME IInv, NEW i \in received PROVE \E x : Holders(i) = {x}
<1> DEFINE k == Key(i)
           InQueue == {<<"queue", n>> : n \in {m \in DOMAIN queue[k] : queue[k][m] = i}}
           With(c) == {<<"taken", c, n>> : n \in {m \in DOMAIN taken[c] : taken[c][m] = i}}
           Takers == {d \in Gets \cup Batches : Key(d) = k}
           Carried == {<<"put", p>> : p \in {q \in Puts : carries[q] = i /\ state[q] # "done"}}
<1>0. /\ Types /\ Stream /\ Places /\ i \in Puts /\ i # 0 /\ k \in Keys
      /\ Takers \subseteq Consumers
  BY Calling DEF IInv, Types, Consumers
<1>1. PICK p \in Puts : carries[p] = i
  BY <1>0 DEF Stream
<1>2. \A q \in Puts : carries[q] = i => q = p
  BY <1>0, <1>1 DEF Stream
<1>3. queue[k] \in Seq(Puts) /\ \A c \in Takers : taken[c] \in Seq(Puts)
  BY <1>0 DEF Types
<1>4. i \notin ToSet(queue[k]) => InQueue = {}
  BY DEF ToSet
<1>5. \A c : i \notin ToSet(taken[c]) => With(c) = {}
  BY DEF ToSet
<1>6. Holders(i) = Carried \cup InQueue \cup UNION {With(c) : c \in Takers}
  BY DEF Holders
<1>7. CASE state[p] # "done"
  <2>1. ~StoredIn(i, queue, taken)
    BY <1>0, <1>1, <1>7 DEF Places
  <2>2. InQueue = {} /\ \A c \in Takers : With(c) = {}
    BY <1>0, <1>4, <1>5, <2>1 DEF StoredIn
  <2>3. Carried = {<<"put", p>>}
    BY <1>1, <1>2, <1>7
  <2> HIDE DEF Carried, InQueue, With, Takers
  <2>4. UNION {With(c) : c \in Takers} = {}
    BY <2>2
  <2>5. Holders(i) = {<<"put", p>>}
    BY <1>6, <2>2, <2>3, <2>4
  <2> QED BY <2>5
<1>8. CASE state[p] = "done"
  <2>1. StoredIn(i, queue, taken)
    BY <1>0, <1>1, <1>8 DEF Places
  <2>2. Carried = {}
    BY <1>2, <1>8
  <2>3. CASE i \in ToSet(queue[k])
    <3>1. \A c \in Takers : With(c) = {}
      BY <1>0, <1>5, <2>3 DEF Places
    <3>2. PICK n \in DOMAIN queue[k] : queue[k][n] = i
      BY <2>3 DEF ToSet
    <3>3. InQueue = {<<"queue", n>>}
      BY <1>0, <3>2 DEF Places, IsInjective
    <3> HIDE DEF Carried, InQueue, With, Takers
    <3>4. UNION {With(c) : c \in Takers} = {}
      BY <3>1
    <3>5. Holders(i) = {<<"queue", n>>}
      BY <1>6, <2>2, <3>3, <3>4
    <3> QED BY <3>5
  <2>4. CASE i \notin ToSet(queue[k])
    <3>1. PICK c \in Consumers : i \in ToSet(taken[c])
      BY <1>0, <2>1, <2>4 DEF StoredIn, Places
    <3>2. c \in Takers
      BY <1>0, <3>1 DEF Places, Consumers
    <3>3. \A d \in Takers : d # c => With(d) = {}
      <4> SUFFICES ASSUME NEW d \in Takers, d # c PROVE i \notin ToSet(taken[d])
        BY <1>5
      <4> QED BY <1>0, <3>1 DEF Places
    <3>4. PICK n \in DOMAIN taken[c] : taken[c][n] = i
      BY <3>1 DEF ToSet
    <3>5. With(c) = {<<"taken", c, n>>}
      BY <1>0, <3>4 DEF Places, IsInjective
    <3>6. InQueue = {}
      BY <1>4, <2>4
    <3> HIDE DEF Carried, InQueue, With, Takers
    <3>7. UNION {With(d) : d \in Takers} = With(c)
      BY <3>2, <3>3
    <3> QED BY <1>6, <2>2, <3>5, <3>6, <3>7
  <2> QED BY <2>3, <2>4
<1> QED BY <1>7, <1>8

\* Every item received is in exactly one place, and it is there for its key
\* (ChannelWorker.put, get, get_batch).
THEOREM Conserved == Spec => []ItemsConserved
<1>1. ASSUME IInv, NEW i \in received PROVE Cardinality(Holders(i)) = 1
  <2>1. PICK x : Holders(i) = {x}
    BY <1>1, OneHolder
  <2> QED BY <2>1, FS_Singleton
<1>2. IInv => ItemsConserved
  BY <1>1 DEF ItemsConserved
<1> QED BY <1>2, Invariance, PTL

\* A put that waits has a full queue, or a put of its key has been woken for
\* every free place: with nothing left to run, the queue is full (asyncio.Queue).
THEOREM PutsNotStranded ==
  Spec => [](ready = <<>> => \A k \in Keys : putters[k] # <<>> => Full(k))
<1>1. ASSUME IInv, ready = <<>>, NEW k \in Keys, putters[k] # <<>> PROVE Full(k)
  <2>1. Entering(k) = {}
    BY <1>1, EmptyOne, Calling DEF IInv, Types, Loop, Entering
  <2>2. MaxSize <= Len(queue[k]) + 0 /\ MaxSize > 0
    BY <1>1, <2>1, FS_EmptySet DEF IInv, RoomIsKnown, Waiters
  <2>3. Len(queue[k]) \in Nat /\ MaxSize \in Nat
    BY <1>1, Calling DEF IInv, Types
  <2> QED BY <2>2, <2>3 DEF Full
<1>2. IInv => (ready = <<>> => \A k \in Keys : putters[k] # <<>> => Full(k))
  BY <1>1
<1> QED BY <1>2, Invariance, PTL

-----------------------------------------------------------------------------
(* The order of the items *)

\* The program's queue is unbounded or its puts are all of one key: with two
\* keys in a bounded queue, a put that waits lets the other key's puts pass.
OrderedPrograms ==
  \A p \in Programs :
    \/ p.maxsize = 0
    \/ \A c, d \in DOMAIN p.calls :
         p.calls[c].op = "put" /\ p.calls[d].op = "put" => p.calls[c].key = p.calls[d].key

OneKey == \A p, q \in Puts : Key(p) = Key(q)

\* In an unbounded queue no put holds an item; with one key each put has its own.
InOrder ==
  /\ FifoPerKey
  /\ MaxSize = 0 => \A p \in Puts : state[p] = "ready" => carries[p] = 0
  /\ MaxSize # 0 => \A p \in Puts : carries[p] \in {0, p}

LEMMA InitInOrder == Init => InOrder
BY DEF Init, InOrder, FifoPerKey

LEMMA InOrderNext ==
  ASSUME program' = program,
         \A k \in Keys : \A m, n \in DOMAIN entered'[k] : m < n => entered'[k][m] < entered'[k][n],
         MaxSize = 0 => \A p \in Puts : state'[p] = "ready" => carries'[p] = 0,
         MaxSize # 0 => \A p \in Puts : carries'[p] \in {0, p}
  PROVE  InOrder'
BY DEF InOrder, FifoPerKey, MaxSize, Puts, Calls, Requests

\* An item that is received next comes after those that have entered.
LEMMA NextItemIsLater ==
  ASSUME IInv, InOrder, MaxSize = 0 \/ OneKey, NEW p \in Puts, state[p] = "ready"
  PROVE  /\ \A k \in Keys : \A i \in ToSet(entered[k]) : i < Item(p)
         /\ MaxSize # 0 => Item(p) = p
<1>0. /\ Types /\ Stream /\ Places /\ Chained /\ program \in Programs
      /\ Puts \subseteq Nat \ {0} /\ received \subseteq Puts /\ issued \subseteq Puts
      /\ Item(p) \in Puts
  BY Calling, ItemOf DEF IInv, Types
<1>1. CASE MaxSize = 0
  <2>1. carries[p] = 0
    BY <1>1 DEF InOrder
  <2>2. Item(p) \notin received /\ \A q \in Puts : q < Item(p) => q \in received
    BY <2>1, ItemOf
  <2>3. ASSUME NEW k \in Keys, NEW i \in ToSet(entered[k]) PROVE i < Item(p)
    <3>1. i \in received
      <4>1. PICK q \in Puts : carries[q] = i /\ state[q] = "done"
        BY <1>0, <2>3 DEF Places
      <4>2. i \in Puts
        BY <1>0, <2>3, Element DEF Types
      <4> QED BY <1>0, <4>1, <4>2 DEF Stream
    <3>2. i \in Nat /\ Item(p) \in Nat /\ i # Item(p) /\ ~(Item(p) < i)
      BY <1>0, <2>2, <3>1 DEF Stream, Beginning
    <3> QED BY <3>2
  <2> QED BY <1>1, <2>3
<1>2. CASE MaxSize # 0
  <2>0. OneKey /\ \A q \in Puts : carries[q] \in {0, q}
    BY <1>2 DEF InOrder
  <2>1. ASSUME NEW q \in Puts, p < q PROVE state[q] = "new"
    BY <1>0, <2>0, <2>1 DEF Chained, OneKey
  <2>2. ASSUME NEW q \in Puts, q < p PROVE q \in received
    <3>1. state[q] = "done"
      BY <1>0, <2>0, <2>2 DEF Chained, OneKey
    <3>2. carries[q] = q
      BY <1>0, <2>0, <3>1 DEF Stream
    <3> QED BY <1>0, <3>2 DEF Stream
  <2>3. Item(p) = p
    <3>1. CASE carries[p] # 0
      BY <2>0, <3>1, ItemOf
    <3>2. CASE carries[p] = 0
      <4>1. Item(p) \notin received /\ \A q \in Puts : q < Item(p) => q \in received
        BY <3>2, ItemOf
      <4>2. ~(Item(p) < p)
        BY <1>0, <2>2, <4>1
      <4>3. p \notin received
        <5> SUFFICES ASSUME p \in received PROVE FALSE
          OBVIOUS
        <5>1. PICK q \in Puts : carries[q] = p
          BY <1>0 DEF Stream
        <5>2. q = p
          BY <1>0, <2>0, <5>1
        <5> QED BY <1>0, <3>2, <5>1, <5>2
      <4>4. ~(p < Item(p))
        BY <4>1, <4>3
      <4>5. p \in Nat /\ Item(p) \in Nat
        BY <1>0
      <4> QED BY <4>2, <4>4, <4>5
    <3> QED BY <3>1, <3>2
  <2>4. ASSUME NEW k \in Keys, NEW i \in ToSet(entered[k]) PROVE i < p
    <3>1. PICK q \in Puts : carries[q] = i /\ state[q] = "done"
      BY <1>0, <2>4 DEF Places
    <3>2. i \in Puts
      BY <1>0, <2>4, Element DEF Types
    <3>3. q = i /\ i # p /\ ~(p < i)
      BY <1>0, <2>0, <2>1, <3>1, <3>2
    <3> QED BY <1>0, <3>2, <3>3
  <2> QED BY <2>3, <2>4
<1> QED BY <1>1, <1>2

LEMMA NextInOrder ==
  ASSUME IInv, InOrder, MaxSize = 0 \/ OneKey, [Next]_vars
  PROVE  InOrder'
<1>0. /\ Types /\ Stream /\ Waiters /\ program \in Programs /\ Puts \subseteq Calls
      /\ Puts \cap Consumers = {}
  BY Calling DEF IInv, Types
<1>1. CASE UNCHANGED <<program, carries, state, entered>>
  BY <1>1, InOrderNext DEF InOrder, FifoPerKey
<1>2. ASSUME NEW c \in Calls, Arrive(c) PROVE InOrder'
  <2>1. /\ UNCHANGED <<program, carries, entered>> /\ state[c] = "new"
        /\ \A q \in Puts : q # c => state'[q] = state[q]
    BY <1>0, <1>2 DEF Arrive, Types
  <2>2. c \in Puts => carries[c] = 0
    BY <1>0, <2>1 DEF Stream
  <2> QED BY <2>1, <2>2, InOrderNext DEF InOrder, FifoPerKey
<1>3. ASSUME Run PROVE InOrder'
  <2> DEFINE c == Head(ready)
  <2>0. ready # <<>> /\ program' = program /\ state[c] = "ready"
    BY <1>0, <1>3, RunCases, Tailed DEF IInv, Types, Loop
  <2>1. CASE c \in Consumers /\ \E n, s : Consume(c, n, s)
    <3>1. PICK n, s : Consume(c, n, s)
      BY <2>1
    <3> DEFINE w == Woken(putters[Key(c)], n)
    <3>2. /\ \A p \in Puts : state'[p] = IF p \in ToSet(w) THEN "ready" ELSE state[p]
          /\ ToSet(putters[Key(c)]) = ToSet(w) \cup ToSet(Others(putters[Key(c)], n))
          /\ Key(c) \in Keys
      BY <2>0, <2>1, <3>1, ConsumeKeeps
    <3>3. UNCHANGED <<program, carries, entered>>
      BY <3>1 DEF Consume
    <3>4. MaxSize = 0 => \A p \in Puts : state'[p] = "ready" => carries'[p] = 0
      <4>1. MaxSize = 0 => ToSet(putters[Key(c)]) = {}
        BY <1>0, <3>2, EmptyOne DEF Waiters
      <4> QED BY <3>2, <3>3, <4>1 DEF InOrder
    <3> QED BY <3>3, <3>4, InOrderNext DEF InOrder, FifoPerKey
  <2>2. ASSUME c \in Puts, PutItem(c, Item(c)), state'[c] \in {"waiting", "done", "raised"},
               \A q \in Puts : q # c => state'[q] = state[q]
        PROVE  /\ MaxSize = 0 => \A p \in Puts : state'[p] = "ready" => carries'[p] = 0
               /\ MaxSize # 0 => \A p \in Puts : carries'[p] \in {0, p}
    <3>1. carries'[c] = Item(c) /\ \A q \in Puts : q # c => carries'[q] = carries[q]
      BY <2>0, <2>2, PutKeeps
    <3>2. MaxSize # 0 => Item(c) = c
      BY <2>0, <2>2, NextItemIsLater
    <3> QED BY <2>2, <3>1, <3>2 DEF InOrder
  <2>3. ASSUME c \in Puts, NEW s \in {"waiting", "raised"}, Stays(c, Item(c), s) PROVE InOrder'
    <3>1. /\ state'[c] \in {"waiting", "done", "raised"}
          /\ \A q \in Puts : q # c => state'[q] = state[q]
      BY <1>0, <2>0, <2>3, EmptyOne DEF Stays, Leave
    <3>2. UNCHANGED <<program, entered>> /\ PutItem(c, Item(c))
      BY <2>0, <2>3 DEF Stays
    <3>3. /\ MaxSize = 0 => \A p \in Puts : state'[p] = "ready" => carries'[p] = 0
          /\ MaxSize # 0 => \A p \in Puts : carries'[p] \in {0, p}
      BY <2>2, <2>3, <3>1, <3>2
    <3>4. \A k \in Keys : \A m, n \in DOMAIN entered'[k] : m < n => entered'[k][m] < entered'[k][n]
      BY <3>2 DEF InOrder, FifoPerKey
    <3> QED BY <3>2, <3>3, <3>4, InOrderNext
  <2>4. ASSUME c \in Puts, Enters(c, Item(c)) PROVE InOrder'
    <3> DEFINE i == Item(c)
               k == Key(i)
               w == Woken(getters[k], 1)
    <3>0. i \in Puts /\ k \in Keys
      BY <1>0, <2>0, <2>4, ItemOf, Calling DEF Types
    <3>1. ToSet(w) \subseteq Consumers
      <4> DEFINE g == getters[k]
      <4>1. g \in Seq(Consumers)
        BY <1>0, <3>0 DEF Types
      <4> HIDE DEF g
      <4>2. Woken(g, 1) \in Seq(Consumers)
        BY <4>1, WakeUp, ZenonT(40)
      <4>3. ToSet(Woken(g, 1)) \subseteq Consumers
        BY <4>2, Element
      <4> QED BY <4>3 DEF g
    <3>2. /\ state'[c] \in {"waiting", "done", "raised"}
          /\ \A q \in Puts : q # c => state'[q] = state[q]
      <4>1. Leave(c, "done", w)
        BY <2>4 DEF Enters
      <4> HIDE DEF w
      <4> QED BY <1>0, <2>4, <3>1, <4>1 DEF Leave
    <3>3. PutItem(c, i) /\ entered' = [entered EXCEPT ![k] = Append(@, i)]
      BY <2>4 DEF Enters
    <3>4. /\ MaxSize = 0 => \A p \in Puts : state'[p] = "ready" => carries'[p] = 0
          /\ MaxSize # 0 => \A p \in Puts : carries'[p] \in {0, p}
      BY <2>2, <2>4, <3>2, <3>3
    <3>5. \A j \in ToSet(entered[k]) : j < i
      BY <2>0, <2>4, <3>0, NextItemIsLater
    <3> HIDE DEF i, k, w
    <3>6. ASSUME NEW j \in Keys, NEW m \in DOMAIN entered'[j], NEW n \in DOMAIN entered'[j], m < n
          PROVE  entered'[j][m] < entered'[j][n]
      <4>0. entered[j] \in Seq(Puts) /\ entered \in [Keys -> Seq(Puts)]
        BY <1>0 DEF Types
      <4>1. CASE j # k
        <5>1. entered'[j] = entered[j]
          BY <3>3, <4>0, <4>1
        <5> QED BY <3>6, <5>1 DEF InOrder, FifoPerKey
      <4>2. CASE j = k
        <5>1. entered'[k] = Append(entered[k], i)
          BY <3>0, <3>3, <4>0
        <5>2. m \in 1..Len(entered[k]) /\ entered'[k][m] = entered[k][m]
          BY <3>6, <4>0, <4>2, <5>1
        <5>3. CASE n \in 1..Len(entered[k])
          <6>1. entered'[k][n] = entered[k][n] /\ n \in DOMAIN entered[k] /\ m \in DOMAIN entered[k]
            BY <4>0, <4>2, <5>1, <5>2, <5>3
          <6> QED BY <3>0, <3>6, <4>2, <5>2, <6>1 DEF InOrder, FifoPerKey
        <5>4. CASE n = Len(entered[k]) + 1
          <6>1. entered'[k][n] = i
            BY <4>0, <4>2, <5>1, <5>4
          <6>2. entered[k][m] \in ToSet(entered[k])
            BY <4>0, <4>2, <5>2, Element
          <6> QED BY <3>5, <4>2, <5>2, <6>1, <6>2
        <5> QED BY <3>6, <4>0, <4>2, <5>1, <5>3, <5>4
      <4> QED BY <4>1, <4>2
    <3> QED BY <2>0, <3>4, <3>6, InOrderNext
  <2> QED BY <1>3, <2>1, <2>3, <2>4, RunCases
<1>4. CASE Issue
  BY <1>1, <1>4 DEF Issue
<1>5. CASE UNCHANGED vars
  BY <1>1, <1>5 DEF vars
<1> QED BY <1>2, <1>3, <1>4, <1>5 DEF Next

\* Per key, items enter the queue in the order of the producer's puts, if the
\* queue is unbounded or there is one key (Channel.put, AsyncChannelWork).
THEOREM Ordered == ASSUME OrderedPrograms PROVE Spec => []FifoPerKey
<1>1. Init => InOrder
  BY InitInOrder
<1>2. ASSUME IInv PROVE MaxSize = 0 \/ OneKey
  <2>1. program \in Programs
    BY <1>2 DEF IInv, Types
  <2> QED BY <2>1, OrderedPrograms DEF OrderedPrograms, OneKey, Puts, Calls, Requests, MaxSize, Key
<1>3. IInv /\ InOrder /\ [Next]_vars => InOrder'
  BY <1>2, NextInOrder
<1>4. InOrder => FifoPerKey
  BY DEF InOrder
<1> QED BY <1>1, <1>3, <1>4, Invariance, PTL DEF Spec

-----------------------------------------------------------------------------
(* Gets are woken *)

\* No call takes an item's wake-up and leaves the item while another call of
\* the key waits: a batch is the only consumer of its key, or every item of
\* the key is of weight 1, which the put assumes unless it is told, and the
\* batch has room for one.
NoItemIsLeft ==
  \A p \in Programs : \A b \in DOMAIN p.calls : p.calls[b].op = "get_batch" =>
    \/ \A c \in DOMAIN p.calls :
         p.calls[c].op # "put" /\ p.calls[c].key = p.calls[b].key => c = b
    \/ /\ p.calls[b].weight > 0
       /\ \A c \in DOMAIN p.calls :
            p.calls[c].op = "put" /\ p.calls[c].key = p.calls[b].key => p.calls[c].weight = 1

Alone(b) == \A c \in Consumers : Key(c) = Key(b) => c = b

Light(b) == Weight(b) > 0 /\ \A p \in Puts : Key(p) = Key(b) => Weight(p) = 1

\* The calls that have been woken, or have come, and are going to take an item.
Getting(k) == {c \in Consumers : state[c] = "ready" /\ Key(c) = k}

\* For all the items that gets wait for, there is a get that can run.
ItemsAreKnown ==
  /\ \A b \in Batches : state[b] \in {"new", "ready", "waiting"} => ~Reached(b, taken[b])
  /\ \A k \in Keys : getters[k] # <<>> => Len(queue[k]) <= Cardinality(Getting(k))

LEMMA InitItemsAreKnown == Init => ItemsAreKnown
<1> SUFFICES ASSUME Init PROVE ItemsAreKnown
  OBVIOUS
<1> QED BY DEF Init, ItemsAreKnown, Reached

LEMMA WeightOfBatch ==
  ASSUME program \in Programs, NEW s \in Seq(Puts)
  PROVE  WeightOf(s) \in Nat /\ (s = <<>> => WeightOf(s) = 0)
<1>1. Len(s) \in Nat /\ \A n \in 1..Len(s) : s[n] \in Puts /\ Weight(s[n]) \in Nat
  BY Calling
<1> DEFINE step == [x \in Nat \X Nat |-> IF x[1] \in 1..Len(s) THEN x[2] + Weight(s[x[1]]) ELSE x[2]]
<1>2. step \in [Nat \X Nat -> Nat]
  BY <1>1
<1>3. PICK f : Iterated(f, Len(s), Nat, 0, step)
  <2> HIDE DEF step
  <2> QED BY <1>1, <1>2, Recursion
<1>4. /\ f \in [0..Len(s) -> Nat] /\ f[0] = 0
      /\ \A n \in 1..Len(s) : f[n] = f[n - 1] + Weight(s[n])
  <2>1. ASSUME NEW n \in 1..Len(s) PROVE f[n] = f[n - 1] + Weight(s[n])
    <3>1. f[n] = step[<<n, f[n - 1]>>]
      <4> HIDE DEF step
      <4> QED BY <1>3 DEF Iterated
    <3>2. f[n - 1] \in Nat /\ n \in Nat
      <4>1. n - 1 \in 0..Len(s)
        BY <1>1
      <4> HIDE DEF step
      <4> QED BY <1>3, <4>1 DEF Iterated
    <3> QED BY <3>1, <3>2
  <2> HIDE DEF step
  <2> QED BY <1>3, <2>1 DEF Iterated
<1> DEFINE def == [n \in 0..Len(s) |-> IF n = 0 THEN 0 ELSE f[n - 1] + Weight(s[n])]
<1>5. f = def
  <2>1. \A n \in 0..Len(s) : f[n] = def[n]
    BY <1>1, <1>4
  <2> HIDE DEF def
  <2>2. def \in [0..Len(s) -> Nat]
    BY <1>4, <2>1 DEF def
  <2> QED BY <1>4, <2>1, <2>2
<1> DEFINE sum == CHOOSE g : g = [n \in 0..Len(s) |-> IF n = 0 THEN 0 ELSE g[n - 1] + Weight(s[n])]
<1>6. sum = [n \in 0..Len(s) |-> IF n = 0 THEN 0 ELSE sum[n - 1] + Weight(s[n])]
  BY <1>5
<1>7. WeightOf(s) = sum[Len(s)]
  BY DEF WeightOf
<1> HIDE DEF sum, step, def
<1> DEFINE T == {n \in Nat : n <= Len(s) => sum[n] \in Nat}
<1>8. Nat \subseteq T
  <2>1. 0 \in T
    BY <1>1, <1>6
  <2>2. ASSUME NEW n \in T \cap Nat PROVE n + 1 \in T
    <3> SUFFICES ASSUME n + 1 <= Len(s) PROVE sum[n + 1] \in Nat
      OBVIOUS
    <3>1. n + 1 \in 0..Len(s) /\ n + 1 # 0 /\ (n + 1) - 1 = n /\ n + 1 \in 1..Len(s) /\ n <= Len(s)
      BY <1>1
    <3>2. sum[n + 1] = sum[n] + Weight(s[n + 1])
      BY <1>6, <3>1
    <3> QED BY <1>1, <3>1, <3>2
  <2> HIDE DEF T
  <2> QED BY <2>1, <2>2, Induction
<1>9. s = <<>> => sum[Len(s)] = 0
  BY <1>6
<1> QED BY <1>1, <1>7, <1>8, <1>9

\* A batch that runs where items are takes one, or nobody else waits there.
LEMMA BatchTakes ==
  ASSUME IInv, ItemsAreKnown, NEW b \in Batches, Light(b), state[b] = "ready",
         queue[Key(b)] # <<>>
  PROVE  ~Reached(b, taken[b]) /\ Fits(b, taken[b], queue[Key(b)][1])
<1> DEFINE i == queue[Key(b)][1]
<1>1. /\ program \in Programs /\ b \in Calls /\ Key(b) \in Keys /\ taken[b] \in Seq(Puts)
      /\ Weight(b) \in Nat /\ queue[Key(b)] \in Seq(Puts)
  BY Calling DEF IInv, Types, Consumers
<1>2. ~Reached(b, taken[b])
  BY DEF ItemsAreKnown
<1>3. i \in Puts /\ Key(i) = Key(b)
  <2>1. i \in ToSet(queue[Key(b)]) /\ i \in Puts
    BY <1>1, Element
  <2> QED BY <1>1, <2>1 DEF IInv, Places
<1>4. Weight(i) = 1 /\ Weight(b) > 0
  BY <1>3 DEF Light
<1>5. WeightOf(taken[b]) \in Nat /\ (taken[b] = <<>> => WeightOf(taken[b]) = 0)
  BY <1>1, WeightOfBatch
<1>6. WeightOf(taken[b]) + 1 <= Weight(b)
  BY <1>1, <1>2, <1>4, <1>5 DEF Reached
<1> QED BY <1>2, <1>4, <1>6 DEF Fits

\* WeightOf, with the calls of the program as a parameter.
WeightIn(requests, items) ==
  LET sum[n \in 0..Len(items)] == IF n = 0 THEN 0 ELSE sum[n - 1] + requests[items[n]].weight
  IN  sum[Len(items)]

LEMMA ItemsAreKnownNext ==
  ASSUME program' = program, NEW G,
         \A b \in Batches : state'[b] \in {"new", "ready", "waiting"} => ~Reached(b, taken'[b]),
         \A k \in Keys : G[k] = {c \in Consumers : state'[c] = "ready" /\ Key(c) = k},
         \A k \in Keys : getters'[k] # <<>> => Len(queue'[k]) <= Cardinality(G[k])
  PROVE  ItemsAreKnown'
<1>1. \A k \in Keys : G[k] = Getting(k)'
  BY DEF Getting, Key, Consumers, Gets, Batches, Calls, Requests
<1>2. \A b \in Batches : state'[b] \in {"new", "ready", "waiting"} => ~Reached(b, taken[b])'
  <2>1. ASSUME NEW b \in Batches
        PROVE  /\ Reached(b, taken'[b]) <=>
                    taken'[b] # <<>> /\ WeightIn(Requests, taken'[b]) >= Requests[b].weight
               /\ Reached(b, taken[b])' <=>
                    taken'[b] # <<>> /\ WeightIn(Requests', taken'[b]) >= Requests'[b].weight
    BY DEF Reached, WeightOf, Weight, Requests, WeightIn
  <2>2. Requests' = Requests
    BY DEF Requests
  <2> QED BY <2>1, <2>2
<1> QED BY <1>1, <1>2 DEF ItemsAreKnown, Batches, Calls, Requests

\* More calls can run, and no more items are there.
LEMMA NoFewerGetting ==
  ASSUME program \in Programs, program' = program, ItemsAreKnown,
         NEW k \in Keys, NEW H, H = {c \in Consumers : state'[c] = "ready" /\ Key(c) = k}
  PROVE  /\ IsFiniteSet(H) /\ IsFiniteSet(Getting(k))
         /\ Cardinality(H) \in Nat /\ Cardinality(Getting(k)) \in Nat
         /\ Getting(k) \subseteq H => Cardinality(Getting(k)) <= Cardinality(H)
         /\ \A x : Getting(k) \ {x} \subseteq H => Cardinality(Getting(k)) - 1 <= Cardinality(H)
         /\ \A x : Getting(k) \cup {x} \subseteq H /\ x \notin Getting(k) =>
              Cardinality(Getting(k)) + 1 <= Cardinality(H)
<1>1. IsFiniteSet(H) /\ IsFiniteSet(Getting(k))
  <2>1. IsFiniteSet(Consumers) /\ H \subseteq Consumers /\ Getting(k) \subseteq Consumers
    BY Calling DEF Getting
  <2> QED BY <2>1, FS_Subset
<1>2. Cardinality(H) \in Nat /\ Cardinality(Getting(k)) \in Nat
  BY <1>1, FS_CardinalityType
<1>3. Getting(k) \subseteq H => Cardinality(Getting(k)) <= Cardinality(H)
  BY <1>1, FS_Subset
<1>4. ASSUME NEW x, Getting(k) \ {x} \subseteq H PROVE Cardinality(Getting(k)) - 1 <= Cardinality(H)
  <2>1. /\ Cardinality(Getting(k) \ {x}) =
             IF x \in Getting(k) THEN Cardinality(Getting(k)) - 1 ELSE Cardinality(Getting(k))
    BY <1>1, FS_RemoveElement
  <2>2. Cardinality(Getting(k) \ {x}) <= Cardinality(H)
    BY <1>1, <1>4, FS_Subset
  <2> QED BY <1>2, <2>1, <2>2
<1>5. ASSUME NEW x, Getting(k) \cup {x} \subseteq H, x \notin Getting(k)
      PROVE  Cardinality(Getting(k)) + 1 <= Cardinality(H)
  <2>1. Cardinality(Getting(k) \cup {x}) = Cardinality(Getting(k)) + 1
    BY <1>1, <1>5, FS_AddElement
  <2>2. Cardinality(Getting(k) \cup {x}) <= Cardinality(H)
    BY <1>1, <1>5, FS_Subset
  <2> QED BY <2>1, <2>2
<1> QED BY <1>1, <1>2, <1>3, <1>4, <1>5

LEMMA NextItemsAreKnown ==
  ASSUME IInv, ItemsAreKnown, \A b \in Batches : Alone(b) \/ Light(b), [Next]_vars
  PROVE  ItemsAreKnown'
<1> DEFINE G == [k \in Keys |-> {c \in Consumers : state'[c] = "ready" /\ Key(c) = k}]
<1>0. /\ Types /\ Loop /\ Waiters /\ Places /\ program \in Programs
      /\ Puts \subseteq Calls /\ Consumers \subseteq Calls
      /\ Puts \cap Consumers = {} /\ Batches \subseteq Consumers
      /\ \A c \in Consumers : Key(c) \in Keys
  BY Calling DEF IInv, Types, Consumers
<1>g. \A k \in Keys : G[k] = {c \in Consumers : state'[c] = "ready" /\ Key(c) = k}
  OBVIOUS
<1> HIDE DEF G
<1>l. \A k \in Keys : Len(queue[k]) \in Nat
  BY <1>0 DEF Types
<1>1. ASSUME UNCHANGED <<program, taken, queue, getters>>,
             \A c \in Consumers : \/ state'[c] = state[c]
                                  \/ state[c] = "new" /\ state'[c] = "ready"
      PROVE  ItemsAreKnown'
  <2>1. \A b \in Batches : state'[b] \in {"new", "ready", "waiting"} => ~Reached(b, taken'[b])
    BY <1>0, <1>1 DEF ItemsAreKnown
  <2>2. ASSUME NEW k \in Keys, getters'[k] # <<>> PROVE Len(queue'[k]) <= Cardinality(G[k])
    <3>1. Getting(k) \subseteq G[k]
      BY <1>1, <1>g DEF Getting
    <3>2. /\ Cardinality(Getting(k)) <= Cardinality(G[k]) /\ Cardinality(G[k]) \in Nat
          /\ Cardinality(Getting(k)) \in Nat
      BY <1>0, <1>1, <1>g, <3>1, NoFewerGetting
    <3>3. Len(queue[k]) <= Cardinality(Getting(k)) /\ Len(queue'[k]) = Len(queue[k])
      BY <1>1, <2>2 DEF ItemsAreKnown
    <3> QED BY <1>l, <3>2, <3>3
  <2> QED BY <1>1, <1>g, <2>1, <2>2, ItemsAreKnownNext
<1>2. ASSUME Run PROVE ItemsAreKnown'
  <2> DEFINE c == Head(ready)
  <2>0. ready # <<>> /\ program' = program /\ c \in Calls /\ state[c] = "ready"
    BY <1>0, <1>2, RunCases, Tailed DEF Types, Loop
  <2>1. ASSUME c \in Puts, NEW s \in {"waiting", "raised"}, Stays(c, Item(c), s)
        PROVE  ItemsAreKnown'
    <3>1. \A d \in Consumers : state'[d] = state[d]
      BY <1>0, <2>1, EmptyOne DEF Stays, Leave
    <3>2. UNCHANGED <<program, taken, queue, getters>>
      BY <2>1 DEF Stays, PutItem
    <3> QED BY <1>1, <3>1, <3>2
  <2>2. ASSUME c \in Puts, Enters(c, Item(c)) PROVE ItemsAreKnown'
    <3> DEFINE i == Item(c)
               k == Key(i)
               w == Woken(getters[k], 1)
               o == Others(getters[k], 1)
    <3>0. i \in Puts /\ k \in Keys /\ queue[k] \in Seq(Puts)
      BY <1>0, <2>0, <2>2, ItemOf, Calling DEF Types
    <3>1. /\ w \in Seq(Consumers) /\ Len(o) = Len(getters[k]) - Len(w) /\ ToSet(w) \subseteq Consumers
          /\ o # <<>> => Len(w) = 1
          /\ o # <<>> => getters[k] # <<>>
          /\ ToSet(w) \subseteq ToSet(getters[k])
      <4> DEFINE g == getters[k]
      <4>1. g \in Seq(Consumers) /\ Len(g) \in Nat /\ 1 \in Nat
        BY <1>0, <3>0 DEF Types
      <4> HIDE DEF g
      <4>2. /\ Woken(g, 1) \in Seq(Consumers) /\ Others(g, 1) \in Seq(Consumers)
            /\ Len(Woken(g, 1)) = IF 1 <= Len(g) THEN 1 ELSE Len(g)
            /\ Len(Others(g, 1)) = Len(g) - Len(Woken(g, 1))
            /\ ToSet(g) = ToSet(Woken(g, 1)) \cup ToSet(Others(g, 1))
        BY <4>1, WakeUp, ZenonT(40)
      <4>3. ToSet(Woken(g, 1)) \subseteq Consumers
        BY <4>2, Element
      <4>4. Others(g, 1) # <<>> => Len(Others(g, 1)) > 0
        BY <4>2
      <4>5. Others(g, 1) # <<>> => Len(Woken(g, 1)) = 1 /\ g # <<>>
        BY <4>1, <4>2, <4>4
      <4> QED BY <4>2, <4>3, <4>5 DEF g
    <3> HIDE DEF w, o
    <3>2. \A d \in Consumers : state'[d] = IF d \in ToSet(w) THEN "ready" ELSE state[d]
      <4>1. Leave(c, "done", w)
        BY <2>2 DEF Enters, w
      <4> QED BY <1>0, <2>2, <4>1 DEF Leave
    <3>3. \A d \in ToSet(w) : state[d] = "waiting" /\ Key(d) = k
      BY <1>0, <3>0, <3>1 DEF Waiters
    <3>4. /\ queue' = [queue EXCEPT ![k] = Append(@, i)] /\ getters' = [getters EXCEPT ![k] = o]
          /\ UNCHANGED <<program, taken>>
      BY <2>2 DEF Enters, PutItem, o
    <3> HIDE DEF i, k
    <3>5. /\ \A j \in Keys : j # k => queue'[j] = queue[j] /\ getters'[j] = getters[j]
          /\ Len(queue'[k]) = Len(queue[k]) + 1 /\ getters'[k] = o
      <4>1. queue'[k] = Append(queue[k], i)
        BY <1>0, <3>0, <3>4 DEF Types
      <4>2. Len(Append(queue[k], i)) = Len(queue[k]) + 1
        BY <3>0
      <4> QED BY <1>0, <3>0, <3>4, <4>1, <4>2 DEF Types
    <3>6. \A b \in Batches : state'[b] \in {"new", "ready", "waiting"} => ~Reached(b, taken'[b])
      BY <1>0, <3>2, <3>3, <3>4 DEF ItemsAreKnown
    <3>7. ASSUME NEW j \in Keys, getters'[j] # <<>> PROVE Len(queue'[j]) <= Cardinality(G[j])
      <4>1. Getting(j) \subseteq G[j]
        BY <1>g, <3>2 DEF Getting
      <4>2. /\ Cardinality(Getting(j)) <= Cardinality(G[j]) /\ Cardinality(G[j]) \in Nat
            /\ Cardinality(Getting(j)) \in Nat
            /\ \A x : Getting(j) \cup {x} \subseteq G[j] /\ x \notin Getting(j) =>
                 Cardinality(Getting(j)) + 1 <= Cardinality(G[j])
        BY <1>0, <1>g, <3>4, <4>1, NoFewerGetting
      <4>3. CASE j = k
        <5>1. o # <<>> /\ getters[k] # <<>> /\ Len(w) = 1
          BY <3>1, <3>5, <3>7, <4>3
        <5>2. PICK x \in ToSet(w) : TRUE
          <6>1. w[1] \in ToSet(w)
            BY <3>1, <5>1, Element
          <6> QED BY <6>1
        <5>3. x \in G[j] /\ x \notin Getting(j)
          BY <1>g, <3>0, <3>1, <3>2, <3>3, <4>3, <5>2 DEF Getting
        <5>4. Cardinality(Getting(j)) + 1 <= Cardinality(G[j])
          BY <4>1, <4>2, <5>3
        <5>5. Len(queue[k]) <= Cardinality(Getting(k))
          BY <3>0, <5>1 DEF ItemsAreKnown
        <5> QED BY <1>l, <3>0, <3>5, <4>2, <4>3, <5>4, <5>5
      <4>4. CASE j # k
        <5>1. Len(queue[j]) <= Cardinality(Getting(j))
          BY <3>5, <3>7, <4>4 DEF ItemsAreKnown
        <5> QED BY <1>l, <3>5, <4>2, <4>4, <5>1
      <4> QED BY <4>3, <4>4
    <3> QED BY <1>g, <3>4, <3>6, <3>7, ItemsAreKnownNext
  <2>3. ASSUME c \in Consumers, NEW n, NEW s, Consume(c, n, s) PROVE ItemsAreKnown'
    <3> DEFINE k == Key(c)
    <3>c. IInv /\ ready # <<>> /\ c = Head(ready)
      BY <2>0
    <3> HIDE DEF c
    <3>1. /\ k \in Keys /\ n \in 0..Len(queue[k]) /\ state'[c] = s
          /\ Len(SubSeq(queue[k], n + 1, Len(queue[k]))) = Len(queue[k]) - n
          /\ queue'[k] = SubSeq(queue[k], n + 1, Len(queue[k]))
          /\ taken'[c] = taken[c] \o SubSeq(queue[k], 1, n)
          /\ \A j \in Keys : j # k => queue'[j] = queue[j]
          /\ \A d \in Consumers : d # c => taken'[d] = taken[d] /\ state'[d] = state[d]
      <4>1. /\ k \in Keys /\ n \in 0..Len(queue[k]) /\ state'[c] = s
            /\ Len(SubSeq(queue[k], n + 1, Len(queue[k]))) = Len(queue[k]) - n
            /\ queue'[k] = SubSeq(queue[k], n + 1, Len(queue[k]))
        BY <2>3, <3>c, ConsumeKeeps
      <4>2. taken'[c] = taken[c] \o SubSeq(queue[k], 1, n)
        <5>1. taken \in [Consumers -> Seq(Puts)]
          BY <1>0 DEF Types
        <5>2. taken' = [taken EXCEPT ![c] = @ \o SubSeq(queue[k], 1, n)]
          BY <2>3 DEF Consume, Take
        <5> QED BY <2>3, <5>1, <5>2
      <4>3. \A j \in Keys : j # k => queue'[j] = queue[j]
        BY <2>3, <3>c, ConsumeKeeps
      <4>4. \A d \in Consumers : d # c => taken'[d] = taken[d] /\ state'[d] = state[d]
        BY <2>3, <3>c, ConsumeKeeps
      <4> QED BY <4>1, <4>2, <4>3, <4>4
    <3>2. /\ getters' = IF s = "waiting" THEN [getters EXCEPT ![k] = Append(@, c)] ELSE getters
          /\ s \in {"waiting", "done", "raised"} /\ (s = "waiting" => n = Len(queue[k]))
          /\ c \in Batches /\ s = "waiting" => ~Reached(c, taken'[c])
          /\ n = 0 /\ queue[k] # <<>> =>
               c \in Batches /\ (Reached(c, taken[c]) \/ ~Fits(c, taken[c], queue[k][1]))
      BY <2>3, <3>1 DEF Consume
    <3> HIDE DEF k
    <3>3. Len(queue'[k]) = Len(queue[k]) - n
      BY <3>1
    <3>4. \A b \in Batches : state'[b] \in {"new", "ready", "waiting"} => ~Reached(b, taken'[b])
      BY <1>0, <3>1, <3>2 DEF ItemsAreKnown
    <3>5. \A j \in Keys : j # k \/ s # "waiting" => getters'[j] = getters[j]
      BY <1>0, <3>1, <3>2 DEF Types
    <3>6. ASSUME NEW j \in Keys, getters'[j] # <<>> PROVE Len(queue'[j]) <= Cardinality(G[j])
      <4>1. Getting(j) \ {c} \subseteq G[j] /\ (j # k => c \notin Getting(j))
        BY <1>g, <3>1 DEF Getting, k
      <4>2. /\ Cardinality(Getting(j)) - 1 <= Cardinality(G[j]) /\ Cardinality(G[j]) \in Nat
            /\ Cardinality(Getting(j)) \in Nat
            /\ j # k => Cardinality(Getting(j)) <= Cardinality(G[j])
        BY <1>0, <1>g, <2>0, <4>1, NoFewerGetting
      <4>3. CASE j # k
        <5>1. Len(queue[j]) <= Cardinality(Getting(j)) /\ queue'[j] = queue[j]
          BY <3>1, <3>5, <3>6, <4>3 DEF ItemsAreKnown
        <5> QED BY <1>l, <4>2, <4>3, <5>1
      <4>4. CASE j = k /\ s = "waiting"
        BY <1>l, <3>1, <3>2, <3>3, <4>2, <4>4
      <4>5. CASE j = k /\ s # "waiting"
        <5>1. getters[k] # <<>> /\ Len(queue[k]) <= Cardinality(Getting(k))
          BY <3>1, <3>5, <3>6, <4>5 DEF ItemsAreKnown
        <5>2. n # 0 \/ queue[k] = <<>>
          <6> SUFFICES ASSUME n = 0, queue[k] # <<>> PROVE FALSE
            OBVIOUS
          <6>1. c \in Batches /\ (Reached(c, taken[c]) \/ ~Fits(c, taken[c], queue[k][1]))
            BY <3>2
          <6>2. ~Light(c)
            BY <2>0, <6>1, BatchTakes DEF k
          <6>3. Alone(c)
            BY <6>1, <6>2
          <6>4. getters[k] \in Seq(Consumers) /\ getters[k][1] \in ToSet(getters[k])
            <7>1. getters[k] \in Seq(Consumers)
              BY <1>0, <3>1 DEF Types
            <7> QED BY <5>1, <7>1, Element
          <6>5. getters[k][1] \in Consumers /\ Key(getters[k][1]) = k /\ state[getters[k][1]] = "waiting"
            BY <1>0, <3>1, <6>4, Element DEF Waiters
          <6> QED BY <2>0, <6>3, <6>5 DEF Alone, k
        <5>3. n \in Nat /\ Len(queue[k]) \in Nat /\ (queue[k] = <<>> => Len(queue[k]) = 0)
          BY <1>l, <3>1
        <5> QED BY <3>1, <3>3, <4>2, <4>5, <5>1, <5>2, <5>3
      <4> QED BY <4>3, <4>4, <4>5
    <3> QED BY <1>g, <2>0, <3>4, <3>6, ItemsAreKnownNext
  <2> QED BY <1>2, <2>1, <2>2, <2>3, RunCases
<1>3. ASSUME NEW c \in Calls, Arrive(c) PROVE ItemsAreKnown'
  <2>1. \A d \in Consumers : \/ state'[d] = state[d]
                             \/ state[d] = "new" /\ state'[d] = "ready"
    BY <1>0, <1>3 DEF Arrive, Types
  <2> QED BY <1>1, <1>3, <2>1 DEF Arrive
<1>4. CASE Issue
  BY <1>1, <1>4 DEF Issue
<1>5. CASE UNCHANGED vars
  BY <1>1, <1>5 DEF vars
<1> QED BY <1>2, <1>3, <1>4, <1>5 DEF Next

\* No call is left waiting, with nothing to wake it, for an item or for room
\* that is there, if no batch leaves an item for which another call waits
\* (ChannelWorker.get_batch, asyncio.Queue).
THEOREM NoneStranded == ASSUME NoItemIsLeft PROVE Spec => []NobodyStranded
<1>1. Init => ItemsAreKnown
  BY InitItemsAreKnown
<1>2. ASSUME IInv PROVE \A b \in Batches : Alone(b) \/ Light(b)
  <2>1. program \in Programs
    BY <1>2 DEF IInv, Types
  <2>2. Requests \in Seq(Request)
    BY <2>1, ChannelAssumption DEF Requests
  <2> QED BY <2>1, <2>2, NoItemIsLeft DEF NoItemIsLeft, Alone, Light, Consumers, Gets, Batches, Puts, Calls,
                             Requests, Key, Weight
<1>3. IInv /\ ItemsAreKnown /\ [Next]_vars => ItemsAreKnown'
  BY <1>2, NextItemsAreKnown
<1>4. ASSUME IInv, ItemsAreKnown, ready = <<>>, NEW k \in Keys
      PROVE  /\ getters[k] # <<>> => queue[k] = <<>>
             /\ putters[k] # <<>> => Full(k)
  <2>1. Getting(k) = {}
    BY <1>4, EmptyOne, Calling DEF IInv, Types, Loop, Getting
  <2>2. queue[k] \in Seq(Puts)
    BY <1>4 DEF IInv, Types
  <2>3. getters[k] # <<>> => Len(queue[k]) <= 0
    BY <1>4, <2>1, FS_EmptySet DEF ItemsAreKnown
  <2>4. Entering(k) = {}
    BY <1>4, EmptyOne, Calling DEF IInv, Types, Loop, Entering
  <2>5. putters[k] # <<>> => MaxSize <= Len(queue[k]) + 0 /\ MaxSize > 0
    BY <1>4, <2>4, FS_EmptySet DEF IInv, RoomIsKnown, Waiters
  <2>6. MaxSize \in Nat
    BY <1>4, Calling DEF IInv, Types
  <2> QED BY <2>2, <2>3, <2>5, <2>6 DEF Full
<1>5. IInv /\ ItemsAreKnown => NobodyStranded
  BY <1>4 DEF NobodyStranded
<1> QED BY <1>1, <1>3, <1>5, Invariance, PTL DEF Spec

-----------------------------------------------------------------------------
(* ChannelGet.  Asynchronous gets are told apart by the query id that       *)
(* travels with an answer, the others by there being one at a time.         *)
(* AsyncInv and BlockingInv say the one and the other of everything that is *)
(* on its way.                                                              *)

AllAsync == \A q \in Queries : mode[q] = "async"
AllBlocking == \A q \in Queries : mode[q] # "async"

\* What the run get_unmixed assumes of the worker.
Unmixing ==
  \A m \in Modes : (\A q \in Queries : m[q] = "async") \/ (\A q \in Queries : m[q] # "async")

\* The channel takes one item at most for a call, and only for a call.
CallInv ==
  \A q \in Queries :
    /\ q \in asked => phase[q] # "idle"
    /\ answered[q] # Nothing => q \notin asked /\ phase[q] # "idle"
    /\ phase[q] \in {"over", "raised"} => q \notin asked

\* A handle's future is in the store until the handle takes what it holds.
HandleInv == \A q \in Queries : phase[q] = "handle" => q \in DOMAIN store

\* The answer a is the one the channel gave to the query it names.
Named(a) == a.id \in Queries /\ a.data \in Items /\ a.data = answered[a.id]

\* Asynchronous gets: an answer keeps its name until its future has it.
AsyncInv ==
  /\ \A i \in DOMAIN stream : Named(stream[i])
  /\ \A q \in Queries : got[q] # NoAnswer => Named(got[q])
  /\ \A id \in DOMAIN store :
       store[id] # Nothing => id \in Queries /\ store[id] = answered[id]
  /\ \A q \in Queries : phase[q] # "raised"

\* The answer a is the one the channel gave to the call of q.
AnswerTo(q, a) ==
  \/ answered[q] # Nothing /\ a = [data |-> answered[q], id |-> q]
  \/ answered[q] = Nothing /\ mode[q] = "nowait" /\ a = EmptyAnswer(q)

\* Where the one pending call is: at the channel, on the way back, received.
AtChannel(q) ==
  asked = {q} /\ stream = <<>> /\ receives = <<q>> /\ got[q] = NoAnswer
OnTheWay(q) ==
  /\ asked = {} /\ Len(stream) = 1 /\ AnswerTo(q, stream[1])
  /\ receives = <<q>> /\ got[q] = NoAnswer
Received(q) ==
  /\ asked = {} /\ stream = <<>> /\ receives = <<>>
  /\ got[q] # NoAnswer /\ AnswerTo(q, got[q])

\* Blocking gets: nothing is on its way but the one call's question or answer.
Quiet ==
  /\ asked = {} /\ stream = <<>> /\ receives = <<>>
  /\ \A q \in Queries : got[q] = NoAnswer /\ phase[q] # "called"
Pending(q) ==
  /\ phase[q] = "called"
  /\ \A p \in Queries \ {q} : got[p] = NoAnswer /\ phase[p] # "called"
  /\ AtChannel(q) \/ OnTheWay(q) \/ Received(q)
BlockingInv ==
  /\ Quiet \/ \E q \in Queries : Pending(q)
  /\ \A q \in Queries : phase[q] # "handle"

GetInv ==
  /\ GetTypeOK /\ CallInv /\ HandleInv /\ OwnAnswer
  /\ (AllAsync /\ AsyncInv) \/ (AllBlocking /\ BlockingInv)

-----------------------------------------------------------------------------
(* Types *)

\* The first answer, and what the rest of a stream is.
LEMMA StreamHead ==
  ASSUME NEW S, NEW s \in Seq(S), s # <<>>
  PROVE  Head(s) \in S /\ Tail(s) \in Seq(S) /\ Head(s) = s[1] /\ 1 \in DOMAIN s
OBVIOUS

\* A sequence of one has that one as its head, and nothing behind it.
LEMMA OnlyOne ==
  ASSUME NEW S, NEW s \in Seq(S), Len(s) = 1
  PROVE  Head(s) = s[1] /\ s[1] \in S /\ Tail(s) = <<>>
<1>1. s # <<>>
  OBVIOUS
<1>2. Tail(s) \in Seq(S) /\ Len(Tail(s)) = 0
  BY <1>1, HeadTailProperties
<1>3. Tail(s) = <<>>
  BY <1>2, EmptySeq
<1> QED BY <1>3

\* A store to which a typed entry is added is typed.
LEMMA StorePlus ==
  ASSUME GetTypeOK, NEW id \in Queries \cup {QueueEmpty}, NEW v \in Items \cup {Nothing}
  PROVE  /\ DOMAIN WithFuture(id, v) \subseteq Queries \cup {QueueEmpty}
         /\ \A x \in DOMAIN WithFuture(id, v) : WithFuture(id, v)[x] \in Items \cup {Nothing}
BY DEF GetTypeOK, WithFuture

\* Popping a future leaves the others.
LEMMA StoreMinus ==
  ASSUME NEW q
  PROVE  /\ DOMAIN WithoutFuture(q) = DOMAIN store \ {q}
         /\ \A x \in DOMAIN store \ {q} : WithoutFuture(q)[x] = store[x]
BY DEF WithoutFuture, Restrict

\* Nothing is called yet.
LEMMA InitTypeOK == ASSUME GetInit PROVE GetTypeOK
BY GetAssumption DEF GetInit, GetTypeOK, Items, Nothing

\* The channel passes on what was put, the worker what it received.
LEMMA TypeStep == ASSUME GetTypeOK, HandleInv, [GetNext]_getVars PROVE GetTypeOK'
<1> USE GetAssumption, IdAssumption DEF GetTypeOK
<1>1. CASE PutNext
  <2>1. put + 1 \in Items /\ put + 1 \in 0 .. NumItems
    BY <1>1 DEF PutNext, Items
  <2> QED BY <1>1, <2>1 DEF PutNext, worker
<1>2. ASSUME NEW q \in Queries, Answer(q) PROVE GetTypeOK'
  <2>1. CASE unread # <<>> /\ unread' = Tail(unread)
             /\ answered' = [answered EXCEPT ![q] = Head(unread)]
             /\ stream' = Append(stream, [data |-> Head(unread), id |-> q])
    <3>1. Head(unread) \in Items /\ Tail(unread) \in Seq(Items)
      BY <2>1, StreamHead
    <3>2. [data |-> Head(unread), id |-> q] \in Answers
      BY <3>1 DEF Answers
    <3> QED BY <1>2, <2>1, <3>1, <3>2 DEF Answer, worker
  <2>2. CASE stream' = Append(stream, EmptyAnswer(q)) /\ UNCHANGED <<unread, answered>>
    <3>1. EmptyAnswer(q) \in Answers
      BY DEF Answers, EmptyAnswer
    <3> QED BY <1>2, <2>2, <3>1 DEF Answer, worker
  <2> QED BY <1>2, <2>1, <2>2 DEF Answer
<1>3. ASSUME NEW q \in Queries, Call(q) PROVE GetTypeOK'
  BY <1>3 DEF Call
<1>4. ASSUME NEW q \in Queries, MakeHandle(q) PROVE GetTypeOK'
  <2>1. FutureOf(q) \in Items \cup {Nothing}
    BY DEF FutureOf
  <2>2. /\ DOMAIN store' \subseteq Queries \cup {QueueEmpty}
        /\ \A id \in DOMAIN store' : store'[id] \in Items \cup {Nothing}
    BY <1>4, <2>1, StorePlus DEF MakeHandle
  <2> QED BY <1>4, <2>2 DEF MakeHandle, channel
<1>5. CASE Receive
  <2>1. /\ Head(stream) \in Answers /\ Tail(stream) \in Seq(Answers)
        /\ Head(receives) \in Queries /\ Tail(receives) \in Seq(Queries)
    BY <1>5, StreamHead DEF Receive
  <2> QED BY <1>5, <2>1 DEF Receive
<1>6. ASSUME NEW q \in Queries, Store(q) PROVE GetTypeOK'
  <2>1. got[q] \in Answers
    BY <1>6 DEF Store
  <2>2. got[q].id \in Queries \cup {QueueEmpty} /\ got[q].data \in Items \cup {Nothing}
    BY <2>1 DEF Answers
  <2>3. /\ DOMAIN store' \subseteq Queries \cup {QueueEmpty}
        /\ \A id \in DOMAIN store' : store'[id] \in Items \cup {Nothing}
    BY <1>6, <2>2, StorePlus DEF Store, StoredFor
  <2> QED BY <1>6, <2>3 DEF Store, channel
<1>7. ASSUME NEW q \in Queries, Wait(q) PROVE GetTypeOK'
  <2>1. store[q] \in Items \cup {Nothing}
    BY <1>7 DEF Wait, HandleInv
  <2>2. /\ DOMAIN store' \subseteq Queries \cup {QueueEmpty}
        /\ \A id \in DOMAIN store' : store'[id] \in Items \cup {Nothing}
    BY <1>7, StoreMinus DEF Wait
  <2> QED BY <1>7, <2>1, <2>2 DEF Wait, channel
<1>8. ASSUME NEW q \in Queries, Return(q) PROVE GetTypeOK'
  <2>1. got[q] \in Answers
    BY <1>8 DEF Return
  <2>2. got[q].data \in Items \cup {Nothing}
    BY <2>1 DEF Answers
  <2> QED BY <1>8, <2>2 DEF Return, channel
<1>9. CASE UNCHANGED getVars
  BY <1>9 DEF getVars, channel, worker
<1> QED BY <1>1, <1>2, <1>3, <1>4, <1>5, <1>6, <1>7, <1>8, <1>9 DEF GetNext, Serve, Continue

-----------------------------------------------------------------------------
(* Asynchronous gets *)

\* A handle's future is in the store from the call on, until it is waited for.
LEMMA HandleStep == ASSUME GetTypeOK, HandleInv, [GetNext]_getVars PROVE HandleInv'
<1> USE DEF HandleInv
<1>1. ASSUME NEW q \in Queries, MakeHandle(q) PROVE HandleInv'
  BY <1>1 DEF MakeHandle, WithFuture, GetTypeOK
<1>2. ASSUME NEW q \in Queries, Store(q) PROVE HandleInv'
  BY <1>2 DEF Store, WithFuture
<1>3. ASSUME NEW q \in Queries, Wait(q) PROVE HandleInv'
  BY <1>3, StoreMinus DEF Wait, GetTypeOK
<1>4. ASSUME NEW q \in Queries, Call(q) \/ Return(q) PROVE HandleInv'
  BY <1>4 DEF Call, Return, GetTypeOK
<1>5. CASE PutNext \/ Receive \/ (\E q \in Queries : Answer(q)) \/ UNCHANGED getVars
  BY <1>5 DEF PutNext, Receive, Answer, worker, getVars
<1> QED BY <1>1, <1>2, <1>3, <1>4, <1>5 DEF GetNext, Serve, Continue

\* Everything that has a name keeps it, and a future gets its own answer.
LEMMA AsyncStep ==
  ASSUME GetTypeOK, CallInv, HandleInv, OwnAnswer, AllAsync, AsyncInv, [GetNext]_getVars
  PROVE  CallInv' /\ OwnAnswer' /\ AllAsync' /\ AsyncInv'
<1> USE GetAssumption, IdAssumption
<1>1. AllAsync'
  BY DEF AllAsync, GetNext, PutNext, Serve, Receive, Answer, Call, Continue, MakeHandle, Store, Wait,
         Return, getVars
<1>2. CASE PutNext \/ UNCHANGED getVars
  BY <1>1, <1>2 DEF PutNext, getVars, worker, channel, CallInv, OwnAnswer, AsyncInv, Named
<1>3. ASSUME NEW q \in Queries, Answer(q) PROVE CallInv' /\ OwnAnswer' /\ AsyncInv'
  <2>1. /\ unread # <<>> /\ q \in asked /\ asked' = asked \ {q}
        /\ answered' = [answered EXCEPT ![q] = Head(unread)]
        /\ stream' = Append(stream, [data |-> Head(unread), id |-> q])
        /\ UNCHANGED worker
    BY <1>3 DEF Answer, AllAsync
  <2>2. Head(unread) \in Items /\ Head(unread) # Nothing
    BY <2>1, StreamHead DEF GetTypeOK, Items, Nothing
  <2>3. answered[q] = Nothing /\ phase[q] \notin {"idle", "over", "raised"}
    BY <2>1 DEF CallInv, GetTypeOK
  <2>4. \A p \in Queries : answered'[p] = IF p = q THEN Head(unread) ELSE answered[p]
    BY <2>1 DEF GetTypeOK
  <2>5. \A a : Named(a) => Named(a)'
    BY <2>3, <2>4 DEF Named, Items, Nothing
  <2>6. \A a : a = [data |-> Head(unread), id |-> q] => Named(a)'
    BY <2>2, <2>4 DEF Named
  <2>7. (\A i \in DOMAIN stream : Named(stream[i]))'
    <3>1. ASSUME NEW i \in DOMAIN stream'
          PROVE  (i \in DOMAIN stream /\ stream'[i] = stream[i])
                 \/ stream'[i] = [data |-> Head(unread), id |-> q]
      BY <2>1, <2>2 DEF GetTypeOK
    <3> QED BY <3>1, <2>5, <2>6 DEF AsyncInv
  <2>8. CallInv'
    BY <2>1, <2>2, <2>3, <2>4 DEF CallInv, worker
  <2>9. OwnAnswer'
    BY <2>1, <2>3, <2>4 DEF OwnAnswer, worker
  <2>10. AsyncInv'
    BY <2>1, <2>3, <2>4, <2>5, <2>7 DEF AsyncInv, worker
  <2> QED BY <2>8, <2>9, <2>10
<1>4. ASSUME NEW q \in Queries, Call(q) PROVE CallInv' /\ OwnAnswer' /\ AsyncInv'
  <2>1. phase[q] = "idle" /\ answered[q] = Nothing
    BY <1>4 DEF Call, CallInv
  <2>2. CallInv'
    BY <1>4, <2>1 DEF Call, CallInv, GetTypeOK
  <2>3. OwnAnswer'
    BY <1>4, <2>1 DEF Call, OwnAnswer, GetTypeOK
  <2>4. AsyncInv'
    BY <1>4 DEF Call, AsyncInv, Named, GetTypeOK
  <2> QED BY <2>2, <2>3, <2>4
<1>5. ASSUME NEW q \in Queries, MakeHandle(q) PROVE CallInv' /\ OwnAnswer' /\ AsyncInv'
  <2>1. \A id \in DOMAIN store' :
          store'[id] # Nothing => id \in Queries /\ store'[id] = answered[id]
    BY <1>5 DEF MakeHandle, WithFuture, FutureOf, AsyncInv
  <2>2. CallInv' /\ OwnAnswer'
    BY <1>5 DEF MakeHandle, CallInv, OwnAnswer, GetTypeOK, channel
  <2>3. AsyncInv'
    BY <1>5, <2>1 DEF MakeHandle, AsyncInv, Named, GetTypeOK, channel
  <2> QED BY <2>2, <2>3
<1>6. CASE Receive
  <2>1. Head(receives) \in Queries /\ Head(stream) = stream[1] /\ 1 \in DOMAIN stream
    BY <1>6, StreamHead DEF Receive, GetTypeOK
  <2>2. \A i \in DOMAIN Tail(stream) :
          i + 1 \in DOMAIN stream /\ Tail(stream)[i] = stream[i + 1]
    BY <1>6 DEF Receive, GetTypeOK
  <2>3. Named(Head(stream)) /\ \A i \in DOMAIN Tail(stream) : Named(Tail(stream)[i])
    BY <2>1, <2>2 DEF AsyncInv
  <2>4. CallInv' /\ OwnAnswer'
    BY <1>6 DEF Receive, CallInv, OwnAnswer
  <2>5. AsyncInv'
    BY <1>6, <2>1, <2>3 DEF Receive, AsyncInv, Named, GetTypeOK
  <2> QED BY <1>1, <2>4, <2>5
<1>7. ASSUME NEW q \in Queries, Store(q) PROVE CallInv' /\ OwnAnswer' /\ AsyncInv'
  <2>1. Named(got[q])
    BY <1>7 DEF Store, AsyncInv
  <2>2. \A id \in DOMAIN store' :
          store'[id] # Nothing => id \in Queries /\ store'[id] = answered[id]
    BY <1>7, <2>1 DEF Store, WithFuture, StoredFor, AsyncInv, Named
  <2>3. CallInv' /\ OwnAnswer'
    BY <1>7 DEF Store, CallInv, OwnAnswer, channel
  <2>4. AsyncInv'
    BY <1>7, <2>2 DEF Store, AsyncInv, Named, GetTypeOK, channel
  <2> QED BY <2>3, <2>4
<1>8. ASSUME NEW q \in Queries, Wait(q) PROVE CallInv' /\ OwnAnswer' /\ AsyncInv'
  <2>1. store[q] # Nothing /\ store[q] = answered[q] /\ q \notin asked
    BY <1>8 DEF Wait, HandleInv, AsyncInv, CallInv
  <2>2. \A id \in DOMAIN store' :
          store'[id] # Nothing => id \in Queries /\ store'[id] = answered[id]
    BY <1>8, StoreMinus DEF Wait, AsyncInv
  <2>3. CallInv'
    BY <1>8, <2>1 DEF Wait, CallInv, GetTypeOK, channel
  <2>4. OwnAnswer'
    BY <1>8, <2>1 DEF Wait, OwnAnswer, GetTypeOK
  <2>5. AsyncInv'
    BY <1>8, <2>2 DEF Wait, AsyncInv, Named, GetTypeOK, channel
  <2> QED BY <2>3, <2>4, <2>5
<1>9. ASSUME NEW q \in Queries, Return(q) PROVE FALSE
  BY <1>9 DEF Return, AllAsync
<1> QED BY <1>1, <1>2, <1>3, <1>4, <1>5, <1>6, <1>7, <1>8, <1>9 DEF GetNext, Serve, Continue

-----------------------------------------------------------------------------
(* Blocking gets *)

\* An answer that is on its way belongs to the one call there is.
LEMMA BlockingStep ==
  ASSUME GetTypeOK, CallInv, OwnAnswer, AllBlocking, BlockingInv, [GetNext]_getVars
  PROVE  CallInv' /\ OwnAnswer' /\ AllBlocking' /\ BlockingInv'
<1> USE GetAssumption, IdAssumption
<1>1. AllBlocking'
  BY DEF AllBlocking, GetNext, PutNext, Serve, Receive, Answer, Call, Continue, MakeHandle, Store,
         Wait, Return, getVars
<1>2. CASE PutNext \/ UNCHANGED getVars
  <2>1. UNCHANGED <<mode, asked, stream, phase, receives, got, result, answered>>
    BY <1>2 DEF PutNext, getVars, worker, channel
  <2>2. CallInv' /\ OwnAnswer'
    BY <2>1 DEF CallInv, OwnAnswer
  <2>3. \A q, a : AnswerTo(q, a) => AnswerTo(q, a)'
    BY <2>1 DEF AnswerTo, EmptyAnswer
  <2>4. BlockingInv'
    BY <2>1, <2>3 DEF BlockingInv, Quiet, Pending, AtChannel, OnTheWay, Received
  <2> QED BY <1>1, <2>2, <2>4
<1>3. ASSUME NEW q \in Queries, Answer(q) PROVE CallInv' /\ OwnAnswer' /\ BlockingInv'
  <2>1. Pending(q) /\ AtChannel(q)
    BY <1>3 DEF Answer, BlockingInv, Quiet, Pending, AtChannel, OnTheWay, Received
  <2>2. answered[q] = Nothing
    BY <2>1 DEF AtChannel, CallInv
  <2>3. /\ asked' = {} /\ UNCHANGED <<mode, phase, receives, got, result>>
        /\ \A p \in Queries \ {q} : answered'[p] = answered[p]
    BY <1>3, <2>1 DEF Answer, AtChannel, worker, GetTypeOK
  <2>4. Len(stream') = 1 /\ AnswerTo(q, stream[1])'
    <3>1. CASE unread # <<>> /\ answered' = [answered EXCEPT ![q] = Head(unread)]
               /\ stream' = Append(stream, [data |-> Head(unread), id |-> q])
      <4>1. Head(unread) # Nothing /\ answered'[q] = Head(unread)
        BY <3>1, StreamHead DEF GetTypeOK, Items, Nothing
      <4>2. Len(stream') = 1 /\ stream'[1] = [data |-> Head(unread), id |-> q]
        BY <3>1, <2>1 DEF AtChannel
      <4> QED BY <4>1, <4>2 DEF AnswerTo
    <3>2. CASE mode[q] = "nowait" /\ stream' = Append(stream, EmptyAnswer(q))
               /\ answered' = answered
      <4>1. Len(stream') = 1 /\ stream'[1] = EmptyAnswer(q)
        BY <3>2, <2>1 DEF AtChannel
      <4> QED BY <3>2, <4>1, <2>2, <2>3 DEF AnswerTo, EmptyAnswer
    <3> QED BY <1>3, <3>1, <3>2 DEF Answer
  <2>5. CallInv'
    BY <2>1, <2>3 DEF CallInv, Pending
  <2>6. OwnAnswer'
    BY <2>1, <2>3 DEF OwnAnswer, Pending
  <2>7. BlockingInv'
    BY <2>1, <2>3, <2>4 DEF BlockingInv, Pending, AtChannel, OnTheWay
  <2> QED BY <2>5, <2>6, <2>7
<1>4. ASSUME NEW q \in Queries, Call(q) PROVE CallInv' /\ OwnAnswer' /\ BlockingInv'
  <2>1. Quiet /\ phase[q] = "idle" /\ answered[q] = Nothing
    BY <1>4 DEF Call, Busy, BlockingInv, Pending, CallInv
  <2>2. CallInv'
    BY <1>4, <2>1 DEF Call, CallInv, GetTypeOK
  <2>3. OwnAnswer'
    BY <1>4, <2>1 DEF Call, OwnAnswer, GetTypeOK
  <2>4. AtChannel(q)'
    BY <1>4, <2>1 DEF Call, Quiet, AtChannel
  <2>5. BlockingInv'
    BY <1>4, <2>1, <2>4 DEF Call, BlockingInv, Quiet, Pending, GetTypeOK
  <2> QED BY <2>2, <2>3, <2>5
<1>5. ASSUME NEW q \in Queries, MakeHandle(q) \/ Store(q) \/ Wait(q) PROVE FALSE
  BY <1>5 DEF MakeHandle, Store, Wait, AllBlocking, BlockingInv
<1>6. CASE Receive
  <2>1. PICK q \in Queries : Pending(q) /\ OnTheWay(q)
    BY <1>6 DEF Receive, BlockingInv, Quiet, Pending, AtChannel, Received
  <2>2. /\ Head(receives) = q /\ Tail(receives) = <<>>
        /\ Head(stream) = stream[1] /\ Tail(stream) = <<>> /\ stream[1] \in Answers
    <3>1. stream \in Seq(Answers) /\ Len(stream) = 1
      BY <2>1 DEF OnTheWay, GetTypeOK
    <3>2. receives \in Seq(Queries) /\ Len(receives) = 1 /\ receives[1] = q
      BY <2>1 DEF OnTheWay, GetTypeOK
    <3> QED BY <3>1, <3>2, OnlyOne
  <2>3. /\ got' = [got EXCEPT ![q] = stream[1]] /\ stream' = <<>> /\ receives' = <<>>
        /\ UNCHANGED <<mode, asked, phase, result, answered>>
    BY <1>6, <2>2 DEF Receive
  <2>4. Received(q)'
    BY <2>1, <2>2, <2>3 DEF OnTheWay, Received, AnswerTo, EmptyAnswer, GetTypeOK
  <2>5. CallInv' /\ OwnAnswer'
    BY <2>3 DEF CallInv, OwnAnswer
  <2>6. BlockingInv'
    BY <2>1, <2>3, <2>4 DEF BlockingInv, Pending, GetTypeOK
  <2> QED BY <1>1, <2>5, <2>6
<1>7. ASSUME NEW q \in Queries, Return(q) PROVE CallInv' /\ OwnAnswer' /\ BlockingInv'
  <2>1. Pending(q) /\ Received(q)
    BY <1>7 DEF Return, BlockingInv, Quiet, Pending, AtChannel, OnTheWay
  <2>2. /\ phase' = [phase EXCEPT ![q] =
                       IF mode[q] = "nowait" /\ got[q].id = QueueEmpty THEN "raised" ELSE "over"]
        /\ got' = [got EXCEPT ![q] = NoAnswer] /\ result' = [result EXCEPT ![q] = got[q].data]
        /\ UNCHANGED <<mode, asked, stream, receives, answered>>
    BY <1>7 DEF Return, channel
  <2>3. CallInv'
    BY <2>1, <2>2 DEF CallInv, Received, Pending, GetTypeOK
  <2>4. /\ phase'[q] = "over" => got[q].data = answered[q] /\ answered[q] # Nothing
        /\ phase'[q] = "raised" => answered[q] = Nothing
    BY <2>1, <2>2 DEF Received, AnswerTo, EmptyAnswer, GetTypeOK
  <2>5. OwnAnswer'
    BY <2>2, <2>4 DEF OwnAnswer, GetTypeOK
  <2>6. Quiet'
    BY <2>1, <2>2 DEF Quiet, Pending, Received, GetTypeOK
  <2>7. BlockingInv'
    BY <2>2, <2>6 DEF BlockingInv, GetTypeOK
  <2> QED BY <2>3, <2>5, <2>7
<1> QED BY <1>1, <1>2, <1>3, <1>4, <1>5, <1>6, <1>7 DEF GetNext, Serve, Continue

-----------------------------------------------------------------------------
(* Theorems *)

\* At the start nothing is on its way.
LEMMA InitGetInv == ASSUME Unmixing, GetInit PROVE GetInv
<1>1. GetTypeOK
  BY InitTypeOK
<1>2. CallInv /\ HandleInv /\ OwnAnswer
  BY DEF GetInit, CallInv, HandleInv, OwnAnswer
<1>3. AsyncInv /\ BlockingInv
  BY DEF GetInit, AsyncInv, BlockingInv, Quiet
<1>4. AllAsync \/ AllBlocking
  BY DEF GetInit, Unmixing, AllAsync, AllBlocking
<1> QED BY <1>1, <1>2, <1>3, <1>4 DEF GetInv

\* Every step of the channel and of the worker keeps calls and answers paired.
THEOREM GetInvariance == ASSUME Unmixing PROVE GetSpec => []GetInv
<1>1. GetInit => GetInv
  BY InitGetInv
<1>2. GetInv /\ [GetNext]_getVars => GetInv'
  BY TypeStep, HandleStep, AsyncStep, BlockingStep DEF GetInv
<1> QED BY <1>1, <1>2, PTL DEF GetSpec

\* Every variable stays within its type, for any number of gets and items.
THEOREM GetTyped == ASSUME Unmixing PROVE GetSpec => []GetTypeOK
<1>1. GetInv => GetTypeOK
  BY DEF GetInv
<1> QED BY <1>1, GetInvariance, PTL

\* A get returns the item that the channel took for it, and get_nowait raises
\* only if the channel had none, in a worker whose gets are all asynchronous
\* or none, for any number of gets and items.
THEOREM EverybodyGetsItsOwn == ASSUME Unmixing PROVE GetSpec => []OwnAnswer
<1>1. GetInv => OwnAnswer
  BY DEF GetInv
<1> QED BY <1>1, GetInvariance, PTL
=============================================================================
