-------------------------- MODULE CollectiveProofs --------------------------
(***************************************************************************)
(* For any scene: if what may run at once goes in different directions, the *)
(* memory behind an IPC handle outlives its readers, and if the workers are *)
(* placed as the code can see, no process group of the CCL has two of them  *)
(* on one device.  Both follow from IInv of CollectiveInv, whose proof is   *)
(* first the plan of each operation (what a call may have left to do), then *)
(* one lemma per action and part of the invariant.                          *)
(***************************************************************************)
EXTENDS CollectiveInv, WellFoundedInduction, SequenceTheorems, FiniteSetTheorems, TLAPS

-----------------------------------------------------------------------------
(* Induction, in a form that needs no predicate *)

\* A set of natural numbers has a least element.
LEMMA LeastNumber ==
  ASSUME NEW T, T \subseteq Nat, T # {}
  PROVE  \E x \in T : \A y \in T : x <= y
<1> DEFINE R == {ss \in Nat \X Nat : ss[1] < ss[2]}
<1>1. IsWellFoundedOn(R, Nat)
  BY NatLessThanWellFounded DEF OpToRel
<1>2. PICK x \in T : \A y \in T : ~(<<y, x>> \in R)
  <2> HIDE DEF R
  <2> QED BY <1>1, WFMin
<1>3. \A y \in T : x <= y
  <2> SUFFICES ASSUME NEW y \in T, y < x PROVE FALSE
    OBVIOUS
  <2>1. <<y, x>> \in Nat \X Nat
    OBVIOUS
  <2> QED BY <1>2, <2>1
<1> QED BY <1>3

\* A set that has 0, and the next of each of its numbers, has all.
LEMMA Induction ==
  ASSUME NEW T, 0 \in T, \A n \in T \cap Nat : n + 1 \in T
  PROVE  Nat \subseteq T
<1> DEFINE S == Nat \ T
<1> SUFFICES ASSUME S # {} PROVE FALSE
  OBVIOUS
<1>1. PICK x \in S : \A y \in S : x <= y
  <2>1. S \subseteq Nat
    OBVIOUS
  <2> HIDE DEF S
  <2> QED BY <2>1, LeastNumber
<1>2. x - 1 \in Nat \cap T
  BY <1>1
<1>3. (x - 1) + 1 = x
  OBVIOUS
<1> QED BY <1>2, <1>3

\* f[i] is what base has become after i steps.
Iterated(f, m, B, base, step) ==
  /\ f \in [0..m -> B]
  /\ f[0] = base
  /\ \A i \in 1..m : f[i] = step[<<i, f[i - 1]>>]

LEMMA Recursion ==
  ASSUME NEW B, NEW base \in B, NEW step \in [Nat \X B -> B], NEW m \in Nat
  PROVE  \E f : Iterated(f, m, B, base, step)
<1> DEFINE Steps(f, k) == f[0] = base /\ \A i \in 1..k : f[i] = step[<<i, f[i - 1]>>]
           T == {k \in Nat : \E f \in [0..k -> B] : Steps(f, k)}
<1>1. 0 \in T
  <2>1. [i \in 0..0 |-> base] \in [0..0 -> B] /\ Steps([i \in 0..0 |-> base], 0)
    OBVIOUS
  <2> QED BY <2>1
<1>2. ASSUME NEW k \in T PROVE k + 1 \in T
  <2>1. PICK f \in [0..k -> B] : Steps(f, k)
    OBVIOUS
  <2> DEFINE g == [i \in 0..k + 1 |-> IF i <= k THEN f[i] ELSE step[<<k + 1, f[k]>>]]
  <2>2. g \in [0..k + 1 -> B]
    OBVIOUS
  <2>3. Steps(g, k + 1)
    <3>1. g[0] = base
      BY <2>1
    <3>2. ASSUME NEW i \in 1..k + 1 PROVE g[i] = step[<<i, g[i - 1]>>]
      <4>1. CASE i <= k
        <5>1. g[i] = f[i] /\ g[i - 1] = f[i - 1] /\ i \in 1..k
          BY <3>2, <4>1
        <5> QED BY <2>1, <5>1
      <4>2. CASE i = k + 1
        <5>1. g[k + 1] = step[<<k + 1, f[k]>>] /\ g[k] = f[k] /\ (k + 1) - 1 = k
          OBVIOUS
        <5> QED BY <4>2, <5>1
      <4> QED BY <3>2, <4>1, <4>2
    <3> QED BY <3>1, <3>2
  <2> HIDE DEF g
  <2> QED BY <2>2, <2>3
<1>3. Nat \subseteq T
  <2> HIDE DEF T
  <2> QED BY <1>1, <1>2, Induction
<1>4. PICK f \in [0..m -> B] : Steps(f, m)
  BY <1>3
<1> QED BY <1>4 DEF Iterated

-----------------------------------------------------------------------------
(* The sequences the operations are built with *)

\* Keep's function, where it is defined.
KeptBy(f, s, S) ==
  f = [i \in 0..Len(s) |-> IF i = 0 THEN <<>> ELSE IF s[i] \in S THEN Append(f[i - 1], s[i]) ELSE f[i - 1]]

LEMMA KeptExists ==
  ASSUME NEW R, NEW s \in Seq(R), NEW S
  PROVE  \E f : KeptBy(f, s, S) /\ Keep(s, S) = f[Len(s)]
<1> DEFINE B == Seq(R)
           step == [x \in Nat \X B |->
                      IF x[1] \in 1..Len(s) /\ s[x[1]] \in S THEN Append(x[2], s[x[1]]) ELSE x[2]]
<1>0. Len(s) \in Nat /\ <<>> \in B
  OBVIOUS
<1>1. step \in [Nat \X B -> B]
  <2> SUFFICES ASSUME NEW i \in Nat, NEW v \in B PROVE step[<<i, v>>] \in B
    OBVIOUS
  <2>1. CASE i \in 1..Len(s) /\ s[i] \in S
    <3>1. s[i] \in R
      BY <2>1
    <3> QED BY <2>1, <3>1
  <2> QED BY <2>1
<1>2. PICK f : Iterated(f, Len(s), B, <<>>, step)
  <2> HIDE DEF B, step
  <2> QED BY <1>0, <1>1, Recursion
<1>3. ASSUME NEW i \in 1..Len(s)
      PROVE  f[i] = IF s[i] \in S THEN Append(f[i - 1], s[i]) ELSE f[i - 1]
  <2>1. i - 1 \in 0..Len(s) /\ i \in Nat
    BY <1>0
  <2>2. f[i - 1] \in B
    BY <1>2, <2>1 DEF Iterated
  <2>3. f[i] = step[<<i, f[i - 1]>>]
    BY <1>2 DEF Iterated
  <2> QED BY <2>1, <2>2, <2>3
<1>4. KeptBy(f, s, S)
  <2>1. f = [i \in 0..Len(s) |-> f[i]]
    BY <1>2 DEF Iterated
  <2>2. ASSUME NEW i \in 0..Len(s)
        PROVE  f[i] = IF i = 0 THEN <<>> ELSE IF s[i] \in S THEN Append(f[i - 1], s[i]) ELSE f[i - 1]
    <3>1. CASE i = 0
      BY <1>2, <3>1 DEF Iterated
    <3>2. CASE i # 0
      <4>1. i \in 1..Len(s)
        BY <1>0, <3>2
      <4> QED BY <1>3, <3>2, <4>1
    <3> QED BY <3>1, <3>2
  <2> QED BY <2>1, <2>2 DEF KeptBy
<1> DEFINE kept == CHOOSE g : KeptBy(g, s, S)
<1>5. KeptBy(kept, s, S)
  BY <1>4
<1>6. KeepOf(s, S) = kept[Len(s)]
  BY DEF KeepOf, KeptBy
<1>7. {KeepOf(t, T) : t \in {s}, T \in {S}} = {KeepOf(s, S)}
  OBVIOUS
<1>8. Keep(s, S) = KeepOf(s, S)
  BY <1>7 DEF Keep
<1> QED BY <1>5, <1>6, <1>8

\* What is kept is in the sequence and in the set.
LEMMA KeepType ==
  ASSUME NEW R, NEW s \in Seq(R), NEW S
  PROVE  Keep(s, S) \in Seq({x \in S : \E i \in 1..Len(s) : x = s[i]})
<1> DEFINE K == {x \in S : \E i \in 1..Len(s) : x = s[i]}
<1>1. PICK f : KeptBy(f, s, S) /\ Keep(s, S) = f[Len(s)]
  BY KeptExists
<1> DEFINE T == {i \in Nat : i <= Len(s) => f[i] \in Seq(K)}
<1>2. 0 \in T
  <2>1. f[0] = <<>>
    BY <1>1 DEF KeptBy
  <2>2. <<>> \in Seq(K)
    OBVIOUS
  <2> HIDE DEF K
  <2> QED BY <2>1, <2>2
<1>3. ASSUME NEW i \in T \cap Nat PROVE i + 1 \in T
  <2> SUFFICES ASSUME i + 1 <= Len(s) PROVE f[i + 1] \in Seq(K)
    OBVIOUS
  <2>1. f[i] \in Seq(K) /\ i \in Nat
    OBVIOUS
  <2>2. i + 1 \in 1..Len(s) /\ (i + 1) - 1 = i /\ i + 1 \in 0..Len(s) /\ i + 1 # 0
    OBVIOUS
  <2>3. s[i + 1] \in S => s[i + 1] \in K
    BY <2>2
  <2> HIDE DEF K, T
  <2>4. f[i + 1] = IF s[i + 1] \in S THEN Append(f[i], s[i + 1]) ELSE f[i]
    BY <1>1, <2>2 DEF KeptBy
  <2> QED BY <2>1, <2>3, <2>4
<1>4. Len(s) \in T
  <2> HIDE DEF T
  <2>1. Len(s) \in Nat
    OBVIOUS
  <2> QED BY <1>2, <1>3, <2>1, Induction
<1> QED BY <1>1, <1>4

\* FlattenSeq's function, where it is defined.
FlatBy(f, ss) == f = [i \in 1..Len(ss) |-> IF i = 1 THEN ss[i] ELSE f[i - 1] \o ss[i]]

LEMMA FlatExists ==
  ASSUME NEW S, NEW ss \in Seq(Seq(S)), ss # <<>>
  PROVE  \E f : FlatBy(f, ss) /\ FlattenSeq(ss) = f[Len(ss)]
<1> DEFINE B == Seq(S)
           step == [x \in Nat \X B |-> IF x[1] \in 1..Len(ss) THEN x[2] \o ss[x[1]] ELSE x[2]]
<1>0. Len(ss) \in Nat /\ <<>> \in B /\ Len(ss) # 0
  OBVIOUS
<1>1. step \in [Nat \X B -> B]
  <2> SUFFICES ASSUME NEW i \in Nat, NEW v \in B PROVE step[<<i, v>>] \in B
    OBVIOUS
  <2>1. CASE i \in 1..Len(ss)
    <3>1. ss[i] \in B
      BY <2>1
    <3> QED BY <2>1, <3>1
  <2> QED BY <2>1
<1>2. PICK f : Iterated(f, Len(ss), B, <<>>, step)
  <2> HIDE DEF B, step
  <2> QED BY <1>0, <1>1, Recursion
<1>3. ASSUME NEW i \in 1..Len(ss) PROVE f[i] = IF i = 1 THEN ss[i] ELSE f[i - 1] \o ss[i]
  <2>1. i - 1 \in 0..Len(ss) /\ i \in Nat /\ ss[i] \in B
    BY <1>0
  <2>2. f[i - 1] \in B
    BY <1>2, <2>1, ZenonT(60) DEF Iterated
  <2>3. f[i] = step[<<i, f[i - 1]>>]
    BY <1>2 DEF Iterated
  <2>4. f[i] = f[i - 1] \o ss[i]
    BY <2>1, <2>2, <2>3
  <2>5. i = 1 => f[i - 1] = <<>>
    BY <1>2 DEF Iterated
  <2>6. <<>> \o ss[i] = ss[i]
    BY <2>1
  <2> QED BY <2>4, <2>5, <2>6
<1> DEFINE g == [i \in 1..Len(ss) |-> f[i]]
<1>4. FlatBy(g, ss)
  <2>1. ASSUME NEW i \in 1..Len(ss) PROVE g[i] = IF i = 1 THEN ss[i] ELSE g[i - 1] \o ss[i]
    <3>1. i # 1 => i - 1 \in 1..Len(ss)
      BY <1>0
    <3> QED BY <1>3, <3>1
  <2>2. g = [i \in 1..Len(ss) |-> g[i]]
    OBVIOUS
  <2> HIDE DEF g
  <2> QED BY <2>1, <2>2 DEF FlatBy
<1> DEFINE flat == CHOOSE h : FlatBy(h, ss)
<1>5. FlatBy(flat, ss)
  <2> HIDE DEF g
  <2> QED BY <1>4
<1>6. FlattenSeq(ss) = flat[Len(ss)]
  BY <1>0 DEF FlattenSeq, FlatBy
<1> QED BY <1>5, <1>6

\* A set of sequences that is closed under \o has what it flattens to.
LEMMA FlattenType ==
  ASSUME NEW S, NEW W, W \subseteq Seq(S), <<>> \in W, \A u, v \in W : u \o v \in W,
         NEW ss \in Seq(W)
  PROVE  FlattenSeq(ss) \in W
<1>1. CASE ss = <<>>
  BY <1>1 DEF FlattenSeq
<1>2. CASE ss # <<>>
  <2>0. ss \in Seq(Seq(S)) /\ Len(ss) \in Nat /\ Len(ss) # 0
    BY <1>2
  <2>1. PICK f : FlatBy(f, ss) /\ FlattenSeq(ss) = f[Len(ss)]
    BY <1>2, <2>0, FlatExists
  <2> DEFINE T == {i \in Nat : i + 1 <= Len(ss) => f[i + 1] \in W}
  <2>2. 0 \in T
    <3>1. 1 \in 1..Len(ss)
      BY <2>0
    <3>2. f[1] = ss[1]
      BY <2>1, <3>1 DEF FlatBy
    <3> QED BY <3>1, <3>2
  <2>3. ASSUME NEW i \in T \cap Nat PROVE i + 1 \in T
    <3> SUFFICES ASSUME (i + 1) + 1 <= Len(ss) PROVE f[(i + 1) + 1] \in W
      OBVIOUS
    <3>1. (i + 1) + 1 \in 1..Len(ss) /\ (i + 1) + 1 # 1 /\ ((i + 1) + 1) - 1 = i + 1 /\ f[i + 1] \in W
      BY <2>0
    <3>2. f[(i + 1) + 1] = f[i + 1] \o ss[(i + 1) + 1]
      BY <2>1, <3>1 DEF FlatBy
    <3>3. ss[(i + 1) + 1] \in W
      BY <3>1
    <3> QED BY <3>1, <3>2, <3>3
  <2>4. Len(ss) - 1 \in T
    <3> HIDE DEF T
    <3> QED BY <2>0, <2>2, <2>3, Induction, SMTT(40)
  <2>5. (Len(ss) - 1) + 1 = Len(ss)
    BY <2>0
  <2> QED BY <2>1, <2>4, <2>5
<1> QED BY <1>1, <1>2

LEMMA SeqSubset == ASSUME NEW S, NEW T, S \subseteq T, NEW s \in Seq(S) PROVE s \in Seq(T)
OBVIOUS

\* A sequence is one of its own elements.
LEMMA SeqOwnRange ==
  ASSUME NEW S, NEW s \in Seq(S)
  PROVE  s \in Seq(Range(s))
<1>1. Len(s) \in Nat /\ DOMAIN s = 1..Len(s)
  OBVIOUS
<1>2. \A i \in 1..Len(s) : s[i] \in Range(s)
  BY <1>1 DEF Range
<1> DEFINE R == Range(s)
<1>3. s = [i \in 1..Len(s) |-> s[i]]
  OBVIOUS
<1> HIDE DEF R
<1>4. s \in [1..Len(s) -> R]
  BY <1>2, <1>3 DEF R
<1>5. s \in Seq(R)
  BY <1>1, <1>4
<1> QED BY <1>5 DEF R

LEMMA SlotTypes ==
  ASSUME NEW ts \in Seq(Nat)
  PROVE  /\ SlotsOf(ts) \in Seq(1..Len(ts))
         /\ CpuSlots(ts) \in Seq({k \in 1..Len(ts) : ts[k] = 0})
         /\ AccelSlots(ts) \in Seq({k \in 1..Len(ts) : ts[k] # 0})
<1>1. SlotsOf(ts) \in Seq(1..Len(ts)) /\ Len(SlotsOf(ts)) = Len(ts)
  BY DEF SlotsOf
<1>2. ASSUME NEW S \in SUBSET (1..Len(ts)) PROVE Keep(SlotsOf(ts), S) \in Seq(S)
  <2>1. {x \in S : \E i \in 1..Len(SlotsOf(ts)) : x = SlotsOf(ts)[i]} \subseteq S
    OBVIOUS
  <2>2. Keep(SlotsOf(ts), S) \in Seq({x \in S : \E i \in 1..Len(SlotsOf(ts)) : x = SlotsOf(ts)[i]})
    BY <1>1, KeepType
  <2> QED BY <2>1, <2>2, SeqSubset
<1>3. CpuSlots(ts) \in Seq({k \in 1..Len(ts) : ts[k] = 0})
  BY <1>2 DEF CpuSlots
<1>4. AccelSlots(ts) \in Seq({k \in 1..Len(ts) : ts[k] # 0})
  BY <1>2 DEF AccelSlots
<1> QED BY <1>1, <1>3, <1>4

LEMMA DeviceSlotTypes ==
  ASSUME NEW ts \in Seq(Nat), NEW d
  PROVE  /\ On(ts, d) \in Seq({k \in 1..Len(ts) : ts[k] # 0 /\ ts[k] = d})
         /\ NotOn(ts, d) \in Seq({k \in 1..Len(ts) : ts[k] # 0 /\ ts[k] # d})
<1> DEFINE A == {k \in 1..Len(ts) : ts[k] # 0}
           a == AccelSlots(ts)
<1>1. a \in Seq(A)
  BY SlotTypes
<1>2. ASSUME NEW S PROVE Keep(a, S) \in Seq({x \in S : \E i \in 1..Len(a) : x = a[i]})
  <2> HIDE DEF a, A
  <2> QED BY <1>1, KeepType
<1>3. ASSUME NEW S PROVE {x \in S : \E i \in 1..Len(a) : x = a[i]} \subseteq S \cap A
  <2> SUFFICES ASSUME NEW i \in 1..Len(a) PROVE a[i] \in A
    OBVIOUS
  <2> HIDE DEF a, A
  <2> QED BY <1>1
<1>4. ASSUME NEW S, NEW T, S \cap A \subseteq T PROVE Keep(a, S) \in Seq(T)
  <2>1. {x \in S : \E i \in 1..Len(a) : x = a[i]} \subseteq T
    BY <1>3, <1>4
  <2> HIDE DEF a, A
  <2> QED BY <1>2, <2>1, SeqSubset
<1>5. On(ts, d) = Keep(a, {k \in 1..Len(ts) : ts[k] = d})
  BY DEF On
<1>6. NotOn(ts, d) = Keep(a, {k \in 1..Len(ts) : ts[k] # d})
  BY DEF NotOn
<1>7. /\ {k \in 1..Len(ts) : ts[k] = d} \cap A \subseteq {k \in 1..Len(ts) : ts[k] # 0 /\ ts[k] = d}
      /\ {k \in 1..Len(ts) : ts[k] # d} \cap A \subseteq {k \in 1..Len(ts) : ts[k] # 0 /\ ts[k] # d}
  OBVIOUS
<1> HIDE DEF a, A
<1> QED BY <1>4, <1>5, <1>6, <1>7

-----------------------------------------------------------------------------
(* Scenes, pairs and process groups                                         *)

\* Call c of r is a call of the scene.
InScene(r, c) == scene \in Scenes /\ r \in Workers /\ c \in 1..Len(CallsOf(r))

LEMMA SceneFacts ==
  ASSUME scene \in Scenes
  PROVE  /\ scene.n \in Nat /\ scene.n >= 2
         /\ \A r \in Workers : /\ scene.accels[r] \subseteq Nat \ {0}
                               /\ scene.current[r] \in Nat
                               /\ CallsOf(r) \in Seq(Call) /\ Len(CallsOf(r)) \in Nat
<1>1. scene \in Scene /\ scene.n >= 2 /\ Len(scene.accels) = scene.n
      /\ Len(scene.current) = scene.n /\ Len(scene.calls) = scene.n
  BY CollectiveAssumption
<1>2. /\ scene.n \in Nat /\ scene.accels \in Seq(SUBSET (Nat \ {0})) /\ scene.current \in Seq(Nat)
      /\ scene.calls \in Seq(Seq(Call))
  BY <1>1 DEF Scene
<1>3. ASSUME NEW r \in Workers
      PROVE  /\ scene.accels[r] \in SUBSET (Nat \ {0}) /\ scene.current[r] \in Nat
             /\ scene.calls[r] \in Seq(Call)
  <2>1. r \in 1..Len(scene.accels) /\ r \in 1..Len(scene.current) /\ r \in 1..Len(scene.calls)
    BY <1>1 DEF Workers
  <2> HIDE DEF Call
  <2>2. scene.accels[r] \in SUBSET (Nat \ {0})
    BY <1>2, <2>1
  <2>3. scene.current[r] \in Nat
    BY <1>2, <2>1
  <2>4. scene.calls[r] \in Seq(Call)
    BY <1>2, <2>1
  <2> QED BY <2>2, <2>3, <2>4
<1>4. ASSUME NEW r \in Workers PROVE Len(CallsOf(r)) \in Nat
  BY <1>3 DEF CallsOf
<1> QED BY <1>1, <1>2, <1>3, <1>4 DEF CallsOf

LEMMA CallFacts ==
  ASSUME NEW r, NEW c, InScene(r, c)
  PROVE  LET call == CallsOf(r)[c]
         IN  /\ call \in Call /\ call.peer \in Workers /\ call.tensors \in Seq(Nat)
             /\ call.op \in {"send", "recv", "send_tensor", "recv_tensor", "broadcast"}
             /\ call.kind \in {"list", "dict", "dataclass", "object"}
             /\ call.op # "broadcast" => call.peer \in Workers \ {r}
             /\ \A k \in 1..Len(call.tensors) : call.tensors[k] \in scene.accels[r] \union {0}
             /\ call.op \in {"send_tensor", "recv_tensor"} => Len(call.tensors) = 1
<1> DEFINE call == CallsOf(r)[c]
<1>1. CallsOf(r) \in Seq(Call) /\ c \in 1..Len(CallsOf(r)) /\ r \in 1..scene.n /\ scene \in Scenes
  BY SceneFacts DEF InScene, Workers
<1>2. call \in Call
  <2> HIDE DEF Call
  <2> QED BY <1>1
<1>3. /\ call.peer \in 1..scene.n /\ (call.op # "broadcast" => call.peer # r)
      /\ \A k \in 1..Len(call.tensors) : call.tensors[k] \in scene.accels[r] \union {0}
      /\ call.op \in {"send_tensor", "recv_tensor"} => Len(call.tensors) = 1
  BY <1>1, CollectiveAssumption DEF CallsOf
<1>4. /\ call.tensors \in Seq(Nat)
      /\ call.op \in {"send", "recv", "send_tensor", "recv_tensor", "broadcast"}
      /\ call.kind \in {"list", "dict", "dataclass", "object"}
  BY <1>2 DEF Call
<1> HIDE DEF call
<1>5. /\ call \in Call /\ call.peer \in Workers /\ call.tensors \in Seq(Nat)
      /\ call.op \in {"send", "recv", "send_tensor", "recv_tensor", "broadcast"}
      /\ call.kind \in {"list", "dict", "dataclass", "object"}
      /\ call.op # "broadcast" => call.peer \in Workers \ {r}
      /\ \A k \in 1..Len(call.tensors) : call.tensors[k] \in scene.accels[r] \union {0}
      /\ call.op \in {"send_tensor", "recv_tensor"} => Len(call.tensors) = 1
  BY <1>2, <1>3, <1>4 DEF Workers
<1> QED BY <1>5 DEF call

\* A pair is the same from both sides, and one side's sending is the other's
\* receiving.
LEMMA PairFacts ==
  ASSUME scene \in Scenes, NEW r \in Workers, NEW q \in Workers, r # q
  PROVE  /\ Pair(r, q) = Pair(q, r) /\ Pair(r, q) \in Seq(Workers)
         /\ Range(Pair(r, q)) = {r, q}
         /\ \A p, s \in Workers : p # s /\ Pair(r, q) = Pair(p, s) => (p = r /\ s = q) \/ (p = q /\ s = r)
         /\ SendLane(Pair(r, q), r) = RecvLane(Pair(r, q), q)
         /\ SendLane(Pair(r, q), r) # RecvLane(Pair(r, q), r)
         /\ SendLane(Pair(r, q), r) \in {"send", "recv"} /\ RecvLane(Pair(r, q), r) \in {"send", "recv"}
<1>0. scene.n \in Nat /\ r \in Nat /\ q \in Nat
  BY SceneFacts DEF Workers
<1>1. CASE r < q
  <2>1. ~(q < r)
    BY <1>0, <1>1
  <2>2. Pair(r, q) = <<r, q>> /\ Pair(q, r) = <<r, q>>
    BY <1>1, <2>1 DEF Pair
  <2>3. <<r, q>> \in Seq(Workers) /\ Range(<<r, q>>) = {r, q}
    BY DEF Range
  <2>4. ASSUME NEW p \in Workers, NEW s \in Workers, Pair(p, s) = <<r, q>> PROVE (p = r /\ s = q) \/ (p = q /\ s = r)
    BY <2>4 DEF Pair
  <2> QED BY <2>2, <2>3, <2>4 DEF SendLane, RecvLane
<1>2. CASE q < r
  <2>1. ~(r < q)
    BY <1>0, <1>2
  <2>2. Pair(r, q) = <<q, r>> /\ Pair(q, r) = <<q, r>>
    BY <1>2, <2>1 DEF Pair
  <2>3. <<q, r>> \in Seq(Workers) /\ Range(<<q, r>>) = {r, q}
    BY DEF Range
  <2>4. ASSUME NEW p \in Workers, NEW s \in Workers, Pair(p, s) = <<q, r>> PROVE (p = r /\ s = q) \/ (p = q /\ s = r)
    BY <2>4 DEF Pair
  <2> QED BY <2>2, <2>3, <2>4 DEF SendLane, RecvLane
<1>3. r < q \/ q < r
  BY <1>0
<1> QED BY <1>1, <1>2, <1>3

\* Who is on the other side of a process group of a pair.
LEMMA LaneFacts ==
  ASSUME scene \in Scenes, NEW r \in Workers, NEW q \in Workers \ {r}, NEW pg
  PROVE  /\ Outward(r, q, pg) <=> Inward(q, r, pg)
         /\ Outward(r, q, pg) => /\ pg.lane # "collective" /\ Range(pg.group) = {r, q}
                                 /\ \A p \in Workers : \A s \in Workers \ {p} :
                                      /\ Outward(p, s, pg) => p = r /\ s = q
                                      /\ Inward(p, s, pg) => p = q /\ s = r
<1>1. Outward(r, q, pg) <=> Inward(q, r, pg)
  BY PairFacts DEF Outward, Inward
<1>2. ASSUME Outward(r, q, pg)
      PROVE  pg.lane # "collective" /\ Range(pg.group) = {r, q}
  BY <1>2, PairFacts DEF Outward
<1>3. ASSUME Outward(r, q, pg), NEW p \in Workers, NEW s \in Workers \ {p}, Outward(p, s, pg)
      PROVE  p = r /\ s = q
  <2>0. Pair(p, s) = Pair(r, q) /\ p # s /\ r # q
    BY <1>3 DEF Outward
  <2>a. q \in Workers /\ s \in Workers
    OBVIOUS
  <2>b. \A x, y \in Workers : x # y /\ Pair(r, q) = Pair(x, y) => (x = r /\ y = q) \/ (x = q /\ y = r)
    BY <2>0, <2>a, PairFacts
  <2>1. (p = r /\ s = q) \/ (p = q /\ s = r)
    BY <2>0, <2>a, <2>b
  <2>2. CASE p = q /\ s = r
    <3>1. SendLane(Pair(q, r), q) = RecvLane(Pair(q, r), r) /\ Pair(q, r) = Pair(r, q)
      BY PairFacts
    <3>2. SendLane(Pair(r, q), r) # RecvLane(Pair(r, q), r)
      BY PairFacts
    <3> QED BY <1>3, <2>0, <2>2, <3>1, <3>2 DEF Outward
  <2> QED BY <2>0, <2>1, <2>2
<1>4. ASSUME Outward(r, q, pg), NEW p \in Workers, NEW s \in Workers \ {p}, Inward(p, s, pg)
      PROVE  p = q /\ s = r
  <2>1. Outward(s, p, pg)
    BY <1>4, PairFacts DEF Outward, Inward
  <2> QED BY <1>3, <1>4, <2>1
<1> QED BY <1>1, <1>2, <1>3, <1>4

LEMMA RelationSymmetric ==
  ASSUME NEW r, NEW q PROVE Relation(r, q) = Relation(q, r)
<1>1. scene.accels[r] \intersect scene.accels[q] = scene.accels[q] \intersect scene.accels[r]
  OBVIOUS
<1> QED BY <1>1 DEF Relation

LEMMA RelationIs ==
  ASSUME NEW r, NEW q PROVE Relation(r, q) \in {"apart", "same", "unsure"}
BY DEF Relation

\* With a CCL everybody has an accelerator.
LEMMA CclAccels ==
  ASSUME NEW g \in Seq(Workers), Placed, ~NoCcl(g)
  PROVE  \A x \in Range(g) : scene.accels[x] # {}
<1> SUFFICES ASSUME NEW x \in Range(g) PROVE scene.accels[x] # {}
  OBVIOUS
<1>1. g[1] \in Range(g) /\ Range(g) \subseteq Workers
  BY DEF Range
<1>2. scene.accels[g[1]] # {} /\ scene.model[x] = scene.model[g[1]]
  BY DEF NoCcl
<1> QED BY <1>1, <1>2 DEF Placed

\* The process groups of a pair.
LEMMA PairPgs ==
  ASSUME scene \in Scenes, NEW r \in Workers, NEW q \in Workers \ {r}, NEW t
  PROVE  /\ SendPg(Pair(r, q), r, t) \in Pgs /\ Outward(r, q, SendPg(Pair(r, q), r, t))
         /\ RecvPg(Pair(r, q), r, t) \in Pgs /\ Inward(r, q, RecvPg(Pair(r, q), r, t))
         /\ SendPg(Pair(r, q), r, 0).backend = "gloo" /\ RecvPg(Pair(r, q), r, 0).backend = "gloo"
         /\ \/ SendPg(Pair(r, q), r, t).backend = "ccl" /\ RecvPg(Pair(r, q), r, t).backend = "ccl"
                 /\ t # 0 /\ (Placed => scene.accels[r] # {} /\ scene.accels[q] # {})
            \/ SendPg(Pair(r, q), r, t).backend = "gloo" /\ RecvPg(Pair(r, q), r, t).backend = "gloo"
<1>1. /\ Pair(r, q) \in Seq(Workers) /\ Range(Pair(r, q)) = {r, q}
      /\ SendLane(Pair(r, q), r) \in {"send", "recv"} /\ RecvLane(Pair(r, q), r) \in {"send", "recv"}
  BY PairFacts
<1>2. Backend(Pair(r, q), t) \in {"gloo", "ccl"} /\ Backend(Pair(r, q), 0) = "gloo"
  BY DEF Backend
<1>3. Backend(Pair(r, q), t) = "ccl" =>
        t # 0 /\ (Placed => scene.accels[r] # {} /\ scene.accels[q] # {})
  <2> SUFFICES ASSUME Backend(Pair(r, q), t) = "ccl"
               PROVE  t # 0 /\ (Placed => scene.accels[r] # {} /\ scene.accels[q] # {})
    OBVIOUS
  <2>1. t # 0 /\ ~NoCcl(Pair(r, q))
    BY DEF Backend
  <2>2. r \in Range(Pair(r, q)) /\ q \in Range(Pair(r, q))
    BY <1>1
  <2>3. Placed => \A x \in Range(Pair(r, q)) : scene.accels[x] # {}
    BY <2>1, CclAccels, PairFacts
  <2> QED BY <2>1, <2>2, <2>3
<1> QED BY <1>1, <1>2, <1>3 DEF SendPg, RecvPg, Pgs, Outward, Inward

-----------------------------------------------------------------------------
(* What a call is made of                                                   *)

LEMMA PlanNil == ASSUME NEW r, NEW c PROVE <<>> \in Plans(r, c)
BY DEF Plans, Guarded

LEMMA GuardedCat ==
  ASSUME NEW S, NEW u \in Seq(S), NEW v \in Seq(S), Guarded(u), Guarded(v)
  PROVE  Guarded(u \o v)
<1> DEFINE w == u \o v
<1>0. Len(u) \in Nat /\ Len(v) \in Nat
  OBVIOUS
<1>1. /\ Len(w) = Len(u) + Len(v) /\ \A i \in 1..Len(u) : w[i] = u[i]
      /\ \A i \in 1..Len(v) : w[Len(u) + i] = v[i]
  OBVIOUS
<1> HIDE DEF w
<1> SUFFICES ASSUME NEW j \in 1..Len(w), w[j].do = "post", w[j].what = "handles"
             PROVE  /\ j + 3 <= Len(w)
                    /\ w[j + 1] = [do |-> "drain"] /\ w[j + 2] = ZeroPost(w[j].pg)
                    /\ w[j + 3] = [do |-> "drain"]
  BY DEF Guarded, w
<1>2. CASE j <= Len(u)
  <2>1. j \in 1..Len(u) /\ w[j] = u[j]
    BY <1>0, <1>1, <1>2
  <2>2. /\ j + 3 <= Len(u)
        /\ u[j + 1] = [do |-> "drain"] /\ u[j + 2] = ZeroPost(u[j].pg) /\ u[j + 3] = [do |-> "drain"]
    BY <2>1 DEF Guarded
  <2>3. j + 1 \in 1..Len(u) /\ j + 2 \in 1..Len(u) /\ j + 3 \in 1..Len(u)
    BY <1>0, <2>1, <2>2
  <2>4. w[j + 1] = u[j + 1] /\ w[j + 2] = u[j + 2] /\ w[j + 3] = u[j + 3]
    BY <1>1, <2>3
  <2>5. j + 3 <= Len(w)
    BY <1>0, <1>1, <2>2
  <2> QED BY <2>1, <2>2, <2>4, <2>5
<1>3. CASE j > Len(u)
  <2> DEFINE i == j - Len(u)
  <2>1. i \in 1..Len(v) /\ Len(u) + i = j
    BY <1>0, <1>1, <1>3
  <2>2. w[j] = v[i]
    BY <1>1, <2>1
  <2> HIDE DEF i
  <2>3. /\ i + 3 <= Len(v)
        /\ v[i + 1] = [do |-> "drain"] /\ v[i + 2] = ZeroPost(v[i].pg) /\ v[i + 3] = [do |-> "drain"]
    BY <2>1, <2>2 DEF Guarded
  <2>4. i + 1 \in 1..Len(v) /\ i + 2 \in 1..Len(v) /\ i + 3 \in 1..Len(v)
    BY <1>0, <2>1, <2>3
  <2>5. w[Len(u) + (i + 1)] = v[i + 1] /\ w[Len(u) + (i + 2)] = v[i + 2] /\ w[Len(u) + (i + 3)] = v[i + 3]
    BY <1>1, <2>4
  <2>6. Len(u) + (i + 1) = j + 1 /\ Len(u) + (i + 2) = j + 2 /\ Len(u) + (i + 3) = j + 3
    <3>1. i \in Nat
      BY <2>1
    <3>2. Len(u) + i = j
      BY <2>1
    <3> QED BY <1>0, <3>1, <3>2
  <2>7. j + 3 <= Len(w)
    <3>1. Len(w) = Len(u) + Len(v) /\ i \in Nat /\ i + 3 <= Len(v) /\ Len(u) + i = j
      BY <1>1, <2>1, <2>3
    <3> QED BY <1>0, <3>1
  <2> QED BY <2>2, <2>3, <2>5, <2>6, <2>7
<1> QED BY <1>0, <1>1, <1>2, <1>3

LEMMA PlanCat ==
  ASSUME NEW r, NEW c, NEW u \in Plans(r, c), NEW v \in Plans(r, c)
  PROVE  u \o v \in Plans(r, c)
<1> DEFINE S == Ops(r, c)
<1>1. u \in Seq(S) /\ v \in Seq(S) /\ Guarded(u) /\ Guarded(v)
  BY DEF Plans
<1> HIDE DEF S
<1>2. u \o v \in Seq(S) /\ Guarded(u \o v)
  BY <1>1, GuardedCat
<1> QED BY <1>2 DEF Plans, S

LEMMA PlanFlat ==
  ASSUME NEW r, NEW c, NEW ss \in Seq(Plans(r, c))
  PROVE  FlattenSeq(ss) \in Plans(r, c)
<1> DEFINE W == Plans(r, c)
           S == Ops(r, c)
<1>1. W \subseteq Seq(S)
  BY DEF Plans
<1>2. <<>> \in W /\ \A u, v \in W : u \o v \in W
  BY PlanNil, PlanCat
<1> HIDE DEF W, S
<1>3. ss \in Seq(W)
  BY DEF W
<1> QED BY <1>1, <1>2, <1>3, FlattenType DEF W

\* What is left after the first operation.
LEMMA PlanTail ==
  ASSUME NEW r, NEW c, NEW u \in Plans(r, c), u # <<>>
  PROVE  /\ Head(u) \in Ops(r, c) /\ Tail(u) \in Plans(r, c) /\ Head(u) = u[1]
         /\ Len(u) \in Nat \ {0} /\ Len(Tail(u)) = Len(u) - 1
         /\ \A i \in 1..Len(u) - 1 : Tail(u)[i] = u[i + 1]
<1> DEFINE S == Ops(r, c)
           w == Tail(u)
<1>1. u \in Seq(S) /\ Guarded(u)
  BY DEF Plans
<1> HIDE DEF S
<1>2. /\ Head(u) \in S /\ Head(u) = u[1] /\ Len(u) \in Nat \ {0} /\ w \in Seq(S) /\ Len(w) = Len(u) - 1
      /\ \A i \in 1..Len(u) - 1 : w[i] = u[i + 1]
  BY <1>1
<1> HIDE DEF w
<1>3. Guarded(w)
  <2> SUFFICES ASSUME NEW j \in 1..Len(w), w[j].do = "post", w[j].what = "handles"
               PROVE  /\ j + 3 <= Len(w)
                      /\ w[j + 1] = [do |-> "drain"] /\ w[j + 2] = ZeroPost(w[j].pg)
                      /\ w[j + 3] = [do |-> "drain"]
    BY DEF Guarded
  <2>1. j + 1 \in 1..Len(u) /\ w[j] = u[j + 1]
    BY <1>2
  <2>2. /\ (j + 1) + 3 <= Len(u)
        /\ u[(j + 1) + 1] = [do |-> "drain"] /\ u[(j + 1) + 2] = ZeroPost(u[j + 1].pg)
        /\ u[(j + 1) + 3] = [do |-> "drain"]
    BY <1>1, <2>1 DEF Guarded
  <2>3. /\ j + 1 \in 1..Len(u) - 1 /\ j + 2 \in 1..Len(u) - 1 /\ j + 3 \in 1..Len(u) - 1
        /\ (j + 1) + 1 = j + 2 /\ (j + 1) + 2 = j + 3 /\ (j + 2) + 1 = j + 3 /\ (j + 1) + 3 = (j + 3) + 1
    BY <1>2, <2>1, <2>2
  <2>4. w[j + 1] = u[(j + 1) + 1] /\ w[j + 2] = u[(j + 2) + 1] /\ w[j + 3] = u[(j + 3) + 1]
    BY <1>2, <2>3
  <2>5. j + 3 <= Len(w)
    BY <1>2, <2>1, <2>2
  <2> QED BY <2>1, <2>2, <2>3, <2>4, <2>5
<1> QED BY <1>1, <1>2, <1>3 DEF Plans, S, w

LEMMA PlanOne ==
  ASSUME NEW r, NEW c, NEW op \in Ops(r, c), op.do = "post" => op.what # "handles"
  PROVE  <<op>> \in Plans(r, c)
<1> DEFINE S == Ops(r, c)
<1>1. op \in S
  OBVIOUS
<1> HIDE DEF S
<1>2. <<op>> \in Seq(S) /\ Len(<<op>>) = 1 /\ <<op>>[1] = op
  BY <1>1
<1>3. Guarded(<<op>>)
  BY <1>2 DEF Guarded
<1> QED BY <1>2, <1>3 DEF Plans, S

LEMMA DrainPlan == ASSUME NEW r, NEW c PROVE Drain \in Plans(r, c)
<1>1. [do |-> "drain"] \in Ops(r, c)
  BY DEF Ops, Waits
<1> QED BY <1>1, PlanOne DEF Drain

LEMMA SyncPlan == ASSUME NEW r, NEW c PROVE <<[do |-> "sync"]>> \in Plans(r, c)
<1>1. [do |-> "sync"] \in Ops(r, c)
  BY DEF Ops, Waits
<1> QED BY <1>1, PlanOne

LEMMA JoinPlan == ASSUME NEW r, NEW c, NEW g \in Seq(Workers) PROVE Join(g) \in Plans(r, c)
<1>1. [do |-> "join", group |-> g] \in Ops(r, c)
  BY DEF Ops, Joins
<1> QED BY <1>1, PlanOne DEF Join

LEMMA PutPlan ==
  ASSUME NEW r, NEW c, NEW pg \in Pgs, NEW what \in Words \ {"handles"}, NEW slots \in Seq(Nat),
         MayPost(r, c, pg, what, slots)
  PROVE  Post(pg, what, slots) \in Plans(r, c) /\ Put(pg, what, slots) \in Plans(r, c)
<1> DEFINE op == [do |-> "post", pg |-> pg, what |-> what, slots |-> slots]
<1>1. op \in Posts(r, c)
  BY DEF Posts
<1>2. op \in Ops(r, c) /\ op.what # "handles"
  BY <1>1 DEF Ops
<1>3. Post(pg, what, slots) \in Plans(r, c)
  BY <1>2, PlanOne DEF Post
<1>4. (IF pg.backend = "gloo" THEN Drain ELSE <<>>) \in Plans(r, c)
  BY DrainPlan, PlanNil
<1> QED BY <1>3, <1>4, PlanCat DEF Put

LEMMA TakePlan ==
  ASSUME NEW r, NEW c, NEW pg \in Pgs, NEW what \in Words, NEW slots \in Seq(Nat),
         NEW accel \in BOOLEAN, MayTake(r, c, pg, what, slots)
  PROVE  Take(pg, what, slots, accel) \in Plans(r, c)
<1> DEFINE op == [do |-> "take", pg |-> pg, what |-> what, slots |-> slots, accel |-> accel]
<1>1. op \in Takes(r, c)
  BY DEF Takes
<1>2. op \in Ops(r, c) /\ op.do = "take"
  BY <1>1 DEF Ops
<1> QED BY <1>2, PlanOne DEF Take

\* One plan for each slot.
LEMMA EachPlan ==
  ASSUME NEW r, NEW c, NEW K, NEW slots \in Seq(K), NEW plan, \A k \in K : plan[k] \in Plans(r, c),
         NEW ss, ss = [i \in 1..Len(slots) |-> plan[slots[i]]]
  PROVE  FlattenSeq(ss) \in Plans(r, c)
<1>1. \A i \in 1..Len(slots) : plan[slots[i]] \in Plans(r, c)
  OBVIOUS
<1>2. ss \in Seq(Plans(r, c))
  <2> DEFINE W == Plans(r, c)
  <2> HIDE DEF W
  <2>1. \A i \in 1..Len(slots) : plan[slots[i]] \in W
    BY <1>1 DEF W
  <2>2. Len(slots) \in Nat
    OBVIOUS
  <2>3. ss \in Seq(W)
    BY <2>1, <2>2
  <2> QED BY <2>3 DEF W
<1> QED BY <1>2, PlanFlat

-----------------------------------------------------------------------------
(* What a call says to one other worker, and hears from it                  *)

\* Call c of r posts to q; it takes from q.
Sends(r, c, q) == InScene(r, c) /\ q \in Workers \ {r} /\ Posting(r, c, q)
Receives(r, c, q) == InScene(r, c) /\ q \in Workers \ {r} /\ Taking(r, c, q)

\* The accelerator tensors K among ts may go to q, may come from q.
MayGo(r, c, q, ts, K) ==
  \A k \in K : /\ k \in Nat
               /\ ts[k] # 0 /\ Placed /\ scene.accels[r] # {} /\ scene.accels[q] # {}
                  => DeviceOf(r, c, <<k>>) \in scene.accels[r] /\ DeviceOf(r, c, <<k>>) # scene.current[q]
MayCome(r, c, q, ts, K) ==
  \A k \in K : /\ k \in Nat
               /\ ts[k] # 0 /\ Placed /\ scene.accels[r] # {} /\ scene.accels[q] # {}
                  => /\ DeviceOf(r, c, <<k>>) \in scene.accels[r]
                     /\ DeviceOf(r, c, <<k>>) = scene.current[r] \/ Relation(r, q) = "apart"

\* A message without an accelerator tensor.
LEMMA WordPut ==
  ASSUME NEW r, NEW c, NEW q, Sends(r, c, q), NEW what \in Words \ {"handles"}, NEW slots \in Seq(Nat),
         what = "device" /\ CallsOf(r)[c].op = "recv_tensor" => CallsOf(r)[c].tensors[1] # 0
  PROVE  /\ Post(SendPg(Pair(r, q), r, 0), what, slots) \in Plans(r, c)
         /\ Put(SendPg(Pair(r, q), r, 0), what, slots) \in Plans(r, c)
<1> DEFINE pg == SendPg(Pair(r, q), r, 0)
<1>1. r \in Workers /\ q \in Workers \ {r} /\ scene \in Scenes /\ Posting(r, c, q)
  BY DEF Sends, InScene
<1>2. pg \in Pgs /\ Outward(r, q, pg) /\ pg.backend = "gloo"
  BY <1>1, PairPgs
<1>3. pg.lane # "collective"
  BY <1>1, <1>2, LaneFacts
<1> HIDE DEF pg
<1>4. OnDevice(r, c, pg, slots)
  BY <1>2 DEF OnDevice
<1>5. MayPost(r, c, pg, what, slots)
  BY <1>1, <1>2, <1>3, <1>4 DEF MayPost
<1>6. Post(pg, what, slots) \in Plans(r, c) /\ Put(pg, what, slots) \in Plans(r, c)
  BY <1>2, <1>5, PutPlan
<1> QED BY <1>6 DEF pg

LEMMA WordTake ==
  ASSUME NEW r, NEW c, NEW q, Receives(r, c, q), NEW what \in Words, NEW slots \in Seq(Nat),
         NEW accel \in BOOLEAN,
         what \in {"type", "meta", "devices"} => ~IsSource(r, CallsOf(r)[c]),
         what = "device" => IsSource(r, CallsOf(r)[c]),
         what = "devices" =>
           /\ CallsOf(r)[c].op # "broadcast" => Relation(r, q) = "unsure"
           /\ CallsOf(r)[c].op = "recv_tensor" => CallsOf(r)[c].tensors[1] # 0
  PROVE  Take(RecvPg(Pair(r, q), r, 0), what, slots, accel) \in Plans(r, c)
<1> DEFINE pg == RecvPg(Pair(r, q), r, 0)
<1>1. r \in Workers /\ q \in Workers \ {r} /\ scene \in Scenes /\ Taking(r, c, q)
  BY DEF Receives, InScene
<1>2. pg \in Pgs /\ Inward(r, q, pg) /\ pg.backend = "gloo"
  BY <1>1, PairPgs
<1>3. pg.lane # "collective"
  BY <1>1, <1>2, LaneFacts
<1> HIDE DEF pg
<1>4. OnDevice(r, c, pg, slots)
  BY <1>2 DEF OnDevice
<1>5. CallsOf(r)[c].op # "broadcast" => CallsOf(r)[c].peer = q
  BY <1>1 DEF Taking
<1>6. MayTake(r, c, pg, what, slots)
  BY <1>1, <1>2, <1>3, <1>4, <1>5 DEF MayTake
<1>7. Take(pg, what, slots, accel) \in Plans(r, c)
  BY <1>2, <1>6, TakePlan
<1> QED BY <1>7 DEF pg

\* A tensor, on the process group of its device.
LEMMA TensorPut ==
  ASSUME NEW r, NEW c, NEW q, Sends(r, c, q), NEW ts, NEW K, MayGo(r, c, q, ts, K), NEW k \in K
  PROVE  /\ Post(SendPg(Pair(r, q), r, ts[k]), "tensor", <<k>>) \in Plans(r, c)
         /\ Put(SendPg(Pair(r, q), r, ts[k]), "tensor", <<k>>) \in Plans(r, c)
<1> DEFINE pg == SendPg(Pair(r, q), r, ts[k])
           what == "tensor"
<1>1. r \in Workers /\ q \in Workers \ {r} /\ scene \in Scenes /\ Posting(r, c, q) /\ k \in Nat
  BY DEF Sends, InScene, MayGo
<1>2. pg \in Pgs /\ Outward(r, q, pg)
  BY <1>1, PairPgs
<1>3. \/ pg.backend = "ccl" /\ ts[k] # 0 /\ (Placed => scene.accels[r] # {} /\ scene.accels[q] # {})
      \/ pg.backend = "gloo"
  BY <1>1, PairPgs
<1>4. pg.lane # "collective"
  BY <1>1, <1>2, LaneFacts
<1> HIDE DEF pg
<1>5. OnDevice(r, c, pg, <<k>>)
  <2> SUFFICES ASSUME pg.backend = "ccl", Placed PROVE Fits(r, pg, DeviceOf(r, c, <<k>>))
    BY DEF OnDevice
  <2>1. DeviceOf(r, c, <<k>>) \in scene.accels[r] /\ DeviceOf(r, c, <<k>>) # scene.current[q]
    BY <1>3 DEF MayGo
  <2> QED BY <1>1, <1>2, <1>4, <2>1 DEF Fits, FitsPair
<1>6. MayPost(r, c, pg, what, <<k>>)
  BY <1>1, <1>2, <1>4, <1>5 DEF MayPost
<1>7. what \in Words \ {"handles"} /\ <<k>> \in Seq(Nat)
  BY <1>1 DEF Words
<1>8. Post(pg, what, <<k>>) \in Plans(r, c) /\ Put(pg, what, <<k>>) \in Plans(r, c)
  BY <1>2, <1>6, <1>7, PutPlan
<1> QED BY <1>8 DEF pg

LEMMA TensorTake ==
  ASSUME NEW r, NEW c, NEW q, Receives(r, c, q), NEW ts, NEW K, MayCome(r, c, q, ts, K), NEW k \in K
  PROVE  Take(RecvPg(Pair(r, q), r, ts[k]), "tensor", <<k>>, ts[k] # 0) \in Plans(r, c)
<1> DEFINE pg == RecvPg(Pair(r, q), r, ts[k])
           what == "tensor"
           accel == ts[k] # 0
<1>1. r \in Workers /\ q \in Workers \ {r} /\ scene \in Scenes /\ Taking(r, c, q) /\ k \in Nat
  BY DEF Receives, InScene, MayCome
<1>2. pg \in Pgs /\ Inward(r, q, pg)
  BY <1>1, PairPgs
<1>3. \/ pg.backend = "ccl" /\ ts[k] # 0 /\ (Placed => scene.accels[r] # {} /\ scene.accels[q] # {})
      \/ pg.backend = "gloo"
  BY <1>1, PairPgs
<1>4. pg.lane # "collective"
  BY <1>1, <1>2, LaneFacts
<1> HIDE DEF pg
<1>5. OnDevice(r, c, pg, <<k>>)
  <2> SUFFICES ASSUME pg.backend = "ccl", Placed PROVE Fits(r, pg, DeviceOf(r, c, <<k>>))
    BY DEF OnDevice
  <2>1. /\ DeviceOf(r, c, <<k>>) \in scene.accels[r]
        /\ DeviceOf(r, c, <<k>>) = scene.current[r] \/ Relation(r, q) = "apart"
    BY <1>3 DEF MayCome
  <2> QED BY <1>1, <1>2, <1>4, <2>1 DEF Fits, FitsPair
<1>6. MayTake(r, c, pg, what, <<k>>)
  BY <1>1, <1>2, <1>4, <1>5 DEF MayTake
<1>7. what \in Words /\ <<k>> \in Seq(Nat) /\ accel \in BOOLEAN
  BY <1>1 DEF Words
<1> HIDE DEF accel
<1>8. Take(pg, what, <<k>>, accel) \in Plans(r, c)
  BY <1>2, <1>6, <1>7, TakePlan
<1> QED BY <1>8 DEF pg, accel

LEMMA PutEachPlan ==
  ASSUME NEW r, NEW c, NEW q, Sends(r, c, q), NEW ts, NEW K, MayGo(r, c, q, ts, K),
         NEW slots \in Seq(K)
  PROVE  PutEach(Pair(r, q), r, ts, slots) \in Plans(r, c)
<1> DEFINE plan == [k \in K |-> Put(SendPg(Pair(r, q), r, ts[k]), "tensor", <<k>>)]
           ss == [i \in 1..Len(slots) |-> plan[slots[i]]]
<1>1. \A k \in K : plan[k] \in Plans(r, c)
  BY TensorPut
<1>2. ss = [i \in 1..Len(slots) |-> Put(SendPg(Pair(r, q), r, ts[slots[i]]), "tensor", <<slots[i]>>)]
  OBVIOUS
<1> HIDE DEF plan
<1>3. FlattenSeq(ss) \in Plans(r, c)
  BY <1>1, EachPlan
<1> QED BY <1>2, <1>3 DEF PutEach

LEMMA TakeEachPlan ==
  ASSUME NEW r, NEW c, NEW q, Receives(r, c, q), NEW ts, NEW K, MayCome(r, c, q, ts, K),
         NEW slots \in Seq(K)
  PROVE  TakeEach(Pair(r, q), r, ts, slots) \in Plans(r, c)
<1> DEFINE plan == [k \in K |-> Take(RecvPg(Pair(r, q), r, ts[k]), "tensor", <<k>>, ts[k] # 0)]
           ss == [i \in 1..Len(slots) |-> plan[slots[i]]]
<1>1. \A k \in K : plan[k] \in Plans(r, c)
  BY TensorTake
<1>2. ss = [i \in 1..Len(slots) |->
             Take(RecvPg(Pair(r, q), r, ts[slots[i]]), "tensor", <<slots[i]>>, ts[slots[i]] # 0)]
  OBVIOUS
<1> HIDE DEF plan
<1>3. FlattenSeq(ss) \in Plans(r, c)
  BY <1>1, EachPlan
<1> QED BY <1>2, <1>3 DEF TakeEach

\* Handles go with the zero behind them.
LEMMA IpcSendPlan ==
  ASSUME NEW r, NEW c, NEW q, Sends(r, c, q), NEW slots \in Seq(Nat)
  PROVE  IpcSend(Pair(r, q), r, slots) \in Plans(r, c)
<1> DEFINE pg == SendPg(Pair(r, q), r, 0)
           S == Ops(r, c)
           post == [do |-> "post", pg |-> pg, what |-> "handles", slots |-> slots]
           drain == [do |-> "drain"]
           zero == ZeroPost(pg)
           h == Put(pg, "handles", slots)
           z == Put(pg, "zero", <<>>)
           s == h \o z
<1>1. r \in Workers /\ q \in Workers \ {r} /\ scene \in Scenes /\ Posting(r, c, q)
  BY DEF Sends, InScene
<1>2. pg \in Pgs /\ Outward(r, q, pg) /\ pg.backend = "gloo"
  BY <1>1, PairPgs
<1>3. pg.lane # "collective"
  BY <1>1, <1>2, LaneFacts
<1> HIDE DEF pg
<1>4. IpcSend(Pair(r, q), r, slots) = IF slots = <<>> THEN <<>> ELSE s
  BY DEF IpcSend, pg
<1>5. h = <<post>> \o <<drain>> /\ z = <<zero>> \o <<drain>>
  BY <1>2 DEF Put, Post, Drain, ZeroPost
<1>6. post \in S /\ zero \in S /\ drain \in S
  <2>1. \A w \in {"handles", "zero"} : \A t \in Seq(Nat) : MayPost(r, c, pg, w, t)
    BY <1>1, <1>2, <1>3 DEF MayPost, OnDevice
  <2>2. post \in [do : {"post"}, pg : Pgs, what : Words, slots : Seq(Nat)]
    BY <1>2 DEF Words
  <2>3. post \in Posts(r, c)
    BY <2>1, <2>2 DEF Posts
  <2>4. zero \in [do : {"post"}, pg : Pgs, what : Words, slots : Seq(Nat)]
    BY <1>2 DEF Words, ZeroPost
  <2>5. zero \in Posts(r, c)
    <3>1. zero.pg = pg /\ zero.what = "zero" /\ zero.slots = <<>> /\ <<>> \in Seq(Nat)
      BY DEF ZeroPost
    <3>2. MayPost(r, c, zero.pg, zero.what, zero.slots)
      BY <2>1, <3>1
    <3> QED BY <2>4, <3>2 DEF Posts
  <2> QED BY <2>3, <2>5 DEF Ops, Waits
<1>7. post.do = "post" /\ post.pg = pg /\ drain.do = "drain" /\ zero.do = "post" /\ zero.what = "zero"
  BY DEF ZeroPost
<1> HIDE DEF post, zero, drain, S, h, z, s
<1>8. /\ h \in Seq(S) /\ Len(h) = 2 /\ h[1] = post /\ h[2] = drain
      /\ z \in Seq(S) /\ Len(z) = 2 /\ z[1] = zero /\ z[2] = drain
  <2>0. ASSUME NEW a \in S, NEW b \in S
        PROVE  LET w == <<a>> \o <<b>>
               IN  w \in Seq(S) /\ Len(w) = 2 /\ w[1] = a /\ w[2] = b
    <3> DEFINE x == <<a>>
               y == <<b>>
               w == x \o y
    <3>1. x \in Seq(S) /\ y \in Seq(S) /\ Len(x) = 1 /\ Len(y) = 1 /\ x[1] = a /\ y[1] = b
      OBVIOUS
    <3> HIDE DEF x, y
    <3>2. x \in Seq(S) /\ y \in Seq(S)
      BY <3>1
    <3>3. /\ w \in Seq(S) /\ Len(w) = Len(x) + Len(y)
          /\ \A i \in 1..Len(x) : w[i] = x[i]
          /\ \A i \in 1..Len(y) : w[Len(x) + i] = y[i]
      BY <3>2
    <3>4. w \in Seq(S) /\ Len(w) = 2 /\ w[1] = a /\ w[2] = b
      BY <3>1, <3>3
    <3> QED BY <3>4 DEF x, y
  <2>1. h \in Seq(S) /\ Len(h) = 2 /\ h[1] = post /\ h[2] = drain
    BY <1>5, <1>6, <2>0
  <2>2. z \in Seq(S) /\ Len(z) = 2 /\ z[1] = zero /\ z[2] = drain
    BY <1>5, <1>6, <2>0
  <2> QED BY <2>1, <2>2
<1>9. s \in Seq(S) /\ Len(s) = 4 /\ s[1] = post /\ s[2] = drain /\ s[3] = zero /\ s[4] = drain
  <2>1. s = h \o z
    BY DEF s, h, z
  <2>2. /\ s \in Seq(S) /\ Len(s) = Len(h) + Len(z)
        /\ \A i \in 1..Len(h) : s[i] = h[i]
        /\ \A i \in 1..Len(z) : s[Len(h) + i] = z[i]
    <3>1. h \in Seq(S) /\ z \in Seq(S)
      BY <1>8
    <3> QED BY <2>1, <3>1
  <2> QED BY <1>8, <2>2
<1>10. Guarded(s)
  <2> SUFFICES ASSUME NEW j \in 1..Len(s), s[j].do = "post", s[j].what = "handles"
               PROVE  /\ j + 3 <= Len(s)
                      /\ s[j + 1] = [do |-> "drain"] /\ s[j + 2] = ZeroPost(s[j].pg)
                      /\ s[j + 3] = [do |-> "drain"]
    BY DEF Guarded
  <2>1. j \in {1, 2, 3, 4}
    BY <1>9
  <2>2. j = 1
    BY <1>7, <1>9, <2>1
  <2> QED BY <1>7, <1>9, <2>2 DEF zero, drain
<1>11. s \in Plans(r, c)
  BY <1>9, <1>10 DEF Plans, S
<1> QED BY <1>4, <1>11, PlanNil

LEMMA IpcRecvPlan ==
  ASSUME NEW r, NEW c, NEW q, Receives(r, c, q), NEW slots \in Seq(Nat)
  PROVE  IpcRecv(Pair(r, q), r, slots) \in Plans(r, c)
<1>1. Take(RecvPg(Pair(r, q), r, 0), "handles", slots, TRUE) \in Plans(r, c)
  BY WordTake DEF Words
<1>2. <<>> \in Seq(Nat)
  OBVIOUS
<1>3. Take(RecvPg(Pair(r, q), r, 0), "zero", <<>>, FALSE) \in Plans(r, c)
  BY <1>2, WordTake DEF Words
<1> QED BY <1>1, <1>3, PlanNil, PlanCat DEF IpcRecv

LEMMA UnsureSendPlan ==
  ASSUME NEW r, NEW c, NEW q, Sends(r, c, q), IsSource(r, CallsOf(r)[c]),
         CallsOf(r)[c].op # "broadcast" => Relation(r, q) = "unsure"
  PROVE  UnsureSend(Pair(r, q), r) \in Plans(r, c)
<1>1. Receives(r, c, q)
  BY DEF Sends, Receives, Posting, Taking, InScene
<1>2. <<>> \in Seq(Nat) /\ CallsOf(r)[c].op # "recv_tensor"
  BY DEF IsSource
<1>3. Put(SendPg(Pair(r, q), r, 0), "devices", <<>>) \in Plans(r, c)
  BY <1>2, WordPut DEF Words
<1>4. Take(RecvPg(Pair(r, q), r, 0), "device", <<>>, FALSE) \in Plans(r, c)
  BY <1>1, <1>2, WordTake DEF Words
<1> QED BY <1>3, <1>4, PlanCat DEF UnsureSend

LEMMA UnsureRecvPlan ==
  ASSUME NEW r, NEW c, NEW q, Receives(r, c, q), ~IsSource(r, CallsOf(r)[c]),
         CallsOf(r)[c].op # "broadcast" => Relation(r, q) = "unsure",
         CallsOf(r)[c].op = "recv_tensor" => CallsOf(r)[c].tensors[1] # 0
  PROVE  UnsureRecv(Pair(r, q), r) \in Plans(r, c)
<1>1. <<>> \in Seq(Nat)
  OBVIOUS
<1> QED BY <1>1, WordTake DEF Words, UnsureRecv

\* The devices of a caller's own tensors.
LEMMA OwnDevice ==
  ASSUME NEW r, NEW c, InScene(r, c),
         IsSource(r, CallsOf(r)[c]) \/ CallsOf(r)[c].op = "recv_tensor",
         NEW k \in 1..Len(CallsOf(r)[c].tensors)
  PROVE  /\ DeviceOf(r, c, <<k>>) = CallsOf(r)[c].tensors[k]
         /\ CallsOf(r)[c].tensors[k] # 0 => CallsOf(r)[c].tensors[k] \in scene.accels[r]
<1>1. CallsOf(r)[c].tensors[k] \in scene.accels[r] \union {0}
  BY CallFacts
<1> QED BY <1>1 DEF DeviceOf

LEMMA GoCpu ==
  ASSUME NEW r, NEW c, NEW q, NEW ts, NEW K \in SUBSET Nat, \A k \in K : ts[k] = 0
  PROVE  MayGo(r, c, q, ts, K)
BY DEF MayGo

\* A caller's tensors to a worker apart, and those it knows not to be on the
\* receiver's device.
LEMMA GoOwn ==
  ASSUME NEW r, NEW c, NEW q, Sends(r, c, q), IsSource(r, CallsOf(r)[c]),
         NEW K \in SUBSET (1..Len(CallsOf(r)[c].tensors)),
         \A k \in K : Placed => Relation(r, q) = "apart" \/ CallsOf(r)[c].tensors[k] # scene.current[q]
  PROVE  MayGo(r, c, q, CallsOf(r)[c].tensors, K)
<1> DEFINE ts == CallsOf(r)[c].tensors
<1>1. InScene(r, c) /\ r \in Workers /\ q \in Workers
  BY DEF Sends, InScene
<1>2. Len(ts) \in Nat
  BY <1>1, CallFacts
<1> SUFFICES ASSUME NEW k \in K, ts[k] # 0, Placed, scene.accels[q] # {}
             PROVE  DeviceOf(r, c, <<k>>) \in scene.accels[r] /\ DeviceOf(r, c, <<k>>) # scene.current[q]
  <2>1. \A k \in K : k \in Nat
    BY <1>2
  <2> QED BY <2>1 DEF MayGo
<1>3. DeviceOf(r, c, <<k>>) = ts[k] /\ ts[k] \in scene.accels[r]
  BY <1>1, OwnDevice
<1>4. scene.current[q] \in scene.accels[q]
  BY <1>1 DEF Placed
<1>5. Relation(r, q) = "apart" => ts[k] # scene.current[q]
  BY <1>3, <1>4 DEF Relation
<1> QED BY <1>3, <1>5

\* Whoever receives copies of another's tensors puts them where it works.
LEMMA ComeOther ==
  ASSUME NEW r, NEW c, NEW q, Receives(r, c, q), ~IsSource(r, CallsOf(r)[c]),
         CallsOf(r)[c].op # "recv_tensor", NEW ts, NEW K \in SUBSET Nat
  PROVE  MayCome(r, c, q, ts, K)
<1>1. r \in Workers
  BY DEF Receives, InScene
<1>2. \A k : DeviceOf(r, c, <<k>>) = scene.current[r]
  BY DEF DeviceOf
<1>3. Placed /\ scene.accels[r] # {} => scene.current[r] \in scene.accels[r]
  BY <1>1 DEF Placed
<1> QED BY <1>2, <1>3 DEF MayCome

LEMMA ComeOwn ==
  ASSUME NEW r, NEW c, NEW q, Receives(r, c, q), CallsOf(r)[c].op = "recv_tensor"
  PROVE  MayCome(r, c, q, CallsOf(r)[c].tensors, {1})
<1> DEFINE ts == CallsOf(r)[c].tensors
<1>1. InScene(r, c) /\ r \in Workers /\ c \in 1..Len(CallsOf(r)) /\ CallsOf(r)[c].peer = q
  BY DEF Receives, InScene, Taking
<1>2. Len(ts) = 1
  BY <1>1, CallFacts
<1> SUFFICES ASSUME ts[1] # 0, Placed
             PROVE  /\ DeviceOf(r, c, <<1>>) \in scene.accels[r]
                    /\ DeviceOf(r, c, <<1>>) = scene.current[r] \/ Relation(r, q) = "apart"
  BY DEF MayCome
<1>3. DeviceOf(r, c, <<1>>) = ts[1] /\ ts[1] \in scene.accels[r]
  BY <1>1, <1>2, OwnDevice
<1>4. Relation(r, q) # "apart" => ts[1] \in {0, scene.current[r]}
  BY <1>1 DEF Placed
<1> QED BY <1>3, <1>4

LEMMA SendKnowingPlan ==
  ASSUME NEW r, NEW c, NEW q, Sends(r, c, q), IsSource(r, CallsOf(r)[c]),
         NEW d, Placed => d = scene.current[q]
  PROVE  SendKnowing(Pair(r, q), r, CallsOf(r)[c].tensors, d) \in Plans(r, c)
<1> DEFINE ts == CallsOf(r)[c].tensors
           K == {k \in 1..Len(ts) : ts[k] # 0 /\ ts[k] # d}
           J == {k \in 1..Len(ts) : ts[k] # 0 /\ ts[k] = d}
<1>1. ts \in Seq(Nat)
  BY CallFacts DEF Sends
<1>2. On(ts, d) \in Seq(J) /\ NotOn(ts, d) \in Seq(K)
  BY <1>1, DeviceSlotTypes
<1>3. J \subseteq Nat /\ K \subseteq 1..Len(ts)
  BY <1>1
<1>4. MayGo(r, c, q, ts, K)
  BY <1>3, GoOwn
<1> HIDE DEF ts, K, J
<1>5. On(ts, d) \in Seq(Nat)
  BY <1>2, <1>3, SeqSubset
<1>6. IpcSend(Pair(r, q), r, On(ts, d)) \in Plans(r, c)
  BY <1>5, IpcSendPlan
<1>7. PutEach(Pair(r, q), r, ts, NotOn(ts, d)) \in Plans(r, c)
  BY <1>2, <1>4, PutEachPlan
<1>8. SendKnowing(Pair(r, q), r, ts, d) \in Plans(r, c)
  BY <1>6, <1>7, PlanCat DEF SendKnowing
<1> QED BY <1>8 DEF ts

LEMMA RecvKnowingPlan ==
  ASSUME NEW r, NEW c, NEW q, Receives(r, c, q), Posting(r, c, q), ~IsSource(r, CallsOf(r)[c]),
         CallsOf(r)[c].op # "recv_tensor", NEW ts \in Seq(Nat)
  PROVE  RecvKnowing(Pair(r, q), r, ts) \in Plans(r, c)
<1> DEFINE d == scene.current[r]
           K == {k \in 1..Len(ts) : ts[k] # 0 /\ ts[k] # d}
           J == {k \in 1..Len(ts) : ts[k] # 0 /\ ts[k] = d}
<1>2. On(ts, d) \in Seq(J) /\ NotOn(ts, d) \in Seq(K)
  BY DeviceSlotTypes
<1>3. J \subseteq Nat /\ K \subseteq Nat
  OBVIOUS
<1>4. Sends(r, c, q) /\ <<>> \in Seq(Nat)
  BY DEF Sends, Receives
<1> HIDE DEF K, J, d
<1>5. On(ts, d) \in Seq(Nat)
  BY <1>2, <1>3, SeqSubset
<1>6. IpcRecv(Pair(r, q), r, On(ts, d)) \in Plans(r, c)
  BY <1>5, IpcRecvPlan
<1>7. MayCome(r, c, q, ts, K)
  BY <1>3, ComeOther
<1>8. TakeEach(Pair(r, q), r, ts, NotOn(ts, d)) \in Plans(r, c)
  BY <1>2, <1>7, TakeEachPlan
<1>9. Put(SendPg(Pair(r, q), r, 0), "device", <<>>) \in Plans(r, c)
  BY <1>4, WordPut DEF Words
<1> QED BY <1>6, <1>8, <1>9, PlanCat DEF RecvKnowing, d

LEMMA SendTensorKnowingPlan ==
  ASSUME NEW r, NEW c, NEW q, Sends(r, c, q), CallsOf(r)[c].op = "send_tensor",
         NEW d, Placed => d = scene.current[q]
  PROVE  SendTensorKnowing(Pair(r, q), r, CallsOf(r)[c].tensors, d) \in Plans(r, c)
<1> DEFINE ts == CallsOf(r)[c].tensors
<1>1. InScene(r, c) /\ IsSource(r, CallsOf(r)[c]) /\ Len(ts) = 1
  BY CallFacts DEF Sends, IsSource
<1>2. <<1>> \in Seq(Nat) /\ <<>> \in Seq(Nat) /\ <<1>> \in Seq({1})
  OBVIOUS
<1>3. CASE ts[1] = d
  <2>1. Put(SendPg(Pair(r, q), r, 0), "object", <<1>>) \in Plans(r, c)
    BY <1>2, WordPut DEF Words
  <2>2. Put(SendPg(Pair(r, q), r, 0), "zero", <<>>) \in Plans(r, c)
    BY <1>2, WordPut DEF Words
  <2> QED BY <1>3, <2>1, <2>2, PlanCat DEF SendTensorKnowing
<1>4. CASE ts[1] # d
  <2>1. MayGo(r, c, q, ts, {1})
    <3>1. {1} \in SUBSET (1..Len(CallsOf(r)[c].tensors))
      BY <1>1
    <3>2. \A k \in {1} : Placed => Relation(r, q) = "apart" \/ CallsOf(r)[c].tensors[k] # scene.current[q]
      BY <1>4
    <3> QED BY <1>1, <3>1, <3>2, GoOwn
  <2>2. PutEach(Pair(r, q), r, ts, <<1>>) \in Plans(r, c)
    BY <1>2, <2>1, PutEachPlan
  <2> QED BY <1>4, <2>2 DEF SendTensorKnowing
<1> QED BY <1>3, <1>4

LEMMA RecvTensorKnowingPlan ==
  ASSUME NEW r, NEW c, NEW q, Receives(r, c, q), Posting(r, c, q), CallsOf(r)[c].op = "recv_tensor",
         CallsOf(r)[c].tensors[1] # 0, NEW d
  PROVE  RecvTensorKnowing(Pair(r, q), r, CallsOf(r)[c].tensors, d) \in Plans(r, c)
<1> DEFINE ts == CallsOf(r)[c].tensors
<1>1. Sends(r, c, q) /\ ~IsSource(r, CallsOf(r)[c])
  BY DEF Sends, Receives, IsSource
<1>2. <<1>> \in Seq(Nat) /\ <<>> \in Seq(Nat) /\ <<1>> \in Seq({1})
  OBVIOUS
<1>3. Put(SendPg(Pair(r, q), r, 0), "device", <<>>) \in Plans(r, c)
  BY <1>1, <1>2, WordPut DEF Words
<1>4. /\ Take(RecvPg(Pair(r, q), r, 0), "handle", <<1>>, TRUE) \in Plans(r, c)
      /\ Take(RecvPg(Pair(r, q), r, 0), "zero", <<>>, FALSE) \in Plans(r, c)
  BY <1>1, <1>2, WordTake DEF Words
<1>5. MayCome(r, c, q, ts, {1})
  BY ComeOwn
<1>6. TakeEach(Pair(r, q), r, ts, <<1>>) \in Plans(r, c)
  BY <1>2, <1>5, TakeEachPlan
<1> QED BY <1>3, <1>4, <1>6, PlanCat DEF RecvTensorKnowing

-----------------------------------------------------------------------------
(* send, recv, send_tensor and recv_tensor                                  *)

LEMMA SendListPlan ==
  ASSUME NEW r, NEW c, NEW q, Sends(r, c, q), CallsOf(r)[c].op = "send"
  PROVE  SendList(Pair(r, q), r, CallsOf(r)[c].tensors, Relation(r, q)) \in Plans(r, c)
<1> DEFINE ts == CallsOf(r)[c].tensors
           g == Pair(r, q)
           cpu == CpuSlots(ts)
           accel == AccelSlots(ts)
           C == {k \in 1..Len(ts) : ts[k] = 0}
           A == {k \in 1..Len(ts) : ts[k] # 0}
<1>1. IsSource(r, CallsOf(r)[c]) /\ ts \in Seq(Nat)
  BY CallFacts DEF IsSource, Sends
<1>2. cpu \in Seq(C) /\ accel \in Seq(A)
  BY <1>1, SlotTypes
<1>3. C \subseteq Nat /\ A \subseteq Nat /\ A \subseteq 1..Len(ts) /\ \A k \in C : ts[k] = 0
  BY <1>1
<1>4. /\ MayGo(r, c, q, ts, C)
      /\ Relation(r, q) = "apart" => MayGo(r, c, q, ts, A)
  BY <1>1, <1>3, GoCpu, GoOwn
<1> HIDE DEF ts, g, cpu, accel, C, A
<1>5. Put(SendPg(g, r, 0), "meta", <<>>) \in Plans(r, c)
  <2>1. <<>> \in Seq(Nat)
    OBVIOUS
  <2> QED BY <2>1, WordPut DEF Words, g
<1>6. PutEach(g, r, ts, cpu) \in Plans(r, c)
  BY <1>2, <1>4, PutEachPlan DEF g
<1>7. Relation(r, q) = "apart" => PutEach(g, r, ts, accel) \in Plans(r, c)
  BY <1>2, <1>4, PutEachPlan DEF g
<1>8. accel \in Seq(Nat)
  BY <1>2, <1>3, SeqSubset
<1>9. IpcSend(g, r, accel) \in Plans(r, c)
  BY <1>8, IpcSendPlan DEF g
<1>10. Relation(r, q) = "unsure" => UnsureSend(g, r) \in Plans(r, c)
  BY <1>1, UnsureSendPlan DEF g
<1> DEFINE rest == IF accel = <<>> THEN <<>>
                   ELSE CASE Relation(r, q) = "apart"  -> PutEach(g, r, ts, accel)
                          [] Relation(r, q) = "same"   -> IpcSend(g, r, accel)
                          [] Relation(r, q) = "unsure" -> UnsureSend(g, r)
<1>11. rest \in Plans(r, c)
  <2>1. CASE accel = <<>>
    BY <2>1, PlanNil
  <2>2. CASE accel # <<>>
    BY <1>7, <1>9, <1>10, <2>2, RelationIs
  <2> QED BY <2>1, <2>2
<1>12. SendList(g, r, ts, Relation(r, q)) = Put(SendPg(g, r, 0), "meta", <<>>) \o PutEach(g, r, ts, cpu) \o rest
  BY DEF SendList, cpu, accel
<1> HIDE DEF rest
<1>13. SendList(g, r, ts, Relation(r, q)) \in Plans(r, c)
  BY <1>5, <1>6, <1>11, <1>12, PlanCat
<1> QED BY <1>13 DEF g, ts

LEMMA RecvListPlan ==
  ASSUME NEW r, NEW c, NEW q, Receives(r, c, q), CallsOf(r)[c].op = "recv", NEW ts \in Seq(Nat)
  PROVE  RecvList(Pair(r, q), r, ts, Relation(r, q)) \in Plans(r, c)
<1> DEFINE g == Pair(r, q)
           cpu == CpuSlots(ts)
           accel == AccelSlots(ts)
           C == {k \in 1..Len(ts) : ts[k] = 0}
           A == {k \in 1..Len(ts) : ts[k] # 0}
<1>1. ~IsSource(r, CallsOf(r)[c])
  BY DEF IsSource
<1>2. cpu \in Seq(C) /\ accel \in Seq(A)
  BY SlotTypes
<1>3. C \subseteq Nat /\ A \subseteq Nat
  OBVIOUS
<1> HIDE DEF g, cpu, accel, C, A
<1>4. MayCome(r, c, q, ts, C) /\ MayCome(r, c, q, ts, A)
  BY <1>1, <1>3, ComeOther
<1>6. TakeEach(g, r, ts, cpu) \in Plans(r, c)
  BY <1>2, <1>4, TakeEachPlan DEF g
<1>7. TakeEach(g, r, ts, accel) \in Plans(r, c)
  BY <1>2, <1>4, TakeEachPlan DEF g
<1>8. accel \in Seq(Nat)
  BY <1>2, <1>3, SeqSubset
<1>9. IpcRecv(g, r, accel) \in Plans(r, c)
  BY <1>8, IpcRecvPlan DEF g
<1>10. Relation(r, q) = "unsure" => UnsureRecv(g, r) \in Plans(r, c)
  BY <1>1, UnsureRecvPlan DEF g
<1> DEFINE rest == IF accel = <<>> THEN <<>>
                   ELSE CASE Relation(r, q) = "apart"  -> TakeEach(g, r, ts, accel)
                          [] Relation(r, q) = "same"   -> IpcRecv(g, r, accel)
                          [] Relation(r, q) = "unsure" -> UnsureRecv(g, r)
<1>11. rest \in Plans(r, c)
  <2>1. CASE accel = <<>>
    BY <2>1, PlanNil
  <2>2. CASE accel # <<>>
    BY <1>7, <1>9, <1>10, <2>2, RelationIs
  <2> QED BY <2>1, <2>2
<1>12. RecvList(g, r, ts, Relation(r, q)) = TakeEach(g, r, ts, cpu) \o rest
  BY DEF RecvList, cpu, accel
<1> HIDE DEF rest
<1>13. RecvList(g, r, ts, Relation(r, q)) \in Plans(r, c)
  BY <1>6, <1>11, <1>12, PlanCat
<1> QED BY <1>13 DEF g

LEMMA AtomicSendPlan ==
  ASSUME NEW r, NEW c, InScene(r, c), CallsOf(r)[c].op = "send"
  PROVE  AtomicSend(r, CallsOf(r)[c]) \in Plans(r, c)
<1> DEFINE call == CallsOf(r)[c]
           q == call.peer
           g == Pair(r, q)
           ts == call.tensors
           list == SendList(g, r, ts, Relation(r, q))
           P == Plans(r, c)
<1>1. call.kind \in {"list", "dict", "dataclass", "object"} /\ q \in Workers \ {r}
  BY CallFacts
<1>2. Sends(r, c, q)
  BY <1>1 DEF Sends, Posting, IsSource
<1>3. list \in P
  BY <1>2, SendListPlan
<1>4. g \in Seq(Workers)
  BY <1>1, PairFacts DEF InScene
<1>5. \A u, v \in P : u \o v \in P
  BY PlanCat
<1>6. Join(g) \in P
  BY <1>4, JoinPlan
<1>7. \A what \in {"type", "keys", "object"} : \A slots \in Seq(Nat) : Put(SendPg(g, r, 0), what, slots) \in P
  BY <1>2, WordPut DEF Words
<1>8. <<>> \in Seq(Nat) /\ <<0>> \in Seq(Nat)
  OBVIOUS
<1>9. Put(SendPg(g, r, 0), "type", <<>>) \in P /\ SendObject(g, r, "object") \in P /\ SendObject(g, r, "keys") \in P
  BY <1>7, <1>8 DEF SendObject
<1> HIDE DEF call, q, g, ts, list, P
<1>10. SendDict(g, r, ts, Relation(r, q)) \in P /\ SendDataclass(g, r, ts, Relation(r, q)) \in P
  BY <1>3, <1>5, <1>9 DEF SendDict, SendDataclass, list
<1> DEFINE rest == CASE call.kind = "list"      -> SendList(g, r, ts, Relation(r, q))
                     [] call.kind = "dict"      -> SendDict(g, r, ts, Relation(r, q))
                     [] call.kind = "dataclass" -> SendDataclass(g, r, ts, Relation(r, q))
                     [] call.kind = "object"    -> SendObject(g, r, "object")
<1>11. rest \in P
  BY <1>1, <1>3, <1>9, <1>10 DEF list
<1>12. AtomicSend(r, call) = Join(g) \o Put(SendPg(g, r, 0), "type", <<>>) \o rest
  BY DEF AtomicSend, g, q, ts
<1> HIDE DEF rest
<1>13. AtomicSend(r, call) \in P
  BY <1>5, <1>6, <1>9, <1>11, <1>12
<1> QED BY <1>13 DEF call, P

LEMMA AtomicRecvPlan ==
  ASSUME NEW r, NEW c, InScene(r, c), CallsOf(r)[c].op = "recv"
  PROVE  /\ AtomicRecv(r, CallsOf(r)[c]) \in Plans(r, c)
         /\ \A kind \in {"list", "dict", "dataclass", "object"} :
              RecvKind(r, CallsOf(r)[c], kind) \in Plans(r, c)
<1> DEFINE call == CallsOf(r)[c]
           q == call.peer
           g == Pair(r, q)
           P == Plans(r, c)
<1>1. q \in Workers \ {r} /\ ~IsSource(r, call)
  BY CallFacts DEF IsSource
<1>2. Receives(r, c, q)
  BY <1>1 DEF Receives, Taking
<1>4. g \in Seq(Workers)
  BY <1>1, PairFacts DEF InScene
<1>5. \A u, v \in P : u \o v \in P
  BY PlanCat
<1>6. Join(g) \in P
  BY <1>4, JoinPlan
<1>7. \A what \in {"type", "meta", "keys", "object"} : \A slots \in Seq(Nat) :
        Take(RecvPg(g, r, 0), what, slots, FALSE) \in P
  BY <1>1, <1>2, WordTake DEF Words
<1>8. <<>> \in Seq(Nat) /\ <<0>> \in Seq(Nat)
  OBVIOUS
<1>9. /\ Take(RecvPg(g, r, 0), "type", <<>>, FALSE) \in P /\ RecvMetadata(g, r) \in P
      /\ RecvObject(g, r, "object") \in P /\ RecvObject(g, r, "keys") \in P
  BY <1>7, <1>8 DEF RecvObject, RecvMetadata
<1>10. AtomicRecv(r, call) = Join(g) \o Take(RecvPg(g, r, 0), "type", <<>>, FALSE)
  BY DEF AtomicRecv
<1>12. \A kind : RecvKind(r, call, kind) =
         CASE kind = "list"      -> RecvMetadata(g, r)
           [] kind = "dict"      -> RecvDict(g, r)
           [] kind = "dataclass" -> RecvDataclass(g, r)
           [] kind = "object"    -> RecvObject(g, r, "object")
  BY DEF RecvKind
<1> HIDE DEF call, q, g, P
<1>11. RecvDict(g, r) \in P /\ RecvDataclass(g, r) \in P
  BY <1>5, <1>9 DEF RecvDict, RecvDataclass
<1>13. AtomicRecv(r, call) \in P
  BY <1>5, <1>6, <1>9, <1>10
<1>14. \A kind \in {"list", "dict", "dataclass", "object"} : RecvKind(r, call, kind) \in P
  BY <1>9, <1>11, <1>12
<1> QED BY <1>13, <1>14 DEF call, P

LEMMA AtomicSendTensorPlan ==
  ASSUME NEW r, NEW c, InScene(r, c), CallsOf(r)[c].op = "send_tensor"
  PROVE  AtomicSendTensor(r, CallsOf(r)[c]) \in Plans(r, c)
<1> DEFINE call == CallsOf(r)[c]
           q == call.peer
           g == Pair(r, q)
           ts == call.tensors
           P == Plans(r, c)
<1>1. q \in Workers \ {r} /\ Len(ts) = 1 /\ IsSource(r, call)
  BY CallFacts DEF IsSource
<1>2. Sends(r, c, q)
  BY <1>1 DEF Sends, Posting
<1>4. g \in Seq(Workers)
  BY <1>1, PairFacts DEF InScene
<1>5. Join(g) \in P
  BY <1>4, JoinPlan
<1>6. <<1>> \in Seq({1}) /\ <<1>> \in Seq(Nat) /\ {1} \in SUBSET (1..Len(ts)) /\ {1} \in SUBSET Nat
  BY <1>1
<1>7. ts[1] = 0 \/ Relation(r, q) = "apart" => MayGo(r, c, q, ts, {1})
  BY <1>1, <1>2, <1>6, GoCpu, GoOwn
<1>8. ts[1] = 0 \/ Relation(r, q) = "apart" => PutEach(g, r, ts, <<1>>) \in P
  BY <1>2, <1>6, <1>7, PutEachPlan
<1>9. IpcSend(g, r, <<1>>) \in P
  BY <1>2, <1>6, IpcSendPlan
<1>10. Relation(r, q) = "unsure" => UnsureSend(g, r) \in P
  BY <1>1, <1>2, UnsureSendPlan
<1> DEFINE rest == CASE ts[1] = 0 \/ Relation(r, q) = "apart" -> PutEach(g, r, ts, <<1>>)
                     [] ts[1] # 0 /\ Relation(r, q) = "same"   -> IpcSend(g, r, <<1>>)
                     [] ts[1] # 0 /\ Relation(r, q) = "unsure" -> UnsureSend(g, r)
<1>11. AtomicSendTensor(r, call) = Join(g) \o rest
  BY DEF AtomicSendTensor
<1>12. Relation(r, q) \in {"apart", "same", "unsure"}
  BY RelationIs
<1> HIDE DEF call, q, g, P, ts
<1>13. rest \in P
  BY <1>8, <1>9, <1>10, <1>12
<1> HIDE DEF rest
<1>14. AtomicSendTensor(r, call) \in P
  BY <1>5, <1>11, <1>13, PlanCat DEF P
<1> QED BY <1>14 DEF call, P

LEMMA AtomicRecvTensorPlan ==
  ASSUME NEW r, NEW c, InScene(r, c), CallsOf(r)[c].op = "recv_tensor"
  PROVE  AtomicRecvTensor(r, CallsOf(r)[c]) \in Plans(r, c)
<1> DEFINE call == CallsOf(r)[c]
           q == call.peer
           g == Pair(r, q)
           ts == call.tensors
           P == Plans(r, c)
<1>1. q \in Workers \ {r} /\ Len(ts) = 1 /\ ~IsSource(r, call)
  BY CallFacts DEF IsSource
<1>2. Receives(r, c, q)
  BY <1>1 DEF Receives, Taking
<1>4. g \in Seq(Workers)
  BY <1>1, PairFacts DEF InScene
<1>5. Join(g) \in P
  BY <1>4, JoinPlan
<1>6. <<1>> \in Seq({1}) /\ <<1>> \in Seq(Nat)
  OBVIOUS
<1>7. MayCome(r, c, q, ts, {1})
  BY <1>2, ComeOwn
<1>8. TakeEach(g, r, ts, <<1>>) \in P
  BY <1>2, <1>6, <1>7, TakeEachPlan
<1>9. IpcRecv(g, r, <<1>>) \in P
  BY <1>2, <1>6, IpcRecvPlan
<1>10. ts[1] # 0 /\ Relation(r, q) = "unsure" => UnsureRecv(g, r) \in P
  BY <1>1, <1>2, UnsureRecvPlan
<1> DEFINE rest == CASE ts[1] = 0 \/ Relation(r, q) = "apart" -> TakeEach(g, r, ts, <<1>>)
                     [] ts[1] # 0 /\ Relation(r, q) = "same"   -> IpcRecv(g, r, <<1>>)
                     [] ts[1] # 0 /\ Relation(r, q) = "unsure" -> UnsureRecv(g, r)
<1>11. AtomicRecvTensor(r, call) = Join(g) \o rest
  BY DEF AtomicRecvTensor
<1>12. Relation(r, q) \in {"apart", "same", "unsure"}
  BY RelationIs
<1> HIDE DEF call, q, g, P, ts
<1>13. rest \in P
  BY <1>8, <1>9, <1>10, <1>12
<1> HIDE DEF rest
<1>14. AtomicRecvTensor(r, call) \in P
  BY <1>5, <1>11, <1>13, PlanCat DEF P
<1> QED BY <1>14 DEF call, P

-----------------------------------------------------------------------------
(* The receivers of a broadcast                                             *)

Increasing(s) == \A i, j \in 1..Len(s) : i < j => s[i] < s[j]

\* k is what there is of S among the first n of s.
KeptOf(s, S, k, n) ==
  /\ k \in Seq(Nat) /\ Increasing(k)
  /\ \A x : (\E i \in 1..Len(k) : k[i] = x) <=> x \in S /\ \E i \in 1..n : s[i] = x

\* Keep keeps all of what is in the set, in the order of the sequence.
LEMMA KeepAll ==
  ASSUME NEW s \in Seq(Nat), Increasing(s), NEW S
  PROVE  KeptOf(s, S, Keep(s, S), Len(s))
<1>1. PICK f : KeptBy(f, s, S) /\ Keep(s, S) = f[Len(s)]
  BY KeptExists
<1> DEFINE T == {n \in Nat : n <= Len(s) => KeptOf(s, S, f[n], n)}
<1>2. Len(s) \in Nat
  OBVIOUS
<1>3. f[0] = <<>> /\ \A n \in 1..Len(s) : f[n] = IF s[n] \in S THEN Append(f[n - 1], s[n]) ELSE f[n - 1]
  <2>1. f[0] = <<>>
    BY <1>1, <1>2 DEF KeptBy
  <2>2. ASSUME NEW n \in 1..Len(s)
        PROVE  f[n] = IF s[n] \in S THEN Append(f[n - 1], s[n]) ELSE f[n - 1]
    <3>1. n \in 0..Len(s) /\ n # 0
      BY <1>2
    <3> QED BY <1>1, <3>1 DEF KeptBy
  <2> QED BY <2>1, <2>2
<1>4. 0 \in T
  <2>1. KeptOf(s, S, <<>>, 0)
    BY DEF Increasing, KeptOf
  <2> QED BY <1>3, <2>1
<1>5. ASSUME NEW n \in T \cap Nat PROVE n + 1 \in T
  <2> SUFFICES ASSUME n + 1 <= Len(s) PROVE KeptOf(s, S, f[n + 1], n + 1)
    OBVIOUS
  <2> DEFINE k == f[n]
             a == s[n + 1]
             w == Append(k, a)
  <2>0. n \in Nat /\ n <= Len(s) /\ n + 1 \in 1..Len(s) /\ KeptOf(s, S, k, n)
    BY <1>2
  <2>1. n + 1 \in 1..Len(s) /\ a \in Nat /\ n \in Nat
    BY <2>0
  <2>7. /\ k \in Seq(Nat) /\ Increasing(k)
        /\ \A x : (\E i \in 1..Len(k) : k[i] = x) <=> x \in S /\ \E i \in 1..n : s[i] = x
    BY <2>0 DEF KeptOf
  <2>2. f[n + 1] = IF a \in S THEN w ELSE k
    <3>1. (n + 1) - 1 = n
      BY <2>1
    <3> QED BY <1>3, <2>1, <3>1
  <2>3. \A x : (\E i \in 1..n + 1 : s[i] = x) <=> (x = a \/ \E i \in 1..n : s[i] = x)
    <3>1. 1..n + 1 = 1..n \union {n + 1}
      BY <2>1
    <3> QED BY <3>1
  <2>4. \A i \in 1..n : s[i] < a
    <3> SUFFICES ASSUME NEW i \in 1..n PROVE s[i] < s[n + 1]
      OBVIOUS
    <3>1. i \in 1..Len(s) /\ i < n + 1
      BY <1>2, <2>1
    <3> QED BY <2>1, <3>1 DEF Increasing
  <2> HIDE DEF a, k
  <2>5. CASE a \notin S
    <3> QED BY <2>2, <2>3, <2>5, <2>7 DEF KeptOf
  <2>6. CASE a \in S
    <3>1. k \in Seq(Nat) /\ Increasing(k)
      BY <2>7
    <3>2. /\ w \in Seq(Nat) /\ Len(k) \in Nat /\ Len(w) = Len(k) + 1 /\ w[Len(k) + 1] = a
          /\ \A i \in 1..Len(k) : w[i] = k[i]
      BY <2>1, <3>1
    <3> HIDE DEF w
    <3>3. \A i \in 1..Len(k) : k[i] \in Nat /\ k[i] < a
      <4> SUFFICES ASSUME NEW i \in 1..Len(k) PROVE k[i] \in Nat /\ k[i] < a
        OBVIOUS
      <4>1. \E j \in 1..n : s[j] = k[i]
        BY <2>7
      <4> QED BY <2>4, <3>1, <4>1
    <3>4. 1..Len(w) = 1..Len(k) \union {Len(k) + 1}
      BY <3>2
    <3>5. Increasing(w)
      <4> SUFFICES ASSUME NEW i \in 1..Len(w), NEW j \in 1..Len(w), i < j PROVE w[i] < w[j]
        BY DEF Increasing
      <4>1. i \in 1..Len(k)
        BY <3>2
      <4>2. CASE j \in 1..Len(k)
        BY <3>1, <3>2, <4>1, <4>2 DEF Increasing
      <4>3. CASE j = Len(k) + 1
        BY <3>2, <3>3, <4>1, <4>3
      <4> QED BY <3>4, <4>2, <4>3
    <3>6. \A x : (\E i \in 1..Len(w) : w[i] = x) <=> (x = a \/ \E i \in 1..Len(k) : k[i] = x)
      BY <3>2, <3>4
    <3>7. KeptOf(s, S, w, n + 1)
      BY <2>3, <2>6, <2>7, <3>2, <3>5, <3>6 DEF KeptOf
    <3> QED BY <2>2, <2>6, <3>7
  <2> QED BY <2>5, <2>6
<1>6. Nat \subseteq T
  <2> HIDE DEF T
  <2> QED BY <1>4, <1>5, Induction
<1>7. KeptOf(s, S, f[Len(s)], Len(s))
  BY <1>2, <1>6
<1> QED BY <1>1, <1>7

\* The same for sequences of workers.
LEMMA KeepWorkers ==
  ASSUME scene \in Scenes, NEW s \in Seq(Workers), Increasing(s), NEW S
  PROVE  /\ Keep(s, S) \in Seq(Workers) /\ Increasing(Keep(s, S))
         /\ Range(Keep(s, S)) = Range(s) \cap S
<1>1. Workers \subseteq Nat
  BY SceneFacts DEF Workers
<1>2. s \in Seq(Nat)
  BY <1>1, SeqSubset
<1>3. /\ Keep(s, S) \in Seq(Nat) /\ Increasing(Keep(s, S))
      /\ \A x : (\E i \in 1..Len(Keep(s, S)) : Keep(s, S)[i] = x)
                  <=> x \in S /\ \E i \in 1..Len(s) : s[i] = x
  <2>1. KeptOf(s, S, Keep(s, S), Len(s))
    BY <1>2, KeepAll
  <2> QED BY <2>1 DEF KeptOf
<1> DEFINE k == Keep(s, S)
           W == Workers
<1>4. \A i \in 1..Len(s) : s[i] \in W
  OBVIOUS
<1> HIDE DEF k, W
<1>5. k \in Seq(Nat) /\ \A i \in 1..Len(k) : k[i] \in W
  BY <1>3, <1>4 DEF k
<1>6. k \in Seq(W)
  BY <1>5
<1>7. DOMAIN k = 1..Len(k) /\ DOMAIN s = 1..Len(s)
  BY <1>2, <1>3 DEF k
<1>8. Range(k) = {k[i] : i \in 1..Len(k)} /\ Range(s) = {s[i] : i \in 1..Len(s)}
  BY <1>7 DEF Range
<1>9. Range(k) = Range(s) \cap S
  BY <1>3, <1>8 DEF k
<1> QED BY <1>3, <1>6, <1>9 DEF k, W

LEMMA WorldFacts ==
  ASSUME scene \in Scenes
  PROVE  World \in Seq(Workers) /\ Increasing(World) /\ Range(World) = Workers
<1>1. scene.n \in Nat /\ Workers = 1..scene.n
  BY SceneFacts DEF Workers
<1>2. World \in Seq(Workers) /\ Len(World) = scene.n /\ DOMAIN World = 1..scene.n
      /\ \A i \in 1..scene.n : World[i] = i
  BY <1>1 DEF World
<1> QED BY <1>1, <1>2 DEF Increasing, Range

LEMMA ReceiverFacts ==
  ASSUME scene \in Scenes, NEW src \in Workers
  PROVE  /\ Receivers(src) \in Seq(Workers) /\ Increasing(Receivers(src))
         /\ Range(Receivers(src)) = Workers \ {src}
BY WorldFacts, KeepWorkers DEF Receivers

LEMMA ClassifiedFacts ==
  ASSUME scene \in Scenes, NEW src \in Workers, NEW relation
  PROVE  /\ Classified(src, relation) \in Seq(Workers) /\ Increasing(Classified(src, relation))
         /\ Range(Classified(src, relation)) = {q \in Workers \ {src} : Relation(src, q) = relation}
<1>1. /\ Classified(src, relation) \in Seq(Workers) /\ Increasing(Classified(src, relation))
      /\ Range(Classified(src, relation)) = Range(Receivers(src)) \cap {q \in Workers : Relation(src, q) = relation}
  BY ReceiverFacts, KeepWorkers DEF Classified
<1> QED BY <1>1, ReceiverFacts

\* The first of an increasing sequence is not among the others.
LEMMA FirstAndOthers ==
  ASSUME scene \in Scenes, NEW s \in Seq(Workers), Increasing(s), s # <<>>
  PROVE  /\ s[1] \in Range(s) /\ Tail(s) \in Seq(Range(s) \ {s[1]})
<1>1. Workers \subseteq Nat
  BY SceneFacts DEF Workers
<1>2. Len(s) \in Nat \ {0} /\ DOMAIN s = 1..Len(s) /\ \A i \in 1..Len(s) : s[i] \in Nat
  <2>1. Len(s) \in Nat /\ DOMAIN s = 1..Len(s) /\ Len(s) # 0
    OBVIOUS
  <2>2. \A i \in 1..Len(s) : s[i] \in Workers
    OBVIOUS
  <2> QED BY <1>1, <2>1, <2>2
<1>3. /\ Tail(s) \in Seq(Workers) /\ Len(Tail(s)) = Len(s) - 1
      /\ \A i \in 1..Len(s) - 1 : Tail(s)[i] = s[i + 1]
  OBVIOUS
<1>4. \A i \in 1..Len(s) - 1 : s[i + 1] \in Range(s) \ {s[1]}
  <2> SUFFICES ASSUME NEW i \in 1..Len(s) - 1 PROVE s[i + 1] \in Range(s) \ {s[1]}
    OBVIOUS
  <2>1. i + 1 \in 1..Len(s) /\ 1 \in 1..Len(s) /\ 1 < i + 1
    BY <1>2
  <2>2. s[1] < s[i + 1] /\ s[1] \in Nat /\ s[i + 1] \in Nat
    BY <1>2, <2>1 DEF Increasing
  <2>3. s[i + 1] \in Range(s)
    BY <1>2, <2>1 DEF Range
  <2> QED BY <2>2, <2>3
<1> DEFINE w == Tail(s)
           R == Range(s) \ {s[1]}
<1>5. w \in Seq(Workers) /\ Len(w) = Len(s) - 1 /\ \A i \in 1..Len(w) : w[i] \in R
  BY <1>2, <1>3, <1>4
<1> HIDE DEF w, R
<1>6. w \in Seq(R)
  BY <1>5
<1> QED BY <1>2, <1>6 DEF w, R, Range

\* The parts of GroupRanksByDevice.
OfDevice(ranks, q) == Keep(ranks, {x \in Range(ranks) : OneDevice(x) /\ scene.accels[x] = scene.accels[q]})
HeadsOf(ranks) == Keep(ranks, {q \in Range(ranks) : OneDevice(q) /\ OfDevice(ranks, q)[1] = q})
RestOf(ranks) == Keep(ranks, {q \in Range(ranks) : ~OneDevice(q)})

LEMMA GroupParts ==
  ASSUME NEW ranks
  PROVE  GroupRanksByDevice(ranks) = [i \in 1..Len(HeadsOf(ranks)) |-> OfDevice(ranks, HeadsOf(ranks)[i])]
                                     \o [i \in 1..Len(RestOf(ranks)) |-> <<RestOf(ranks)[i]>>]
BY DEF GroupRanksByDevice, OfDevice, HeadsOf, RestOf

\* s is a group of ranks.
IsGroup(ranks, s) == \/ \E q \in Range(HeadsOf(ranks)) : s = OfDevice(ranks, q)
                     \/ \E q \in Range(RestOf(ranks)) : s = <<q>>

LEMMA SeqRange ==
  ASSUME NEW S, NEW s \in Seq(S)
  PROVE  Range(s) = {s[i] : i \in 1..Len(s)} /\ Range(s) \subseteq S /\ Len(s) \in Nat
<1>1. DOMAIN s = 1..Len(s) /\ Len(s) \in Nat /\ \A i \in 1..Len(s) : s[i] \in S
  OBVIOUS
<1> QED BY <1>1 DEF Range

LEMMA GroupMembers ==
  ASSUME scene \in Scenes, NEW ranks \in Seq(Workers), Increasing(ranks)
  PROVE  LET G == GroupRanksByDevice(ranks)
         IN  /\ Len(G) \in Nat /\ DOMAIN G = 1..Len(G) /\ \A i \in 1..Len(G) : IsGroup(ranks, G[i])
             /\ \A s : IsGroup(ranks, s) => \E i \in 1..Len(G) : G[i] = s
<1> DEFINE heads == HeadsOf(ranks)
           rest == RestOf(ranks)
           H == {s : s \in {OfDevice(ranks, q) : q \in Range(heads)}}
           R == {<<q>> : q \in Range(rest)}
           a == [i \in 1..Len(heads) |-> OfDevice(ranks, heads[i])]
           b == [i \in 1..Len(rest) |-> <<rest[i]>>]
           S == H \union R
           G == a \o b
<1>1. heads \in Seq(Workers) /\ rest \in Seq(Workers)
  BY KeepWorkers DEF HeadsOf, RestOf
<1> HIDE DEF heads, rest
<1>2. /\ Len(heads) \in Nat /\ Len(rest) \in Nat
      /\ Range(heads) = {heads[i] : i \in 1..Len(heads)} /\ Range(rest) = {rest[i] : i \in 1..Len(rest)}
  BY <1>1, SeqRange
<1>3. a \in Seq(H) /\ Len(a) = Len(heads) /\ \A i \in 1..Len(heads) : a[i] = OfDevice(ranks, heads[i])
  BY <1>2
<1>4. b \in Seq(R) /\ Len(b) = Len(rest) /\ \A i \in 1..Len(rest) : b[i] = <<rest[i]>>
  BY <1>2
<1>5. /\ \A i \in 1..Len(heads) : IsGroup(ranks, OfDevice(ranks, heads[i]))
      /\ \A i \in 1..Len(rest) : IsGroup(ranks, <<rest[i]>>)
  <2>1. /\ \A i \in 1..Len(heads) : heads[i] \in Range(heads)
        /\ \A i \in 1..Len(rest) : rest[i] \in Range(rest)
    BY <1>2
  <2> QED BY <2>1 DEF IsGroup, heads, rest
<1> HIDE DEF H, R
<1>6. a \in Seq(S) /\ b \in Seq(S)
  BY <1>3, <1>4, SeqSubset
<1> HIDE DEF a, b, S
<1>7. /\ G \in Seq(S) /\ Len(G) = Len(a) + Len(b)
      /\ \A i \in 1..Len(a) : G[i] = a[i]
      /\ \A i \in 1..Len(b) : G[Len(a) + i] = b[i]
  BY <1>6
<1>8. GroupRanksByDevice(ranks) = G
  BY GroupParts DEF G, a, b, heads, rest
<1> HIDE DEF G
<1>9. Len(G) \in Nat /\ DOMAIN G = 1..Len(G)
  BY <1>7
<1>10. ASSUME NEW i \in 1..Len(G) PROVE IsGroup(ranks, G[i])
  <2>1. CASE i <= Len(a)
    <3>1. i \in 1..Len(heads) /\ G[i] = OfDevice(ranks, heads[i])
      BY <1>2, <1>3, <1>7, <2>1
    <3> QED BY <1>5, <3>1
  <2>2. CASE i > Len(a)
    <3> DEFINE j == i - Len(a)
    <3>1. j \in 1..Len(b) /\ i = Len(a) + j
      BY <1>2, <1>3, <1>4, <1>7, <2>2
    <3> HIDE DEF j
    <3>2. j \in 1..Len(rest) /\ G[i] = <<rest[j]>>
      BY <1>4, <1>7, <3>1
    <3> QED BY <1>5, <3>2
  <2> QED BY <1>2, <1>3, <2>1, <2>2
<1>11. ASSUME NEW s, IsGroup(ranks, s) PROVE \E i \in 1..Len(G) : G[i] = s
  <2>1. CASE \E q \in Range(heads) : s = OfDevice(ranks, q)
    <3>1. PICK i \in 1..Len(heads) : s = OfDevice(ranks, heads[i])
      BY <1>2, <2>1
    <3>2. i \in 1..Len(G) /\ i \in 1..Len(a)
      BY <1>2, <1>3, <1>4, <1>7
    <3> QED BY <1>3, <1>7, <3>1, <3>2
  <2>2. CASE \E q \in Range(rest) : s = <<q>>
    <3>1. PICK i \in 1..Len(rest) : s = <<rest[i]>>
      BY <1>2, <2>2
    <3>2. i \in 1..Len(b) /\ Len(a) + i \in 1..Len(G)
      BY <1>2, <1>3, <1>4, <1>7
    <3>3. G[Len(a) + i] = b[i] /\ b[i] = <<rest[i]>>
      BY <1>4, <1>7, <3>2
    <3> QED BY <3>1, <3>2, <3>3
  <2> QED BY <1>11, <2>1, <2>2 DEF IsGroup, heads, rest
<1> QED BY <1>8, <1>9, <1>10, <1>11

LEMMA OfDeviceFacts ==
  ASSUME scene \in Scenes, NEW ranks \in Seq(Workers), Increasing(ranks), NEW q \in Range(ranks), OneDevice(q)
  PROVE  LET s == OfDevice(ranks, q)
         IN  /\ s \in Seq(Workers) /\ Increasing(s) /\ s # <<>>
             /\ Range(s) = {x \in Range(ranks) : OneDevice(x) /\ scene.accels[x] = scene.accels[q]}
             /\ q \in Range(s)
             /\ s[1] \in Range(s) /\ s[1] \in Range(HeadsOf(ranks)) /\ OfDevice(ranks, s[1]) = s
<1> DEFINE s == OfDevice(ranks, q)
           S(p) == {x \in Range(ranks) : OneDevice(x) /\ scene.accels[x] = scene.accels[p]}
           h == s[1]
<1>1. s \in Seq(Workers) /\ Increasing(s) /\ Range(s) = S(q)
  <2>1. Range(s) = Range(ranks) \cap S(q)
    BY KeepWorkers DEF OfDevice
  <2>2. s \in Seq(Workers) /\ Increasing(s)
    BY KeepWorkers DEF OfDevice
  <2> QED BY <2>1, <2>2
<1>2. q \in Range(s)
  BY <1>1
<1>3. s # <<>>
  <2> SUFFICES ASSUME s = <<>> PROVE FALSE
    OBVIOUS
  <2>1. Range(s) = {s[i] : i \in 1..Len(s)} /\ Len(s) = 0
    BY <1>1, SeqRange
  <2> HIDE DEF s
  <2> QED BY <1>2, <2>1
<1>4. h \in Range(s)
  BY <1>1, <1>3, FirstAndOthers
<1> HIDE DEF h
<1>5. h \in Range(ranks) /\ OneDevice(h) /\ scene.accels[h] = scene.accels[q]
  BY <1>1, <1>4
<1>6. S(h) = S(q)
  BY <1>5
<1>7. OfDevice(ranks, h) = s
  BY <1>6 DEF OfDevice
<1>8. OfDevice(ranks, h)[1] = h
  BY <1>7 DEF h
<1>9. Range(HeadsOf(ranks)) = Range(ranks) \cap {x \in Range(ranks) : OneDevice(x) /\ OfDevice(ranks, x)[1] = x}
  BY KeepWorkers DEF HeadsOf
<1>10. h \in Range(HeadsOf(ranks))
  BY <1>5, <1>8, <1>9
<1> QED BY <1>1, <1>2, <1>3, <1>4, <1>7, <1>10 DEF h

\* What the group of a worker is.
LEMMA GroupIs ==
  ASSUME scene \in Scenes, NEW ranks \in Seq(Workers), Increasing(ranks), NEW s, IsGroup(ranks, s)
  PROVE  /\ s \in Seq(Workers) /\ Increasing(s) /\ s # <<>> /\ Range(s) \subseteq Range(ranks)
         /\ s[1] \in Range(s)
         /\ \A r \in Range(s) : s = IF OneDevice(r) THEN OfDevice(ranks, r) ELSE <<r>>
         /\ OneDevice(s[1]) => OfDevice(ranks, s[1]) = s
<1>1. CASE \E q \in Range(HeadsOf(ranks)) : s = OfDevice(ranks, q)
  <2>1. PICK q \in Range(HeadsOf(ranks)) : s = OfDevice(ranks, q)
    BY <1>1
  <2>2. Range(HeadsOf(ranks)) = Range(ranks) \cap {x \in Range(ranks) : OneDevice(x) /\ OfDevice(ranks, x)[1] = x}
    BY KeepWorkers DEF HeadsOf
  <2>3. q \in Range(ranks) /\ OneDevice(q)
    BY <2>2
  <2>4. /\ s \in Seq(Workers) /\ Increasing(s) /\ s # <<>>
        /\ Range(s) = {x \in Range(ranks) : OneDevice(x) /\ scene.accels[x] = scene.accels[q]}
        /\ s[1] \in Range(s) /\ OfDevice(ranks, s[1]) = s
    BY <2>1, <2>3, OfDeviceFacts
  <2>5. ASSUME NEW r \in Range(s) PROVE OneDevice(r) /\ OfDevice(ranks, r) = s
    <3>1. r \in Range(ranks) /\ OneDevice(r) /\ scene.accels[r] = scene.accels[q]
      BY <2>4
    <3>2. OfDevice(ranks, r) = OfDevice(ranks, q)
      BY <3>1 DEF OfDevice
    <3> QED BY <2>1, <3>1, <3>2
  <2> QED BY <2>4, <2>5
<1>2. CASE \E q \in Range(RestOf(ranks)) : s = <<q>>
  <2>1. PICK q \in Range(RestOf(ranks)) : s = <<q>>
    BY <1>2
  <2>2. Range(RestOf(ranks)) = Range(ranks) \cap {x \in Range(ranks) : ~OneDevice(x)}
    BY KeepWorkers DEF RestOf
  <2>3. q \in Range(ranks) /\ ~OneDevice(q) /\ q \in Workers
    BY <2>2, SeqRange
  <2>4. s \in Seq(Workers) /\ s # <<>> /\ Len(s) = 1 /\ s[1] = q /\ DOMAIN s = {1}
    BY <2>1, <2>3
  <2>5. Range(s) = {q} /\ Increasing(s)
    BY <2>4 DEF Range, Increasing
  <2> QED BY <2>1, <2>3, <2>4, <2>5
<1> QED BY <1>1, <1>2 DEF IsGroup

LEMMA GroupOfEach ==
  ASSUME scene \in Scenes, NEW ranks \in Seq(Workers), Increasing(ranks), NEW r \in Range(ranks)
  PROVE  \E s : IsGroup(ranks, s) /\ r \in Range(s) /\ (OneDevice(r) => s = OfDevice(ranks, r))
<1>1. CASE OneDevice(r)
  <2> DEFINE s == OfDevice(ranks, r)
  <2>1. r \in Range(s) /\ s[1] \in Range(HeadsOf(ranks)) /\ OfDevice(ranks, s[1]) = s
    BY <1>1, OfDeviceFacts
  <2>2. IsGroup(ranks, s)
    BY <2>1 DEF IsGroup
  <2> QED BY <2>1, <2>2
<1>2. CASE ~OneDevice(r)
  <2>1. Range(RestOf(ranks)) = Range(ranks) \cap {x \in Range(ranks) : ~OneDevice(x)}
    BY KeepWorkers DEF RestOf
  <2>2. IsGroup(ranks, <<r>>)
    BY <1>2, <2>1 DEF IsGroup
  <2>3. r \in Range(<<r>>)
    <3>1. 1 \in DOMAIN <<r>> /\ <<r>>[1] = r
      OBVIOUS
    <3> QED BY <3>1 DEF Range
  <2> QED BY <1>2, <2>2, <2>3
<1> QED BY <1>1, <1>2

\* No two workers of the world are on one device, when Shared finds none.
LEMMA SpreadWorld ==
  ASSUME scene \in Scenes, NEW src \in Workers,
         Classified(src, "same") = <<>>, Classified(src, "unsure") = <<>>
  PROVE  /\ \A q \in Workers \ {src} : Relation(src, q) = "apart"
         /\ ~Shared(src) => \A q, p \in Workers \ {src} :
              q # p /\ OneDevice(q) /\ OneDevice(p) => scene.accels[q] # scene.accels[p]
         /\ ~Shared(src) => Spread(World, src)
<1> DEFINE ranks == Classified(src, "apart")
           G == GroupRanksByDevice(ranks)
<1>1. Range(<<>>) = {}
  BY DEF Range
<1>2. \A q \in Workers \ {src} : Relation(src, q) = "apart"
  <2>1. /\ Range(Classified(src, "same")) = {q \in Workers \ {src} : Relation(src, q) = "same"}
        /\ Range(Classified(src, "unsure")) = {q \in Workers \ {src} : Relation(src, q) = "unsure"}
    BY ClassifiedFacts
  <2> QED BY <1>1, <2>1, RelationIs
<1>3. ranks \in Seq(Workers) /\ Increasing(ranks) /\ Range(ranks) = Workers \ {src}
  <2>1. /\ ranks \in Seq(Workers) /\ Increasing(ranks)
        /\ Range(ranks) = {q \in Workers \ {src} : Relation(src, q) = "apart"}
    BY ClassifiedFacts
  <2> QED BY <1>2, <2>1
<1>4. Shared(src) <=> \E i \in 1..Len(G) : Len(G[i]) > 1
  BY DEF Shared, ApartGroups
<1> HIDE DEF ranks, G
<1>5. ASSUME NEW q \in Workers \ {src}, NEW p \in Workers \ {src}, q # p, OneDevice(q), OneDevice(p),
             scene.accels[q] = scene.accels[p]
      PROVE  Shared(src)
  <2> DEFINE s == OfDevice(ranks, q)
  <2>1. s \in Seq(Workers) /\ q \in Range(s) /\ p \in Range(s)
    BY <1>3, <1>5, OfDeviceFacts
  <2>2. PICK t : IsGroup(ranks, t) /\ t = s
    BY <1>3, <1>5, GroupOfEach
  <2>3. \E i \in 1..Len(G) : G[i] = s
    BY <1>3, <2>2, GroupMembers DEF G
  <2> HIDE DEF s
  <2>4. Range(s) = {s[i] : i \in 1..Len(s)} /\ Len(s) \in Nat
    BY <2>1, SeqRange
  <2>5. PICK i \in 1..Len(s), j \in 1..Len(s) : s[i] = q /\ s[j] = p
    BY <2>1, <2>4
  <2>6. Len(s) > 1
    BY <1>5, <2>4, <2>5
  <2> QED BY <1>4, <2>3, <2>6
<1>6. ~Shared(src) => \A q, p \in Workers \ {src} :
        q # p /\ OneDevice(q) /\ OneDevice(p) => scene.accels[q] # scene.accels[p]
  BY <1>5
<1>7. ~Shared(src) => Spread(World, src)
  BY <1>2, <1>6, WorldFacts DEF Spread
<1> QED BY <1>2, <1>6, <1>7

\* The heads of the groups.
HeadsIn(G) == [i \in 1..Len(G) |-> G[i][1]]

LEMMA HeadFacts ==
  ASSUME scene \in Scenes, NEW src \in Workers
  PROVE  LET G == ApartGroups(src)
             heads == HeadsIn(G)
         IN  /\ Len(heads) = Len(G) /\ Range(heads) = {G[i][1] : i \in 1..Len(G)}
             /\ Range(heads) \subseteq {q \in Workers \ {src} : Relation(src, q) = "apart"}
             /\ SubGroup(src, heads) \in Seq(Workers)
             /\ Range(SubGroup(src, heads)) = {src} \union Range(heads)
             /\ Spread(SubGroup(src, heads), src)
<1> DEFINE ranks == Classified(src, "apart")
           G == ApartGroups(src)
           heads == HeadsIn(G)
           g == SubGroup(src, heads)
<1>1. /\ ranks \in Seq(Workers) /\ Increasing(ranks)
      /\ Range(ranks) = {q \in Workers \ {src} : Relation(src, q) = "apart"}
  BY ClassifiedFacts
<1>2. G = GroupRanksByDevice(ranks)
  BY DEF ApartGroups
<1> HIDE DEF ranks, G
<1>3. Len(G) \in Nat /\ DOMAIN G = 1..Len(G) /\ \A i \in 1..Len(G) : IsGroup(ranks, G[i])
  BY <1>1, <1>2, GroupMembers
<1>4. Len(heads) = Len(G) /\ DOMAIN heads = 1..Len(G) /\ \A i \in 1..Len(G) : heads[i] = G[i][1]
  BY <1>3 DEF HeadsIn
<1> HIDE DEF heads
<1>5. Range(heads) = {G[i][1] : i \in 1..Len(G)}
  BY <1>4 DEF Range
<1>6. \A i \in 1..Len(G) : /\ G[i][1] \in Range(ranks)
                           /\ OneDevice(G[i][1]) => OfDevice(ranks, G[i][1]) = G[i]
  <2> SUFFICES ASSUME NEW i \in 1..Len(G)
               PROVE  G[i][1] \in Range(ranks) /\ (OneDevice(G[i][1]) => OfDevice(ranks, G[i][1]) = G[i])
    OBVIOUS
  <2> DEFINE s == G[i]
  <2>1. IsGroup(ranks, s)
    BY <1>3
  <2> HIDE DEF s
  <2>2. Range(s) \subseteq Range(ranks) /\ s[1] \in Range(s) /\ (OneDevice(s[1]) => OfDevice(ranks, s[1]) = s)
    BY <1>1, <2>1, GroupIs
  <2> QED BY <2>2 DEF s
<1>7. Range(heads) \subseteq Range(ranks)
  BY <1>5, <1>6
<1>8. g \in Seq(Workers) /\ Range(g) = Range(World) \cap ({src} \union Range(heads))
  BY WorldFacts, KeepWorkers DEF SubGroup
<1>9. Range(g) = {src} \union Range(heads)
  BY <1>1, <1>7, <1>8, WorldFacts
<1>10. ASSUME NEW q \in Range(g) \ {src}, NEW p \in Range(g) \ {src},
              q # p, OneDevice(q), OneDevice(p), scene.accels[q] = scene.accels[p]
       PROVE  FALSE
  <2>1. PICK i \in 1..Len(G), j \in 1..Len(G) : q = G[i][1] /\ p = G[j][1]
    BY <1>5, <1>9
  <2>2. OfDevice(ranks, q) = G[i] /\ OfDevice(ranks, p) = G[j]
    BY <1>6, <1>10, <2>1
  <2>3. OfDevice(ranks, q) = OfDevice(ranks, p)
    BY <1>10 DEF OfDevice
  <2> QED BY <1>10, <2>1, <2>2, <2>3
<1>11. Spread(g, src)
  <2>1. src \in Range(g) /\ \A q \in Range(g) \ {src} : Relation(src, q) = "apart"
    BY <1>1, <1>7, <1>9
  <2> QED BY <1>10, <2>1 DEF Spread
<1> QED BY <1>1, <1>4, <1>5, <1>7, <1>8, <1>9, <1>11 DEF heads, G

-----------------------------------------------------------------------------
(* What a call says to a group, and hears in it                             *)

\* Call c of r is its part of a broadcast from src.
Broadcasts(r, c, src) ==
  /\ InScene(r, c) /\ CallsOf(r)[c].op = "broadcast" /\ CallsOf(r)[c].peer = src
  /\ src \in Workers

LEMMA BroadcastLanes ==
  ASSUME NEW r, NEW c, NEW src, Broadcasts(r, c, src)
  PROVE  /\ \A q \in Workers \ {r} : Sends(r, c, q) /\ Receives(r, c, q)
         /\ IsSource(r, CallsOf(r)[c]) <=> r = src
         /\ scene \in Scenes /\ r \in Workers /\ Hears(r, src)
BY DEF Broadcasts, Sends, Receives, Posting, Taking, IsSource, InScene, Hears

LEMMA GroupPgs ==
  ASSUME scene \in Scenes, NEW g \in Seq(Workers), NEW t
  PROVE  /\ AllPg(g, t) \in Pgs /\ AllPg(g, t).lane = "collective" /\ AllPg(g, t).group = g
         /\ AllPg(g, 0).backend = "gloo"
         /\ \/ AllPg(g, t).backend = "gloo"
            \/ /\ AllPg(g, t).backend = "ccl" /\ t # 0
               /\ Placed => \A x \in Range(g) : scene.accels[x] # {}
<1>1. Range(g) \subseteq Workers
  BY SeqRange
<1>2. Backend(g, t) \in {"gloo", "ccl"} /\ Backend(g, 0) = "gloo"
  BY DEF Backend
<1>3. AllPg(g, t) \in Pgs /\ AllPg(g, t).lane = "collective" /\ AllPg(g, t).group = g
      /\ AllPg(g, t).backend = Backend(g, t) /\ AllPg(g, 0).backend = "gloo"
  BY <1>2 DEF AllPg, Pgs
<1>4. Backend(g, t) = "gloo" \/ (Backend(g, t) = "ccl" /\ t # 0 /\ ~NoCcl(g))
  BY DEF Backend
<1> QED BY <1>1, <1>3, <1>4, CclAccels

LEMMA SayWord ==
  ASSUME NEW r, NEW c, NEW src, Broadcasts(r, c, src), NEW g \in Seq(Workers),
         NEW what \in {"type", "meta", "keys", "fields", "object"}, NEW slots \in Seq(Nat)
  PROVE  Say(r, src, AllPg(g, 0), what, slots, FALSE) \in Plans(r, c)
<1> DEFINE pg == AllPg(g, 0)
<1>1. scene \in Scenes /\ (IsSource(r, CallsOf(r)[c]) <=> r = src) /\ CallsOf(r)[c].op = "broadcast"
  BY BroadcastLanes DEF Broadcasts
<1>2. pg \in Pgs /\ pg.lane = "collective" /\ pg.backend = "gloo"
  BY <1>1, GroupPgs
<1> HIDE DEF pg
<1>3. OnDevice(r, c, pg, slots) /\ what \in Words \ {"handles"}
  BY <1>2 DEF OnDevice, Words
<1>4. CASE r = src
  <2>1. MayPost(r, c, pg, what, slots)
    BY <1>1, <1>2, <1>3 DEF MayPost
  <2>2. Put(pg, what, slots) \in Plans(r, c)
    BY <1>2, <1>3, <2>1, PutPlan
  <2> QED BY <1>4, <2>2 DEF Say, pg
<1>5. CASE r # src
  <2>1. MayTake(r, c, pg, what, slots)
    BY <1>1, <1>2, <1>3, <1>5 DEF MayTake
  <2>2. Take(pg, what, slots, FALSE) \in Plans(r, c)
    BY <1>2, <1>3, <2>1, TakePlan
  <2> QED BY <1>5, <2>2 DEF Say, pg
<1> QED BY <1>4, <1>5

\* A tensor to everybody in g: on an accelerator, where the group is spread.
LEMMA SayTensor ==
  ASSUME NEW r, NEW c, NEW src, Broadcasts(r, c, src), NEW g \in Seq(Workers), r \in Range(g),
         NEW ts, r = src => ts = CallsOf(r)[c].tensors,
         NEW k \in Nat, r = src => k \in 1..Len(ts), ts[k] = 0 \/ Spread(g, src)
  PROVE  Say(r, src, AllPg(g, ts[k]), "tensor", <<k>>, ts[k] # 0) \in Plans(r, c)
<1> DEFINE pg == AllPg(g, ts[k])
           what == "tensor"
           d == DeviceOf(r, c, <<k>>)
           accel == ts[k] # 0
<1>1. /\ scene \in Scenes /\ (IsSource(r, CallsOf(r)[c]) <=> r = src) /\ CallsOf(r)[c].op = "broadcast"
      /\ r \in Workers /\ Hears(r, src) /\ src \in Workers /\ InScene(r, c)
  BY BroadcastLanes DEF Broadcasts
<1>2. pg \in Pgs /\ pg.lane = "collective" /\ pg.group = g
  BY <1>1, GroupPgs
<1>3. pg.backend = "gloo" \/ (ts[k] # 0 /\ (Placed => \A x \in Range(g) : scene.accels[x] # {}))
  BY <1>1, GroupPgs
<1> HIDE DEF pg, accel
<1>4. r = src /\ ts[k] # 0 => d \in scene.accels[r]
  <2> SUFFICES ASSUME r = src, ts[k] # 0 PROVE d \in scene.accels[r]
    OBVIOUS
  <2>1. k \in 1..Len(CallsOf(r)[c].tensors) /\ CallsOf(r)[c].tensors[k] # 0
    OBVIOUS
  <2>2. d = CallsOf(r)[c].tensors[k] /\ CallsOf(r)[c].tensors[k] \in scene.accels[r]
    BY <1>1, <2>1, OwnDevice
  <2> QED BY <2>2
<1>5. r # src => d = scene.current[r]
  BY <1>1 DEF DeviceOf
<1> HIDE DEF d
<1>6. OnDevice(r, c, pg, <<k>>)
  <2> SUFFICES ASSUME pg.backend = "ccl", Placed PROVE Fits(r, pg, d)
    BY DEF OnDevice, d
  <2>1. ts[k] # 0 /\ scene.accels[r] # {} /\ Spread(g, src)
    BY <1>3
  <2>2. d \in scene.accels[r]
    BY <1>1, <1>4, <1>5, <2>1 DEF Placed
  <2>3. FitsAll(r, g, d)
    BY <1>1, <1>5, <2>1 DEF FitsAll
  <2> QED BY <1>2, <2>2, <2>3 DEF Fits
<1>7. what \in Words \ {"handles"} /\ <<k>> \in Seq(Nat) /\ accel \in BOOLEAN
  BY DEF Words, accel
<1>8. CASE r = src
  <2>1. MayPost(r, c, pg, what, <<k>>)
    BY <1>1, <1>2, <1>6 DEF MayPost
  <2>2. Put(pg, what, <<k>>) \in Plans(r, c)
    BY <1>2, <1>7, <2>1, PutPlan
  <2> QED BY <1>8, <2>2 DEF Say, pg
<1>9. CASE r # src
  <2>1. MayTake(r, c, pg, what, <<k>>)
    BY <1>1, <1>2, <1>6 DEF MayTake
  <2>2. Take(pg, what, <<k>>, accel) \in Plans(r, c)
    BY <1>2, <1>7, <2>1, TakePlan
  <2> QED BY <1>9, <2>2 DEF Say, pg, accel
<1> QED BY <1>8, <1>9

LEMMA SayEachPlan ==
  ASSUME NEW r, NEW c, NEW src, Broadcasts(r, c, src), NEW g \in Seq(Workers), r \in Range(g),
         NEW ts, r = src => ts = CallsOf(r)[c].tensors,
         NEW K \in SUBSET Nat, r = src => K \subseteq 1..Len(ts),
         (\A k \in K : ts[k] = 0) \/ Spread(g, src), NEW slots \in Seq(K)
  PROVE  SayEach(r, src, g, ts, slots) \in Plans(r, c)
<1> DEFINE plan == [k \in K |-> Say(r, src, AllPg(g, ts[k]), "tensor", <<k>>, ts[k] # 0)]
           ss == [i \in 1..Len(slots) |-> plan[slots[i]]]
<1>1. \A k \in K : plan[k] \in Plans(r, c)
  <2> SUFFICES ASSUME NEW k \in K
               PROVE  Say(r, src, AllPg(g, ts[k]), "tensor", <<k>>, ts[k] # 0) \in Plans(r, c)
    OBVIOUS
  <2>1. k \in Nat /\ (r = src => k \in 1..Len(ts)) /\ (ts[k] = 0 \/ Spread(g, src))
    OBVIOUS
  <2> QED BY <2>1, SayTensor
<1>2. ss = [i \in 1..Len(slots) |->
             Say(r, src, AllPg(g, ts[slots[i]]), "tensor", <<slots[i]>>, ts[slots[i]] # 0)]
  OBVIOUS
<1> HIDE DEF plan
<1>3. FlattenSeq(ss) \in Plans(r, c)
  BY <1>1, EachPlan
<1> QED BY <1>2, <1>3 DEF SayEach

-----------------------------------------------------------------------------
(* The routes of a broadcast                                                *)

LEMMA RangePlan ==
  ASSUME NEW r, NEW c, NEW n \in Nat, NEW ss \in [1..n -> Plans(r, c)]
  PROVE  FlattenSeq(ss) \in Plans(r, c)
<1> DEFINE W == Plans(r, c)
<1> HIDE DEF W
<1>1. ss \in Seq(W)
  <2>1. ss \in [1..n -> W]
    BY DEF W
  <2> QED BY <2>1
<1>2. ss \in Seq(Plans(r, c))
  BY <1>1 DEF W
<1> QED BY <1>2, PlanFlat

LEMMA SlotFacts ==
  ASSUME NEW ts \in Seq(Nat)
  PROVE  /\ Len(ts) \in Nat /\ SlotsOf(ts) \in Seq(1..Len(ts))
         /\ \A k \in 1..Len(ts) : ts[k] # 0 => AccelSlots(ts) # <<>>
<1> DEFINE s == SlotsOf(ts)
           S == {i \in 1..Len(ts) : ts[i] # 0}
<1>1. Len(ts) \in Nat
  OBVIOUS
<1>2. s \in Seq(Nat) /\ Len(s) = Len(ts) /\ \A i \in 1..Len(ts) : s[i] = i
  BY <1>1 DEF SlotsOf
<1>3. Increasing(s)
  BY <1>1, <1>2 DEF Increasing
<1> HIDE DEF s, S
<1>4. KeptOf(s, S, Keep(s, S), Len(s))
  BY <1>2, <1>3, KeepAll
<1>5. AccelSlots(ts) = Keep(s, S)
  BY DEF AccelSlots, s, S
<1>6. ASSUME NEW k \in 1..Len(ts), ts[k] # 0 PROVE AccelSlots(ts) # <<>>
  <2> DEFINE kept == Keep(s, S)
  <2>1. k \in S /\ \E i \in 1..Len(s) : s[i] = k
    BY <1>2, <1>6 DEF S
  <2>2. \A x : (\E i \in 1..Len(kept) : kept[i] = x) <=> x \in S /\ \E i \in 1..Len(s) : s[i] = x
    BY <1>4 DEF KeptOf
  <2> HIDE DEF kept
  <2>3. \E i \in 1..Len(kept) : kept[i] = k
    BY <2>1, <2>2
  <2>4. kept # <<>>
    BY <2>3
  <2> QED BY <1>5, <2>4 DEF kept
<1> QED BY <1>1, <1>6, SlotTypes

\* The one device of a worker that has only one.
LEMMA OneDeviceIs ==
  ASSUME scene \in Scenes, NEW r \in Workers, OneDevice(r), NEW x \in scene.accels[r]
  PROVE  scene.accels[r] = {x}
<1>1. IsFiniteSet(scene.accels[r])
  BY CollectiveAssumption DEF Workers
<1> DEFINE S == scene.accels[r]
<1>2. Cardinality(S) = 1 /\ IsFiniteSet(S) /\ x \in S
  BY <1>1 DEF OneDevice
<1> HIDE DEF S
<1>3. \E y : S = {y}
  BY <1>2, FS_Singleton
<1>4. S = {x}
  BY <1>2, <1>3
<1> QED BY <1>4 DEF S

LEMMA RingPlan ==
  ASSUME NEW r, NEW c, NEW src, Broadcasts(r, c, src), NEW ts \in Seq(Nat),
         r = src => ts = CallsOf(r)[c].tensors, NEW ring, ShouldUseRing(src, ts, ring)
  PROVE  RingBroadcast(r, src, ts) \in Plans(r, c)
<1> DEFINE to == Receivers(src)
           first == to[1]
           others == Tail(to)
           hop == Pair(src, first)
           P == Plans(r, c)
           Q == Workers \ {src, first}
           N == 1..Len(ts)
<1>1. /\ scene \in Scenes /\ r \in Workers /\ src \in Workers /\ Hears(r, src)
      /\ IsSource(r, CallsOf(r)[c]) <=> r = src
      /\ \A q \in Workers \ {r} : Sends(r, c, q) /\ Receives(r, c, q)
      /\ CallsOf(r)[c].op # "recv_tensor"
  BY BroadcastLanes DEF Broadcasts
<1>2. /\ \A q \in Workers \ {src} : Relation(src, q) = "apart"
      /\ AccelSlots(ts) # <<>> => \A q, p \in Workers \ {src} :
           q # p /\ OneDevice(q) /\ OneDevice(p) => scene.accels[q] # scene.accels[p]
  BY <1>1, SpreadWorld DEF ShouldUseRing
<1>3. to \in Seq(Workers) /\ Increasing(to) /\ Range(to) = Workers \ {src} /\ to # <<>>
  <2>1. to \in Seq(Workers) /\ Increasing(to) /\ Range(to) = Workers \ {src}
    BY <1>1, ReceiverFacts
  <2>2. Len(to) >= 2
    BY DEF ShouldUseRing
  <2> QED BY <2>1, <2>2
<1> HIDE DEF to
<1>4. first \in Workers \ {src} /\ others \in Seq(Q)
  <2>1. first \in Range(to) /\ others \in Seq(Range(to) \ {first})
    BY <1>1, <1>3, FirstAndOthers
  <2>2. Range(to) \ {first} = Q
    BY <1>3
  <2> QED BY <1>3, <2>1, <2>2
<1> HIDE DEF first, others
<1>5. Len(ts) \in Nat /\ N \in SUBSET Nat /\ SlotsOf(ts) \in Seq(N)
  BY SlotFacts
<1>6. hop \in Seq(Workers) /\ hop = Pair(first, src)
  BY <1>1, <1>4, PairFacts
<1>7. Join(hop) \in P
  BY <1>6, JoinPlan
<1>8. \A u, v \in P : u \o v \in P
  BY PlanCat
<1>9. CASE r = src
  <2>1. RingBroadcast(r, src, ts) = Join(hop) \o PutEach(hop, r, ts, SlotsOf(ts))
    BY <1>4, <1>9 DEF RingBroadcast, first, to
  <2>2. MayGo(r, c, first, ts, N)
    <3>1. /\ Sends(r, c, first) /\ IsSource(r, CallsOf(r)[c]) /\ ts = CallsOf(r)[c].tensors
          /\ Relation(r, first) = "apart"
      BY <1>1, <1>2, <1>4, <1>9
    <3> QED BY <3>1, GoOwn
  <2>3. PutEach(Pair(r, first), r, ts, SlotsOf(ts)) \in P
    <3>1. Sends(r, c, first)
      BY <1>1, <1>4, <1>9
    <3> QED BY <1>5, <2>2, <3>1, PutEachPlan
  <2> HIDE DEF P
  <2> QED BY <1>7, <1>8, <1>9, <2>1, <2>3 DEF P
<1>10. CASE r = first
  <2> DEFINE joins == [i \in 1..Len(others) |-> Join(Pair(first, others[i]))]
             onward(k) == FlattenSeq([i \in 1..Len(others) |->
                            Post(SendPg(Pair(first, others[i]), first, ts[k]), "tensor", <<k>>)])
             each == [k \in N |-> TakeEach(hop, r, ts, <<k>>) \o Drain \o onward(k)]
  <2>1. r # src /\ Sends(r, c, src) /\ Receives(r, c, src)
    BY <1>1, <1>4, <1>10
  <2>2. RingBroadcast(r, src, ts) = Join(hop) \o FlattenSeq(joins) \o FlattenSeq(each) \o Drain
    BY <1>10, <2>1 DEF RingBroadcast, first, to, others
  <2>3. FlattenSeq(joins) \in P
    <3> DEFINE plan == [q \in Q |-> Join(Pair(first, q))]
    <3>1. \A q \in Q : plan[q] \in P
      <4> SUFFICES ASSUME NEW q \in Q PROVE Join(Pair(first, q)) \in P
        OBVIOUS
      <4>1. q \in Workers /\ first # q
        OBVIOUS
      <4>2. Pair(first, q) \in Seq(Workers)
        BY <1>1, <1>4, <4>1, PairFacts
      <4> QED BY <4>2, JoinPlan
    <3>2. joins = [i \in 1..Len(others) |-> plan[others[i]]]
      BY <1>4
    <3> HIDE DEF plan, joins
    <3> QED BY <1>4, <3>1, <3>2, EachPlan
  <2>4. ASSUME NEW k \in N PROVE onward(k) \in P
    <3> DEFINE plan == [q \in Q |-> Post(SendPg(Pair(first, q), first, ts[k]), "tensor", <<k>>)]
               ss == [i \in 1..Len(others) |->
                       Post(SendPg(Pair(first, others[i]), first, ts[k]), "tensor", <<k>>)]
    <3>1. ASSUME NEW q \in Q PROVE plan[q] \in P
      <4>1. Sends(r, c, q) /\ q \in Workers /\ r # q /\ q # src
        BY <1>1, <1>10
      <4>2. MayGo(r, c, q, ts, {k})
        <5> SUFFICES ASSUME ts[k] # 0, Placed, scene.accels[r] # {}, scene.accels[q] # {}
                     PROVE  /\ DeviceOf(r, c, <<k>>) \in scene.accels[r]
                            /\ DeviceOf(r, c, <<k>>) # scene.current[q]
          <6>1. k \in Nat
            BY <1>5
          <6> QED BY <6>1 DEF MayGo
        <5>1. DeviceOf(r, c, <<k>>) = scene.current[r]
          BY <1>1, <2>1 DEF DeviceOf
        <5>2. scene.current[r] \in scene.accels[r] /\ scene.current[q] \in scene.accels[q]
          BY <1>1, <4>1 DEF Placed
        <5>3. ASSUME scene.current[r] = scene.current[q] PROVE FALSE
          <6>1. Relation(src, r) = "apart" /\ Relation(src, q) = "apart"
            BY <1>1, <1>2, <2>1, <4>1
          <6>2. OneDevice(r) /\ OneDevice(q)
            BY <1>1, <4>1, <5>3, <6>1 DEF Placed
          <6>3. scene.accels[r] = {scene.current[r]} /\ scene.accels[q] = {scene.current[q]}
            BY <1>1, <4>1, <5>2, <6>2, OneDeviceIs
          <6>4. AccelSlots(ts) # <<>>
            BY SlotFacts
          <6> QED BY <1>1, <1>2, <2>1, <4>1, <5>3, <6>2, <6>3, <6>4
        <5> QED BY <5>1, <5>2, <5>3
      <4>3. Post(SendPg(Pair(r, q), r, ts[k]), "tensor", <<k>>) \in P
        BY <4>1, <4>2, TensorPut
      <4> QED BY <1>10, <3>1, <4>3
    <3>2. ss = [i \in 1..Len(others) |-> plan[others[i]]]
      BY <1>4
    <3> HIDE DEF plan, ss
    <3>3. FlattenSeq(ss) \in P
      BY <1>4, <3>1, <3>2, EachPlan
    <3> QED BY <3>3 DEF ss
  <2>5. ASSUME NEW k \in N PROVE TakeEach(hop, r, ts, <<k>>) \in P
    <3>1. MayCome(r, c, src, ts, {k})
      <4>1. {k} \in SUBSET Nat
        BY <1>5
      <4> QED BY <1>1, <2>1, <4>1, ComeOther
    <3>2. <<k>> \in Seq({k})
      OBVIOUS
    <3>3. TakeEach(Pair(r, src), r, ts, <<k>>) \in P
      BY <2>1, <3>1, <3>2, TakeEachPlan
    <3> QED BY <1>6, <1>10, <3>3
  <2>6. Drain \in P
    BY DrainPlan
  <2> HIDE DEF onward, P, joins
  <2>7. each \in [N -> P]
    BY <1>8, <2>4, <2>5, <2>6
  <2> HIDE DEF each
  <2>8. FlattenSeq(each) \in P
    BY <1>5, <2>7, RangePlan DEF P
  <2> QED BY <1>7, <1>8, <2>2, <2>3, <2>6, <2>8 DEF P
<1>11. CASE r # src /\ r # first
  <2>1. RingBroadcast(r, src, ts) = Join(Pair(first, r)) \o TakeEach(Pair(first, r), r, ts, SlotsOf(ts))
    BY <1>11 DEF RingBroadcast, first, to
  <2>2. Receives(r, c, first) /\ Pair(first, r) = Pair(r, first) /\ Pair(first, r) \in Seq(Workers)
    BY <1>1, <1>4, <1>11, PairFacts
  <2>3. Join(Pair(first, r)) \in P
    BY <2>2, JoinPlan
  <2>4. MayCome(r, c, first, ts, N)
    BY <1>1, <1>5, <1>11, <2>2, ComeOther
  <2>5. TakeEach(Pair(r, first), r, ts, SlotsOf(ts)) \in P
    BY <1>5, <2>2, <2>4, TakeEachPlan
  <2> HIDE DEF P
  <2> QED BY <1>8, <2>1, <2>2, <2>3, <2>5 DEF P
<1> QED BY <1>9, <1>10, <1>11

LEMMA FanOutPlan ==
  ASSUME NEW r, NEW c, NEW src, Broadcasts(r, c, src), NEW ts \in Seq(Nat)
  PROVE  FanOut(r, src, ts) \in Plans(r, c)
<1> DEFINE to == Receivers(src)
           P == Plans(r, c)
           Q == Workers \ {src}
           N == 1..Len(ts)
           send(q) == Join(Pair(src, q))
                      \o FlattenSeq([k \in N |-> Post(SendPg(Pair(src, q), src, 0), "tensor", <<k>>)])
           sends == [i \in 1..Len(to) |-> send(to[i])]
<1>1. /\ scene \in Scenes /\ r \in Workers /\ src \in Workers
      /\ IsSource(r, CallsOf(r)[c]) <=> r = src
      /\ \A q \in Workers \ {r} : Sends(r, c, q) /\ Receives(r, c, q)
      /\ CallsOf(r)[c].op # "recv_tensor" /\ CallsOf(r)[c].op = "broadcast"
  BY BroadcastLanes DEF Broadcasts
<1>2. to \in Seq(Q)
  <2>1. to \in Seq(Workers) /\ Range(to) = Workers \ {src}
    BY <1>1, ReceiverFacts
  <2>2. \A i \in 1..Len(to) : to[i] \in Q
    BY <2>1, SeqRange
  <2> HIDE DEF to, Q
  <2> QED BY <2>1, <2>2
<1>3. Len(ts) \in Nat /\ N \in SUBSET Nat /\ SlotsOf(ts) \in Seq(N)
  BY SlotFacts
<1>4. \A u, v \in P : u \o v \in P
  BY PlanCat
<1>5. FanOut(r, src, ts) = IF r = src THEN FlattenSeq(sends) \o Drain
                           ELSE Join(Pair(src, r)) \o TakeEach(Pair(src, r), r, ts, SlotsOf(ts))
  BY DEF FanOut
<1> HIDE DEF to
<1>6. CASE r = src
  <2>1. ASSUME NEW q \in Q PROVE send(q) \in P
    <3> DEFINE posts == [k \in N |-> Post(SendPg(Pair(src, q), src, 0), "tensor", <<k>>)]
    <3>1. Pair(src, q) \in Seq(Workers) /\ Sends(r, c, q)
      BY <1>1, <1>6, <2>1, PairFacts
    <3>2. Join(Pair(src, q)) \in P
      BY <3>1, JoinPlan
    <3>3. ASSUME NEW k \in N PROVE Post(SendPg(Pair(r, q), r, 0), "tensor", <<k>>) \in P
      <4>1. <<k>> \in Seq(Nat)
        BY <1>3
      <4> QED BY <1>1, <3>1, <4>1, WordPut DEF Words
    <3>4. posts \in [N -> P]
      <4> HIDE DEF P
      <4> QED BY <1>6, <3>3
    <3> HIDE DEF posts
    <3>5. FlattenSeq(posts) \in P
      BY <1>3, <3>4, RangePlan
    <3>6. send(q) = Join(Pair(src, q)) \o FlattenSeq(posts)
      BY DEF posts
    <3> HIDE DEF P, send
    <3> QED BY <1>4, <3>2, <3>5, <3>6
  <2> HIDE DEF send
  <2> DEFINE plan == [q \in Q |-> send(q)]
  <2>2. \A q \in Q : plan[q] \in P
    BY <2>1
  <2>3. sends = [i \in 1..Len(to) |-> plan[to[i]]]
    BY <1>2
  <2> HIDE DEF plan, sends
  <2>4. FlattenSeq(sends) \in P
    BY <1>2, <2>2, <2>3, EachPlan
  <2> QED BY <1>4, <1>5, <1>6, <2>4, DrainPlan
<1>7. CASE r # src
  <2>1. Receives(r, c, src) /\ Pair(src, r) = Pair(r, src) /\ Pair(src, r) \in Seq(Workers)
    BY <1>1, <1>7, PairFacts
  <2>2. Join(Pair(src, r)) \in P
    BY <2>1, JoinPlan
  <2>3. MayCome(r, c, src, ts, N)
    BY <1>1, <1>3, <1>7, <2>1, ComeOther
  <2>4. TakeEach(Pair(r, src), r, ts, SlotsOf(ts)) \in P
    BY <1>3, <2>1, <2>3, TakeEachPlan
  <2> HIDE DEF P, sends
  <2> QED BY <1>4, <1>5, <1>7, <2>1, <2>2, <2>4 DEF P
<1> QED BY <1>6, <1>7

\* The part of the head of a device, and of the source with them.
LEMMA HeadPlan ==
  ASSUME NEW r, NEW c, NEW src, Broadcasts(r, c, src), NEW ts \in Seq(Nat),
         r = src => ts = CallsOf(r)[c].tensors,
         NEW heads, SubGroup(src, heads) \in Seq(Workers), r \in Range(SubGroup(src, heads)),
         Spread(SubGroup(src, heads), src), NEW peers \in Seq(Workers \ {r})
  PROVE  HeadOfDevice(r, src, ts, heads, peers) \in Plans(r, c)
<1> DEFINE g == SubGroup(src, heads)
           P == Plans(r, c)
           Q == Workers \ {r}
           A == {k \in 1..Len(ts) : ts[k] # 0}
           accel == AccelSlots(ts)
           share(q) == Join(Pair(r, q)) \o IpcSend(Pair(r, q), r, accel)
           shares == [i \in 1..Len(peers) |-> share(peers[i])]
           sync == IF peers = <<>> THEN <<>> ELSE <<[do |-> "sync"]>>
<1>1. /\ scene \in Scenes /\ r \in Workers
      /\ \A q \in Q : Sends(r, c, q)
  BY BroadcastLanes
<1>2. accel \in Seq(A) /\ A \subseteq Nat /\ A \subseteq 1..Len(ts) /\ Len(ts) \in Nat
  <2>1. accel \in Seq(A)
    BY SlotTypes
  <2>2. A \subseteq Nat /\ A \subseteq 1..Len(ts) /\ Len(ts) \in Nat
    OBVIOUS
  <2> QED BY <2>1, <2>2
<1>3. HeadOfDevice(r, src, ts, heads, peers) =
        Join(g) \o SayEach(r, src, g, ts, accel) \o sync \o FlattenSeq(shares)
  BY DEF HeadOfDevice
<1> HIDE DEF g, A, accel
<1>4. Join(g) \in P
  BY JoinPlan DEF g
<1>5. SayEach(r, src, g, ts, accel) \in P
  BY <1>2, SayEachPlan DEF g
<1>6. sync \in P
  BY SyncPlan, PlanNil
<1>7. \A q \in Q : share(q) \in P
  <2> SUFFICES ASSUME NEW q \in Q PROVE share(q) \in P
    OBVIOUS
  <2>1. Pair(r, q) \in Seq(Workers) /\ Sends(r, c, q)
    BY <1>1, PairFacts
  <2>2. Join(Pair(r, q)) \in P
    BY <2>1, JoinPlan
  <2>3. accel \in Seq(Nat)
    BY <1>2, SeqSubset
  <2>4. IpcSend(Pair(r, q), r, accel) \in P
    BY <2>1, <2>3, IpcSendPlan
  <2> QED BY <2>2, <2>4, PlanCat
<1> HIDE DEF share
<1> DEFINE plan == [q \in Q |-> share(q)]
<1>8. shares = [i \in 1..Len(peers) |-> plan[peers[i]]]
  OBVIOUS
<1>9. \A q \in Q : plan[q] \in P
  BY <1>7
<1> HIDE DEF plan, shares, sync
<1>10. FlattenSeq(shares) \in P
  BY <1>8, <1>9, EachPlan
<1>11. \A u, v \in P : u \o v \in P
  BY PlanCat
<1> HIDE DEF P
<1> QED BY <1>3, <1>4, <1>5, <1>6, <1>10, <1>11 DEF P

\* To each of some workers.
LEMMA ToEachPlan ==
  ASSUME NEW r, NEW c, NEW Q, NEW to \in Seq(Q), NEW plan, \A q \in Q : plan[q] \in Plans(r, c),
         NEW ss, ss = [i \in 1..Len(to) |-> plan[to[i]]]
  PROVE  FlattenSeq(ss) \in Plans(r, c)
BY EachPlan

LEMMA HybridPlan ==
  ASSUME NEW r, NEW c, NEW src, Broadcasts(r, c, src), NEW ts \in Seq(Nat),
         r = src => ts = CallsOf(r)[c].tensors
  PROVE  Hybrid(r, src, ts) \in Plans(r, c)
<1> DEFINE same == Classified(src, "same")
           unsure == Classified(src, "unsure")
           apart == Classified(src, "apart")
           groups == ApartGroups(src)
           heads == HeadsIn(groups)
           mine == CHOOSE i \in 1..Len(groups) : r \in Range(groups[i])
           fromHead == Pair(groups[mine][1], r)
           accel == AccelSlots(ts)
           cpu == CpuSlots(ts)
           P == Plans(r, c)
           Q == Workers \ {r}
           A == {k \in 1..Len(ts) : ts[k] # 0}
           C == {k \in 1..Len(ts) : ts[k] = 0}
           shared == [i \in 1..Len(same) |-> Join(Pair(src, same[i])) \o IpcSend(Pair(src, same[i]), r, accel)]
           asked == [i \in 1..Len(unsure) |-> Join(Pair(src, unsure[i])) \o UnsureSend(Pair(src, unsure[i]), r)]
           spread == IF heads = <<>> THEN <<>> ELSE HeadOfDevice(r, src, ts, heads, <<>>)
           body == CASE r = src -> FlattenSeq(shared) \o FlattenSeq(asked) \o spread
                     [] r \in Range(same)   -> Join(Pair(src, r)) \o IpcRecv(Pair(src, r), r, accel)
                     [] r \in Range(unsure) -> Join(Pair(src, r)) \o UnsureRecv(Pair(src, r), r)
                     [] r \in Range(heads)  -> HeadOfDevice(r, src, ts, heads, Tail(groups[mine]))
                     [] OTHER               -> Join(fromHead) \o IpcRecv(fromHead, r, accel)
<1>1. /\ scene \in Scenes /\ r \in Workers /\ src \in Workers
      /\ IsSource(r, CallsOf(r)[c]) <=> r = src
      /\ \A q \in Workers \ {r} : Sends(r, c, q) /\ Receives(r, c, q)
      /\ CallsOf(r)[c].op # "recv_tensor" /\ CallsOf(r)[c].op = "broadcast"
  BY BroadcastLanes DEF Broadcasts
<1>2. Hybrid(r, src, ts) = body \o SayEach(r, src, World, ts, cpu)
  BY DEF Hybrid, HeadsIn
<1>3. /\ same \in Seq(Workers) /\ Range(same) = {q \in Workers \ {src} : Relation(src, q) = "same"}
      /\ unsure \in Seq(Workers) /\ Range(unsure) = {q \in Workers \ {src} : Relation(src, q) = "unsure"}
      /\ apart \in Seq(Workers) /\ Increasing(apart)
      /\ Range(apart) = {q \in Workers \ {src} : Relation(src, q) = "apart"}
  BY <1>1, ClassifiedFacts
<1>4. /\ Range(heads) = {groups[i][1] : i \in 1..Len(groups)}
      /\ Range(heads) \subseteq {q \in Workers \ {src} : Relation(src, q) = "apart"}
      /\ SubGroup(src, heads) \in Seq(Workers)
      /\ Range(SubGroup(src, heads)) = {src} \union Range(heads)
      /\ Spread(SubGroup(src, heads), src)
  BY <1>1, HeadFacts
<1>5. groups = GroupRanksByDevice(apart)
  BY DEF ApartGroups
<1> HIDE DEF same, unsure, apart, groups, heads, mine
<1>6. accel \in Seq(A) /\ cpu \in Seq(C) /\ A \subseteq Nat /\ C \subseteq Nat /\ C \subseteq 1..Len(ts)
      /\ Len(ts) \in Nat /\ \A k \in C : ts[k] = 0
  <2>1. accel \in Seq(A) /\ cpu \in Seq(C)
    BY SlotTypes
  <2>2. A \subseteq Nat /\ C \subseteq Nat /\ C \subseteq 1..Len(ts) /\ Len(ts) \in Nat /\ \A k \in C : ts[k] = 0
    OBVIOUS
  <2> QED BY <2>1, <2>2
<1> HIDE DEF accel, cpu, A, C
<1>7. accel \in Seq(Nat)
  BY <1>6, SeqSubset
<1>8. \A u, v \in P : u \o v \in P
  BY PlanCat
<1>9. SayEach(r, src, World, ts, cpu) \in P
  <2>1. World \in Seq(Workers) /\ r \in Range(World)
    BY <1>1, WorldFacts
  <2> QED BY <1>6, <2>1, SayEachPlan
<1>10. ASSUME NEW q \in Workers \ {r} PROVE Join(Pair(r, q)) \in P /\ Pair(r, q) = Pair(q, r)
  <2>1. Pair(r, q) \in Seq(Workers) /\ Pair(r, q) = Pair(q, r)
    BY <1>1, PairFacts
  <2> QED BY <2>1, JoinPlan
<1>11. ASSUME r = src PROVE body \in P
  <2> DEFINE D == Workers \ {src}
             share == [q \in D |-> Join(Pair(src, q)) \o IpcSend(Pair(src, q), r, accel)]
             ask == [q \in D |-> Join(Pair(src, q)) \o UnsureSend(Pair(src, q), r)]
  <2>1. ASSUME NEW q \in D PROVE share[q] \in P /\ ask[q] \in P
    <3>1. Join(Pair(r, q)) \in P /\ Sends(r, c, q)
      BY <1>1, <1>10, <1>11
    <3>2. IpcSend(Pair(r, q), r, accel) \in P
      BY <1>7, <3>1, IpcSendPlan
    <3>3. UnsureSend(Pair(r, q), r) \in P
      BY <1>1, <1>11, <3>1, UnsureSendPlan
    <3> HIDE DEF P
    <3> QED BY <1>8, <1>11, <3>1, <3>2, <3>3
  <2>2. same \in Seq(D) /\ unsure \in Seq(D)
    <3>1. \A i \in 1..Len(same) : same[i] \in D
      BY <1>3, SeqRange
    <3>2. \A i \in 1..Len(unsure) : unsure[i] \in D
      BY <1>3, SeqRange
    <3> HIDE DEF D
    <3>3. same \in Seq(Workers) /\ unsure \in Seq(Workers)
      BY <1>3
    <3>4. same \in Seq(D)
      BY <3>1, <3>3
    <3>5. unsure \in Seq(D)
      BY <3>2, <3>3
    <3> QED BY <3>4, <3>5
  <2>3. shared = [i \in 1..Len(same) |-> share[same[i]]] /\ asked = [i \in 1..Len(unsure) |-> ask[unsure[i]]]
    BY <2>2
  <2>4. body = FlattenSeq(shared) \o FlattenSeq(asked) \o spread
    <3>1. r \notin Range(same) /\ r \notin Range(unsure) /\ r \notin Range(heads)
      BY <1>3, <1>4, <1>11
    <3> HIDE DEF shared, asked, spread
    <3> QED BY <1>11, <3>1
  <2> HIDE DEF share, ask, shared, asked, body
  <2>5. FlattenSeq(shared) \in P
    BY <2>1, <2>2, <2>3, ToEachPlan
  <2>6. FlattenSeq(asked) \in P
    BY <2>1, <2>2, <2>3, ToEachPlan
  <2>7. spread \in P
    <3>1. <<>> \in Seq(Workers \ {r})
      OBVIOUS
    <3>2. HeadOfDevice(r, src, ts, heads, <<>>) \in P
      BY <1>4, <1>11, <3>1, HeadPlan
    <3> QED BY <3>2, PlanNil
  <2> HIDE DEF spread, P
  <2> QED BY <1>8, <2>4, <2>5, <2>6, <2>7 DEF P
<1>12. ASSUME r # src, r \in Range(same) PROVE body \in P
  <2>1. body = Join(Pair(src, r)) \o IpcRecv(Pair(src, r), r, accel)
    <3>1. r \notin Range(unsure) /\ r \notin Range(heads)
      BY <1>3, <1>4, <1>12
    <3> HIDE DEF shared, asked, spread
    <3> QED BY <1>12, <3>1
  <2>2. Join(Pair(src, r)) \in P /\ Pair(src, r) = Pair(r, src) /\ Receives(r, c, src)
    BY <1>1, <1>10, <1>12
  <2>3. IpcRecv(Pair(src, r), r, accel) \in P
    BY <1>7, <2>2, IpcRecvPlan
  <2> HIDE DEF body, P
  <2> QED BY <1>8, <2>1, <2>2, <2>3
<1>13. ASSUME r # src, r \in Range(unsure) PROVE body \in P
  <2>1. body = Join(Pair(src, r)) \o UnsureRecv(Pair(src, r), r)
    <3>1. r \notin Range(same) /\ r \notin Range(heads)
      BY <1>3, <1>4, <1>13
    <3> HIDE DEF shared, asked, spread
    <3> QED BY <1>13, <3>1
  <2>2. Join(Pair(src, r)) \in P /\ Pair(src, r) = Pair(r, src) /\ Receives(r, c, src)
    BY <1>1, <1>10, <1>13
  <2>3. UnsureRecv(Pair(src, r), r) \in P
    BY <1>1, <1>13, <2>2, UnsureRecvPlan
  <2> HIDE DEF body, P
  <2> QED BY <1>8, <2>1, <2>2, <2>3
<1>14. ASSUME r # src, r \notin Range(same), r \notin Range(unsure) PROVE body \in P
  <2>1. r \in Range(apart)
    BY <1>1, <1>3, <1>14, RelationIs
  <2>2. \A i \in 1..Len(groups) : IsGroup(apart, groups[i])
    BY <1>1, <1>3, <1>5, GroupMembers
  <2>3. PICK t : IsGroup(apart, t) /\ r \in Range(t)
    BY <1>1, <1>3, <2>1, GroupOfEach
  <2>a. \E i \in 1..Len(groups) : groups[i] = t
    <3>1. \A x : IsGroup(apart, x) => \E i \in 1..Len(groups) : groups[i] = x
      BY <1>1, <1>3, <1>5, GroupMembers, ZenonT(40)
    <3> QED BY <2>3, <3>1
  <2>4. mine \in 1..Len(groups) /\ r \in Range(groups[mine])
    BY <2>3, <2>a DEF mine
  <2> DEFINE s == groups[mine]
             h == s[1]
  <2>5. IsGroup(apart, s) /\ r \in Range(s)
    BY <2>2, <2>4
  <2> HIDE DEF s
  <2>6. /\ s \in Seq(Workers) /\ Increasing(s) /\ s # <<>> /\ Range(s) \subseteq Range(apart)
        /\ h \in Range(s)
        /\ \A x \in Range(s) : s = IF OneDevice(x) THEN OfDevice(apart, x) ELSE <<x>>
    BY <1>1, <1>3, <2>5, GroupIs
  <2>7. h \in Range(heads)
    BY <1>4, <2>4 DEF s
  <2>8. CASE r \in Range(heads)
    <3>1. body = HeadOfDevice(r, src, ts, heads, Tail(s))
      <4> HIDE DEF shared, asked, spread
      <4> QED BY <1>14, <2>8 DEF s
    <3>2. PICK i \in 1..Len(groups) : r = groups[i][1]
      BY <1>4, <2>8
    <3> DEFINE u == groups[i]
    <3>3. IsGroup(apart, u) /\ r = u[1]
      BY <2>2, <3>2
    <3> HIDE DEF u
    <3>4. /\ u[1] \in Range(u)
          /\ \A x \in Range(u) : u = IF OneDevice(x) THEN OfDevice(apart, x) ELSE <<x>>
      BY <1>1, <1>3, <3>3, GroupIs
    <3>5. s = u
      BY <2>5, <2>6, <3>3, <3>4
    <3>6. Tail(s) \in Seq(Range(s) \ {s[1]}) /\ s[1] = r
      BY <1>1, <2>6, <3>3, <3>5, FirstAndOthers
    <3>7. Range(s) \ {s[1]} \subseteq Workers \ {r}
      BY <2>6, <3>6, SeqRange
    <3>8. Tail(s) \in Seq(Workers \ {r})
      BY <3>6, <3>7, SeqSubset
    <3>9. r \in Range(SubGroup(src, heads))
      BY <1>4, <2>8
    <3> DEFINE peers == Tail(s)
    <3> HIDE DEF body, peers
    <3>10. HeadOfDevice(r, src, ts, heads, peers) \in P
      BY <1>4, <3>8, <3>9, HeadPlan DEF peers
    <3> QED BY <3>1, <3>10 DEF peers
  <2>9. CASE r \notin Range(heads)
    <3>1. body = Join(fromHead) \o IpcRecv(fromHead, r, accel)
      <4> HIDE DEF shared, asked, spread
      <4> QED BY <1>14, <2>9
    <3>2. h \in Workers \ {r}
      BY <1>4, <2>7, <2>9
    <3>3. Join(fromHead) \in P /\ fromHead = Pair(r, h) /\ Receives(r, c, h)
      BY <1>1, <1>10, <3>2 DEF s
    <3>4. IpcRecv(fromHead, r, accel) \in P
      BY <1>7, <3>3, IpcRecvPlan
    <3> HIDE DEF body, P
    <3> QED BY <1>8, <3>1, <3>3, <3>4
  <2> QED BY <2>8, <2>9
<1> HIDE DEF body
<1>15. body \in P
  BY <1>11, <1>12, <1>13, <1>14
<1> HIDE DEF P
<1> QED BY <1>2, <1>8, <1>9, <1>15 DEF P

LEMMA PayloadPlan ==
  ASSUME NEW r, NEW c, NEW src, Broadcasts(r, c, src), NEW ts \in Seq(Nat),
         r = src => ts = CallsOf(r)[c].tensors, NEW ring
  PROVE  Payload(r, src, ts, ring) \in Plans(r, c)
<1> DEFINE use == ShouldUseRing(src, ts, ring)
           some == AccelSlots(ts) # <<>>
           all == SayEach(r, src, World, ts, SlotsOf(ts))
           none == /\ Classified(src, "same") = <<>> /\ Classified(src, "unsure") = <<>>
                   /\ ~Shared(src)
           P == Plans(r, c)
<1>1. scene \in Scenes /\ r \in Workers /\ src \in Workers
  BY BroadcastLanes DEF Broadcasts
<1>2. use => RingBroadcast(r, src, ts) \in P
  BY RingPlan
<1>3. FanOut(r, src, ts) \in P
  BY FanOutPlan
<1>4. Hybrid(r, src, ts) \in P
  BY HybridPlan
<1>5. none => all \in P
  <2> SUFFICES ASSUME none PROVE all \in P
    OBVIOUS
  <2>1. Spread(World, src)
    BY <1>1, SpreadWorld
  <2>2. World \in Seq(Workers) /\ r \in Range(World)
    BY <1>1, WorldFacts
  <2> DEFINE K == 1..Len(ts)
  <2>3. K \in SUBSET Nat /\ SlotsOf(ts) \in Seq(K) /\ K \subseteq 1..Len(ts)
    BY SlotFacts
  <2> HIDE DEF K
  <2> QED BY <2>1, <2>2, <2>3, SayEachPlan
<1>6. Payload(r, src, ts, ring) =
        CASE use -> RingBroadcast(r, src, ts)
          [] ~use /\ ~some -> FanOut(r, src, ts)
          [] ~use /\ some -> IF none THEN all ELSE Hybrid(r, src, ts)
  BY DEF Payload
<1> HIDE DEF use, some, all, none, P
<1>7. Payload(r, src, ts, ring) \in P
  BY <1>2, <1>3, <1>4, <1>5, <1>6
<1> QED BY <1>7 DEF P

LEMMA BroadcastPlan ==
  ASSUME NEW r, NEW c, NEW src, Broadcasts(r, c, src)
  PROVE  /\ AtomicBroadcast(r, CallsOf(r)[c]) \in Plans(r, c)
         /\ \A kind \in {"list", "dict", "dataclass", "object"} :
              BroadcastKind(r, CallsOf(r)[c], kind) \in Plans(r, c)
<1> DEFINE call == CallsOf(r)[c]
           P == Plans(r, c)
           payload == IF r = call.peer THEN Payload(r, r, call.tensors, call.ring) ELSE <<>>
<1>1. scene \in Scenes /\ r \in Workers /\ src \in Workers /\ call.peer = src /\ InScene(r, c)
  BY BroadcastLanes DEF Broadcasts
<1>2. World \in Seq(Workers)
  BY <1>1, WorldFacts
<1>3. \A u, v \in P : u \o v \in P
  BY PlanCat
<1>4. Join(World) \in P
  BY <1>2, JoinPlan
<1>5. \A what \in {"type", "meta", "keys", "fields", "object"} : \A slots \in Seq(Nat) :
        Say(r, src, AllPg(World, 0), what, slots, FALSE) \in P
  BY <1>2, SayWord
<1>6. <<>> \in Seq(Nat) /\ <<0>> \in Seq(Nat)
  OBVIOUS
<1>7. payload \in P
  <2>1. r = src => Payload(r, r, call.tensors, call.ring) \in P
    <3> SUFFICES ASSUME r = src PROVE Payload(r, r, call.tensors, call.ring) \in P
      OBVIOUS
    <3>1. call.tensors \in Seq(Nat)
      BY <1>1, CallFacts
    <3>2. Broadcasts(r, c, r)
      OBVIOUS
    <3> QED BY <3>1, <3>2, PayloadPlan
  <2> QED BY <1>1, <2>1, PlanNil
<1>8. /\ SayAll(r, call, "meta", <<>>) \in P /\ SayAll(r, call, "fields", <<>>) \in P
      /\ SayAll(r, call, "keys", <<0>>) \in P /\ BroadcastObject(r, call) \in P
  BY <1>1, <1>5, <1>6 DEF SayAll, BroadcastObject
<1>9. Say(r, call.peer, AllPg(World, 0), "type", <<>>, FALSE) \in P
  BY <1>1, <1>5, <1>6
<1>10. BroadcastList(r, call) = SayAll(r, call, "meta", <<>>) \o payload
  BY DEF BroadcastList
<1> HIDE DEF call, P, payload
<1>11. AtomicBroadcast(r, call) \in P
  BY <1>3, <1>4, <1>9 DEF AtomicBroadcast
<1>12. BroadcastList(r, call) \in P
  BY <1>3, <1>7, <1>8, <1>10
<1>13. BroadcastDict(r, call) \in P /\ BroadcastDataclass(r, call) \in P
  BY <1>3, <1>8, <1>12 DEF BroadcastDict, BroadcastDataclass
<1>14. \A kind \in {"list", "dict", "dataclass", "object"} : BroadcastKind(r, call, kind) \in P
  BY <1>8, <1>12, <1>13 DEF BroadcastKind
<1> QED BY <1>11, <1>14 DEF call, P

-----------------------------------------------------------------------------
(* What a call begins with, and what it learns                              *)

LEMMA ScriptPlan ==
  ASSUME NEW r, NEW c, InScene(r, c)
  PROVE  Script(r, CallsOf(r)[c]) \in Plans(r, c)
<1> DEFINE call == CallsOf(r)[c]
           P == Plans(r, c)
           kind == IF r = call.peer THEN BroadcastKind(r, call, call.kind) ELSE <<>>
<1>1. /\ call.op \in {"send", "recv", "send_tensor", "recv_tensor", "broadcast"}
      /\ call.kind \in {"list", "dict", "dataclass", "object"} /\ call.peer \in Workers
  BY CallFacts
<1>2. call.op = "broadcast" => AtomicBroadcast(r, call) \o kind \in P
  <2> SUFFICES ASSUME call.op = "broadcast" PROVE AtomicBroadcast(r, call) \o kind \in P
    OBVIOUS
  <2>1. Broadcasts(r, c, call.peer)
    BY <1>1 DEF Broadcasts
  <2>2. AtomicBroadcast(r, call) \in P /\ BroadcastKind(r, call, call.kind) \in P
    BY <1>1, <2>1, BroadcastPlan
  <2> QED BY <2>2, PlanNil, PlanCat
<1>3. /\ call.op = "send" => AtomicSend(r, call) \in P
      /\ call.op = "recv" => AtomicRecv(r, call) \in P
      /\ call.op = "send_tensor" => AtomicSendTensor(r, call) \in P
      /\ call.op = "recv_tensor" => AtomicRecvTensor(r, call) \in P
  BY AtomicSendPlan, AtomicRecvPlan, AtomicSendTensorPlan, AtomicRecvTensorPlan
<1>4. Script(r, call) = CASE call.op = "send"        -> AtomicSend(r, call)
                          [] call.op = "recv"        -> AtomicRecv(r, call)
                          [] call.op = "send_tensor" -> AtomicSendTensor(r, call)
                          [] call.op = "recv_tensor" -> AtomicRecvTensor(r, call)
                          [] call.op = "broadcast"   -> AtomicBroadcast(r, call) \o kind
  BY DEF Script
<1> HIDE DEF call, P, kind
<1>5. Script(r, call) \in P
  BY <1>1, <1>2, <1>3, <1>4
<1> QED BY <1>5 DEF call, P

\* Who posted a message of a pair, and to whom.
LEMMA OtherSide ==
  ASSUME scene \in Scenes, NEW r \in Workers, NEW c, NEW p \in Workers, NEW d, NEW pg, NEW what, NEW slots,
         MayPost(p, d, pg, what, slots), NEW q \in Workers \ {r}, Inward(r, q, pg)
  PROVE  p = q /\ Posting(q, d, r) /\ Outward(q, r, pg)
<1>1. Outward(q, r, pg)
  BY LaneFacts
<1>2. pg.lane # "collective"
  BY <1>1, LaneFacts
<1>3. PICK s \in Workers \ {p} : Outward(p, s, pg) /\ Posting(p, d, s)
  BY <1>2 DEF MayPost
<1>4. p = q /\ s = r
  BY <1>1, <1>3, LaneFacts
<1> QED BY <1>1, <1>3, <1>4

\* What op takes is what was posted.
Heard(r, c, op, msg) ==
  /\ InScene(r, c) /\ op \in Takes(r, c)
  /\ InScene(msg.owner, msg.call) /\ MayPost(msg.owner, msg.call, op.pg, op.what, msg.slots)

\* The device a receiver has told is where it receives.
LEMMA DeviceTold ==
  ASSUME NEW r, NEW c, NEW op, NEW msg, Heard(r, c, op, msg), op.what = "device"
  PROVE  LET told == CallsOf(msg.owner)[msg.call]
             device == IF told.op = "recv_tensor" THEN told.tensors[1] ELSE scene.current[msg.owner]
             q == msg.owner
         IN  /\ IsSource(r, CallsOf(r)[c]) /\ Sends(r, c, q)
             /\ CallsOf(r)[c].op # "broadcast" => q = CallsOf(r)[c].peer
             /\ Placed => device = scene.current[q]
<1> DEFINE p == msg.owner
           d == msg.call
           told == CallsOf(p)[d]
           pg == op.pg
<1>1. /\ scene \in Scenes /\ r \in Workers /\ p \in Workers /\ InScene(p, d) /\ d \in 1..Len(CallsOf(p))
      /\ MayPost(p, d, pg, "device", msg.slots) /\ MayTake(r, c, pg, "device", op.slots) /\ InScene(r, c)
  BY DEF Heard, InScene, Takes
<1> HIDE DEF p, d, pg
<1>2. IsSource(r, CallsOf(r)[c]) /\ pg.lane # "collective"
  BY <1>1 DEF MayTake
<1>3. PICK q \in Workers \ {r} : Inward(r, q, pg) /\ Taking(r, c, q)
  BY <1>1, <1>2 DEF MayTake
<1>4. p = q /\ Posting(q, d, r)
  BY <1>1, <1>3, OtherSide
<1>5. CallsOf(r)[c].op # "broadcast" => q = CallsOf(r)[c].peer
  BY <1>3 DEF Taking
<1>6. Sends(r, c, q)
  BY <1>1, <1>2, <1>3, <1>5 DEF Sends, Posting
<1>7. Placed /\ told.op = "recv_tensor" => told.tensors[1] = scene.current[q]
  <2> SUFFICES ASSUME Placed, told.op = "recv_tensor" PROVE told.tensors[1] = scene.current[q]
    OBVIOUS
  <2>1. told.tensors[1] # 0
    BY <1>1 DEF MayPost
  <2>2. told.peer = r /\ Relation(q, r) = "unsure"
    BY <1>4 DEF Posting, IsSource
  <2>3. told.tensors[1] \in {0, scene.current[p]}
    BY <1>1, <1>4, <2>2 DEF Placed
  <2> QED BY <1>4, <2>1, <2>3
<1> QED BY <1>2, <1>4, <1>5, <1>6, <1>7 DEF p, d

LEMMA LearnedPlan ==
  ASSUME NEW r, NEW c, NEW op, NEW msg, Heard(r, c, op, msg), op.what # "handles"
  PROVE  Learned(r, CallsOf(r)[c], op, msg) \in Plans(r, c)
<1> DEFINE call == CallsOf(r)[c]
           told == CallsOf(msg.owner)[msg.call]
           q == call.peer
           g == Pair(r, q)
           device == IF told.op = "recv_tensor" THEN told.tensors[1] ELSE scene.current[msg.owner]
           what == op.what
           P == Plans(r, c)
           learned == Learned(r, call, op, msg)
<1>1. /\ InScene(r, c) /\ scene \in Scenes /\ r \in Workers /\ q \in Workers
      /\ call.op \in {"send", "recv", "send_tensor", "recv_tensor", "broadcast"}
      /\ call.op # "broadcast" => q \in Workers \ {r}
      /\ told.tensors \in Seq(Nat) /\ told.kind \in {"list", "dict", "dataclass", "object"}
  <2>1. InScene(r, c) /\ InScene(msg.owner, msg.call)
    BY DEF Heard
  <2> QED BY <2>1, CallFacts DEF InScene
<1>2. MayTake(r, c, op.pg, what, op.slots)
  BY DEF Heard, Takes
<1>3. /\ what \in {"type", "meta", "devices"} => ~IsSource(r, call)
      /\ what = "device" => IsSource(r, call)
      /\ what = "devices" => /\ call.op # "broadcast" => Relation(r, q) = "unsure"
                             /\ call.op = "recv_tensor" => call.tensors[1] # 0
  BY <1>2 DEF MayTake
<1>4. ~IsSource(r, call) => q \in Workers \ {r} /\ Receives(r, c, q)
  BY <1>1 DEF Receives, Taking, IsSource
<1>5. call.op = "broadcast" => Broadcasts(r, c, q)
  BY <1>1 DEF Broadcasts
<1>6. learned =
        CASE what = "type" /\ call.op = "recv"      -> RecvKind(r, call, told.kind)
          [] what = "type" /\ call.op = "broadcast" -> BroadcastKind(r, call, told.kind)
          [] what = "meta" /\ call.op = "recv" -> RecvList(g, r, told.tensors, Relation(r, q))
          [] what = "meta" /\ call.op = "broadcast" -> Payload(r, q, told.tensors, call.ring)
          [] what = "devices" /\ call.op = "recv_tensor" ->
               RecvTensorKnowing(g, r, call.tensors, told.tensors[1])
          [] what = "devices" /\ call.op # "recv_tensor" -> RecvKnowing(g, r, told.tensors)
          [] what = "device" /\ call.op = "send_tensor" -> SendTensorKnowing(g, r, call.tensors, device)
          [] what = "device" /\ call.op = "send" -> SendKnowing(g, r, call.tensors, device)
          [] what = "device" /\ call.op = "broadcast" ->
               SendKnowing(Pair(r, msg.owner), r, call.tensors, device)
          [] OTHER -> <<>>
  BY DEF Learned
<1>7. what = "type" /\ call.op = "recv" => RecvKind(r, call, told.kind) \in P
  BY <1>1, AtomicRecvPlan
<1>8. what = "type" /\ call.op = "broadcast" => BroadcastKind(r, call, told.kind) \in P
  BY <1>1, <1>5, BroadcastPlan
<1>9. what = "meta" /\ call.op = "recv" => RecvList(g, r, told.tensors, Relation(r, q)) \in P
  BY <1>1, <1>3, <1>4, RecvListPlan
<1>10. what = "meta" /\ call.op = "broadcast" => Payload(r, q, told.tensors, call.ring) \in P
  <2> SUFFICES ASSUME what = "meta", call.op = "broadcast"
               PROVE  Payload(r, q, told.tensors, call.ring) \in P
    OBVIOUS
  <2>1. Broadcasts(r, c, q) /\ r # q
    BY <1>3, <1>4, <1>5
  <2> QED BY <1>1, <2>1, PayloadPlan
<1>11. what = "devices" /\ call.op = "recv_tensor" =>
         RecvTensorKnowing(g, r, call.tensors, told.tensors[1]) \in P
  <2> SUFFICES ASSUME what = "devices", call.op = "recv_tensor"
               PROVE  RecvTensorKnowing(g, r, call.tensors, told.tensors[1]) \in P
    OBVIOUS
  <2>1. Receives(r, c, q) /\ Posting(r, c, q) /\ call.tensors[1] # 0
    BY <1>3, <1>4 DEF Posting
  <2> QED BY <2>1, RecvTensorKnowingPlan
<1>12. what = "devices" /\ call.op # "recv_tensor" => RecvKnowing(g, r, told.tensors) \in P
  <2> SUFFICES ASSUME what = "devices", call.op # "recv_tensor"
               PROVE  RecvKnowing(g, r, told.tensors) \in P
    OBVIOUS
  <2>1. Receives(r, c, q) /\ Posting(r, c, q) /\ ~IsSource(r, call)
    BY <1>3, <1>4 DEF Posting
  <2> QED BY <1>1, <2>1, RecvKnowingPlan
<1>13. what = "device" => /\ IsSource(r, call) /\ Sends(r, c, msg.owner)
                          /\ call.op # "broadcast" => msg.owner = q
                          /\ Placed => device = scene.current[msg.owner]
  BY DeviceTold
<1>14. what = "device" /\ call.op = "send_tensor" => SendTensorKnowing(g, r, call.tensors, device) \in P
  <2> HIDE DEF device
  <2> QED BY <1>13, SendTensorKnowingPlan
<1>15. what = "device" => SendKnowing(Pair(r, msg.owner), r, call.tensors, device) \in P
  <2> HIDE DEF device
  <2> QED BY <1>13, SendKnowingPlan
<1>16. what = "device" /\ call.op = "send" => SendKnowing(g, r, call.tensors, device) \in P
  <2> HIDE DEF device
  <2> QED BY <1>13, <1>15
<1>17. <<>> \in P
  BY PlanNil
<1> HIDE DEF call, told, q, g, device, what, P, learned
<1>18. learned \in P
  BY <1>6, <1>7, <1>8, <1>9, <1>10, <1>11, <1>12, <1>14, <1>15, <1>16, <1>17
<1> QED BY <1>18 DEF learned, call, P

-----------------------------------------------------------------------------
(* The scene does not change                                                *)

LEMMA SameScene ==
  ASSUME scene' = scene
  PROVE  /\ Workers' = Workers /\ Threads' = Threads /\ Placed' = Placed /\ Ordered' = Ordered
         /\ \A r : CallsOf(r)' = CallsOf(r)
         /\ \A r, q : Pair(r, q)' = Pair(r, q) /\ Relation(r, q)' = Relation(r, q)
         /\ \A r, call : QueueOf(r, call)' = QueueOf(r, call)
         /\ \A r, c : ThreadOf(r, c)' = ThreadOf(r, c)
         /\ \A r, q, pg : Inward(r, q, pg)' = Inward(r, q, pg) /\ Outward(r, q, pg)' = Outward(r, q, pg)
         /\ \A r, c, q : Posting(r, c, q)' = Posting(r, c, q) /\ Taking(r, c, q)' = Taking(r, c, q)
<1>1. Workers' = Workers /\ World' = World
  BY DEF Workers, World
<1>2. \A r : CallsOf(r)' = CallsOf(r)
  BY DEF CallsOf
<1>3. \A r, q : Pair(r, q)' = Pair(r, q) /\ Relation(r, q)' = Relation(r, q)
  BY DEF Pair, Relation, OneDevice
<1>4. \A r, call : QueueOf(r, call)' = QueueOf(r, call)
  BY <1>1, <1>3 DEF QueueOf
<1>5. Threads' = Threads
  BY <1>1, <1>2, <1>4 DEF Threads, QueueThreads
<1>6. Placed' = Placed
  BY DEF Placed, Hears, Workers, CallsOf, Relation, OneDevice
<1>7. Ordered' = Ordered
  BY <1>1, <1>2, <1>3, <1>4 DEF Ordered, Disjoint
<1>8. \A r, c : ThreadOf(r, c)' = ThreadOf(r, c)
  BY <1>2, <1>4 DEF ThreadOf
<1>9. \A r, q, pg : Inward(r, q, pg)' = Inward(r, q, pg) /\ Outward(r, q, pg)' = Outward(r, q, pg)
  BY <1>3 DEF Inward, Outward
<1>10. \A r, c, q : Posting(r, c, q)' = Posting(r, c, q) /\ Taking(r, c, q)' = Taking(r, c, q)
  BY <1>2, <1>3 DEF Posting, Taking, IsSource
<1> QED BY <1>1, <1>2, <1>3, <1>4, <1>5, <1>6, <1>7, <1>8, <1>9, <1>10

LEMMA SamePlans ==
  ASSUME scene' = scene
  PROVE  /\ \A r, pg, d : Fits(r, pg, d)' = Fits(r, pg, d)
         /\ Pgs' = Pgs
         /\ \A r, c, pg, what, slots : MayPost(r, c, pg, what, slots)' = MayPost(r, c, pg, what, slots)
         /\ \A r, c : /\ Posts(r, c)' = Posts(r, c) /\ Takes(r, c)' = Takes(r, c)
                      /\ Plans(r, c)' = Plans(r, c) /\ Copying(r, c)' = Copying(r, c)
<1>1. /\ Workers' = Workers /\ Placed' = Placed
      /\ \A r : CallsOf(r)' = CallsOf(r)
      /\ \A r, q : Relation(r, q)' = Relation(r, q)
      /\ \A r, q, pg : Inward(r, q, pg)' = Inward(r, q, pg) /\ Outward(r, q, pg)' = Outward(r, q, pg)
      /\ \A r, c, q : Posting(r, c, q)' = Posting(r, c, q) /\ Taking(r, c, q)' = Taking(r, c, q)
  BY SameScene
<1>2. \A g, src : Spread(g, src)' = Spread(g, src)
  BY <1>1 DEF Spread, OneDevice
<1>3. \A r, src : Hears(r, src)' = Hears(r, src)
  BY <1>1 DEF Hears
<1>4. \A r, g, d : FitsAll(r, g, d)' = FitsAll(r, g, d)
  BY <1>1, <1>2, <1>3 DEF FitsAll
<1>5. \A r, pg, d : FitsPair(r, pg, d)' = FitsPair(r, pg, d)
  BY <1>1 DEF FitsPair
<1>6. \A r, pg, d : Fits(r, pg, d)' = Fits(r, pg, d)
  BY <1>4, <1>5 DEF Fits
<1>7. Pgs' = Pgs
  BY <1>1 DEF Pgs
<1>8. \A r, c, slots : DeviceOf(r, c, slots)' = DeviceOf(r, c, slots)
  BY <1>1 DEF DeviceOf, IsSource
<1>9. \A r, c, pg, slots : OnDevice(r, c, pg, slots)' = OnDevice(r, c, pg, slots)
  BY <1>1, <1>6, <1>8 DEF OnDevice
<1>10. \A r, c, pg, what, slots : MayPost(r, c, pg, what, slots)' = MayPost(r, c, pg, what, slots)
  BY <1>1, <1>9 DEF MayPost
<1>11. \A r, c, pg, what, slots : MayTake(r, c, pg, what, slots)' = MayTake(r, c, pg, what, slots)
  BY <1>1, <1>9 DEF MayTake, IsSource
<1>12. \A r, c : Posts(r, c)' = Posts(r, c)
  BY <1>7, <1>10 DEF Posts
<1>13. \A r, c : Takes(r, c)' = Takes(r, c)
  BY <1>7, <1>11 DEF Takes
<1>14. \A r, c : Ops(r, c)' = Ops(r, c)
  BY <1>1, <1>12, <1>13 DEF Ops, Joins
<1>15. \A r, c : Plans(r, c)' = Plans(r, c)
  BY <1>14 DEF Plans
<1>16. \A r, c : Copying(r, c)' = Copying(r, c)
  BY <1>1, <1>14, <1>15 DEF Copying, Copies
<1> QED BY <1>6, <1>7, <1>10, <1>12, <1>13, <1>15, <1>16

-----------------------------------------------------------------------------
(* Threads and the order of calls                                           *)

\* A thread is of one worker, and a work queue is not a main thread.
LEMMA ThreadFacts ==
  /\ \A th \in Threads : th[1] \in Workers
  /\ \A r \in Workers : Main(r) \in Threads
  /\ \A r : Main(r)[1] = r
  /\ \A r, call : QueueOf(r, call)[1] = r
  /\ \A r, q, call : QueueOf(r, call) # Main(q)
  /\ \A r \in Workers : \A c \in 1..Len(CallsOf(r)) :
       QueueOf(r, CallsOf(r)[c]) \in Threads /\ ThreadOf(r, c) \in Threads
  /\ \A r, c : ThreadOf(r, c)[1] = r
<1>1. \A r : Main(r)[1] = r
  BY DEF Main
<1>2. \A r, call : QueueOf(r, call)[1] = r
  BY DEF QueueOf
<1>3. ASSUME NEW r, NEW q, NEW call PROVE QueueOf(r, call) # Main(q)
  <2>1. QueueOf(r, call)[2] # "main"
    BY DEF QueueOf
  <2>2. Main(q)[2] = "main"
    BY DEF Main
  <2> QED BY <2>1, <2>2
<1>4. \A r \in Workers : Main(r) \in Threads
  BY DEF Threads
<1>5. \A r \in Workers : \A c \in 1..Len(CallsOf(r)) : QueueOf(r, CallsOf(r)[c]) \in Threads
  BY DEF Threads, QueueThreads
<1>6. \A th \in Threads : th[1] \in Workers
  BY <1>1, <1>2 DEF Threads, QueueThreads
<1>7. \A r \in Workers : \A c \in 1..Len(CallsOf(r)) : ThreadOf(r, c) \in Threads
  BY <1>4, <1>5 DEF ThreadOf
<1>8. \A r, c : ThreadOf(r, c)[1] = r
  BY <1>1, <1>2 DEF ThreadOf
<1> QED BY <1>1, <1>2, <1>3, <1>4, <1>5, <1>6, <1>7, <1>8

\* What is known of the call a thread runs.
LEMMA RunningFacts ==
  ASSUME scene \in Scenes, ThreadInv, NEW th \in Threads, running[th] # 0
  PROVE  /\ InScene(th[1], running[th]) /\ running[th] \in Nat
         /\ running[th] \in 1..issued[th[1]] /\ ThreadOf(th[1], running[th]) = th
<1>1. th[1] \in Workers
  BY ThreadFacts
<1>2. /\ running[th] \in 1..issued[th[1]] /\ ThreadOf(th[1], running[th]) = th /\ issued[th[1]] \in Nat
      /\ issued[th[1]] <= Len(CallsOf(th[1])) /\ running[th] \in Nat
  BY <1>1 DEF ThreadInv
<1>3. Len(CallsOf(th[1])) \in Nat
  BY <1>1, SceneFacts
<1> QED BY <1>1, <1>2, <1>3 DEF InScene

\* Two calls under way at one worker are not both posting to, and not both
\* taking from, the same worker.
LEMMA Exclusive ==
  ASSUME scene \in Scenes, Ordered, ThreadInv, MainInv, NEW a \in Threads, NEW b \in Threads,
         a # b, a[1] = b[1], running[a] # 0, running[b] # 0, NEW q
  PROVE  /\ ~(Posting(a[1], running[a], q) /\ Posting(b[1], running[b], q))
         /\ ~(Taking(a[1], running[a], q) /\ Taking(b[1], running[b], q))
<1>1. SUFFICES ASSUME NEW x \in Threads, NEW y \in Threads, x # y, x[1] = y[1], running[x] # 0, running[y] # 0,
                      running[x] < running[y]
               PROVE  /\ ~(Posting(x[1], running[x], q) /\ Posting(y[1], running[y], q))
                      /\ ~(Taking(x[1], running[x], q) /\ Taking(y[1], running[y], q))
  <2>1. running[a] \in Nat /\ running[b] \in Nat /\ running[a] # running[b]
    BY RunningFacts
  <2>2. running[a] < running[b] \/ running[b] < running[a]
    BY <2>1
  <2> QED BY <1>1, <2>2
<1> DEFINE r == x[1]
           c == running[x]
           d == running[y]
           C == CallsOf(r)[c]
           D == CallsOf(r)[d]
<1>2. /\ InScene(r, c) /\ InScene(r, d) /\ c \in 1..issued[r] /\ d \in 1..issued[r] /\ c < d
      /\ ThreadOf(r, c) = x /\ ThreadOf(r, d) = y
  BY <1>1, RunningFacts
<1>3. r \in Workers
  BY ThreadFacts
<1>4. C.async
  <2> SUFFICES ASSUME ~C.async PROVE FALSE
    OBVIOUS
  <2>1. x = Main(r)
    BY <1>2 DEF ThreadOf
  <2>2. running[x] = issued[r]
    BY <1>1, <1>3, <2>1 DEF MainInv
  <2> QED BY <1>2, <2>2, <1>3 DEF ThreadInv
<1>5. x = QueueOf(r, C)
  BY <1>2, <1>4 DEF ThreadOf
<1>6. QueueOf(r, D) # QueueOf(r, C)
  <2> SUFFICES ASSUME QueueOf(r, D) = x PROVE FALSE
    BY <1>5
  <2>1. y = Main(r)
    BY <1>1, <1>2 DEF ThreadOf
  <2>2. d = issued[r] /\ ~Busy(QueueOf(r, CallsOf(r)[issued[r]]))
    BY <1>1, <1>3, <2>1 DEF MainInv
  <2> QED BY <1>1, <2>2 DEF Busy
<1>7. Disjoint(r, C, D)
  BY <1>2, <1>3, <1>4, <1>6 DEF Ordered, InScene
<1>8. C.op \in {"send", "recv", "send_tensor", "recv_tensor"} /\ D.op \in {"send", "recv", "send_tensor", "recv_tensor"}
  BY <1>2, <1>7, CallFacts DEF Disjoint
<1> HIDE DEF r, c, d
<1>9. C.peer = q /\ D.peer = q => Relation(r, q) # "unsure"
  BY <1>7 DEF Disjoint
<1>10. C.peer = q /\ D.peer = q => ~(IsSource(r, C) <=> IsSource(r, D))
  <2> SUFFICES ASSUME C.peer = q, D.peer = q, IsSource(r, C) <=> IsSource(r, D) PROVE FALSE
    OBVIOUS
  <2>1. QueueOf(r, C) = QueueOf(r, D)
    BY <1>8 DEF QueueOf, IsSource
  <2> QED BY <1>6, <2>1
<1>11. ~(Posting(r, c, q) /\ Posting(r, d, q))
  BY <1>8, <1>9, <1>10 DEF Posting
<1>12. ~(Taking(r, c, q) /\ Taking(r, d, q))
  BY <1>8, <1>9, <1>10 DEF Taking
<1> QED BY <1>1, <1>11, <1>12 DEF r, c, d

-----------------------------------------------------------------------------
(* The order of calls is kept                                               *)

\* The queue of a main thread is empty.
LEMMA MainQueue ==
  ASSUME ThreadInv, NEW r \in Workers
  PROVE  queue[Main(r)] = <<>>
<1>1. Main(r) \in Threads /\ Main(r)[1] = r /\ \A call : QueueOf(r, call) # Main(r)
  BY ThreadFacts
<1>2. queue[Main(r)] \in Seq(Nat)
  BY <1>1 DEF ThreadInv
<1> SUFFICES ASSUME queue[Main(r)] # <<>> PROVE FALSE
  OBVIOUS
<1>3. 1 \in 1..Len(queue[Main(r)])
  BY <1>2
<1>4. CallsOf(r)[queue[Main(r)][1]].async /\ ThreadOf(r, queue[Main(r)][1]) = Main(r)
  BY <1>1, <1>3 DEF ThreadInv
<1> QED BY <1>1, <1>4 DEF ThreadOf

\* Of a thread: the part of ThreadInv about it.
ThreadOrder(th) ==
  /\ running[th] # 0 => running[th] \in 1..issued[th[1]] /\ ThreadOf(th[1], running[th]) = th
  /\ \A i \in 1..Len(queue[th]) :
       /\ queue[th][i] \in 1..issued[th[1]] /\ queue[th][i] > running[th]
       /\ CallsOf(th[1])[queue[th][i]].async /\ ThreadOf(th[1], queue[th][i]) = th
       /\ \A j \in 1..(i - 1) : queue[th][j] < queue[th][i]

LEMMA ThreadInvIs ==
  ThreadInv <=> /\ issued \in [Workers -> Nat]
                /\ \A r \in Workers : issued[r] <= Len(CallsOf(r))
                /\ running \in [Threads -> Nat] /\ queue \in [Threads -> Seq(Nat)]
                /\ \A th \in Threads : ThreadOrder(th)
BY DEF ThreadInv, ThreadOrder

\* The same of the state after a step that leaves the scene alone.
LEMMA ThreadInvNext ==
  ASSUME scene' = scene, issued' \in [Workers -> Nat], \A r \in Workers : issued'[r] <= Len(CallsOf(r)),
         running' \in [Threads -> Nat], queue' \in [Threads -> Seq(Nat)],
         \A th \in Threads : ThreadOrder(th)'
  PROVE  ThreadInv'
<1>1. /\ Workers' = Workers /\ Threads' = Threads
      /\ \A r : CallsOf(r)' = CallsOf(r)
  BY SameScene
<1>2. ASSUME NEW th \in Threads
      PROVE  /\ running'[th] # 0 => running'[th] \in 1..issued'[th[1]] /\ ThreadOf(th[1], running[th])' = th
             /\ \A i \in 1..Len(queue'[th]) :
                  /\ queue'[th][i] \in 1..issued'[th[1]] /\ queue'[th][i] > running'[th]
                  /\ CallsOf(th[1])'[queue'[th][i]].async /\ ThreadOf(th[1], queue[th][i])' = th
                  /\ \A j \in 1..(i - 1) : queue'[th][j] < queue'[th][i]
  BY <1>2 DEF ThreadOrder
<1> QED BY <1>1, <1>2 DEF ThreadInv

\* A thread that a step leaves alone, or whose call returns, keeps its order.
LEMMA OrderFrame ==
  ASSUME scene \in Scenes, ThreadInv, scene' = scene, NEW th \in Threads,
         issued' \in [Workers -> Nat], issued'[th[1]] >= issued[th[1]],
         running'[th] \in {0, running[th]}, queue'[th] = queue[th]
  PROVE  ThreadOrder(th)'
<1>1. ThreadOrder(th) /\ issued[th[1]] \in Nat /\ issued'[th[1]] \in Nat
  BY ThreadFacts DEF ThreadInv, ThreadOrder
<1>0. \A i \in 1..Len(queue[th]) : queue[th][i] > running'[th]
  BY <1>1 DEF ThreadOrder
<1>2. \A r : CallsOf(r)' = CallsOf(r)
  BY SameScene
<1>3. \A r, c : ThreadOf(r, c)' = ThreadOf(r, c)
  BY SameScene
<1>4. \A n \in 1..issued[th[1]] : n \in 1..issued'[th[1]]
  BY <1>1
<1> QED BY <1>0, <1>1, <1>2, <1>3, <1>4 DEF ThreadOrder

\* A call that has a result: it is neither queued nor, unless dead, under way.
Over(x, d) ==
  /\ \A i \in 1..Len(queue[ThreadOf(x, d)]) : queue[ThreadOf(x, d)][i] # d
  /\ running[ThreadOf(x, d)] = d => todo[ThreadOf(x, d)] = Dead

LEMMA ResultInvIs ==
  ResultInv <=> \A y \in DOMAIN result : \E x \in Workers : \E d \in 1..issued[x] : y = <<x, d>> /\ Over(x, d)
BY DEF ResultInv, Over

\* Results that stay, and calls that stay over.
LEMMA ResultFrame ==
  ASSUME ResultInv, scene' = scene, result' = result, \A x \in Workers : issued[x] \in Nat,
         \A x \in Workers : issued'[x] \in Nat /\ issued'[x] >= issued[x],
         \A x \in Workers : \A d \in 1..issued[x] : Over(x, d) => Over(x, d)'
  PROVE  ResultInv'
<1>1. Workers' = Workers
  BY SameScene
<1>2. ASSUME NEW y \in DOMAIN result
      PROVE  \E x \in Workers : \E d \in 1..issued'[x] : y = <<x, d>> /\ Over(x, d)'
  <2>1. PICK x \in Workers : \E d \in 1..issued[x] : y = <<x, d>> /\ Over(x, d)
    BY ResultInvIs
  <2>2. PICK d \in 1..issued[x] : y = <<x, d>> /\ Over(x, d)
    BY <2>1
  <2>3. d \in 1..issued'[x]
    BY <2>2
  <2>4. Over(x, d)'
    BY <2>2
  <2> QED BY <2>2, <2>3, <2>4
<1>3. (ResultInv <=> \A y \in DOMAIN result : \E x \in Workers : \E d \in 1..issued[x] : y = <<x, d>> /\ Over(x, d))'
  BY ResultInvIs, PTL
<1> QED BY <1>1, <1>2, <1>3

LEMMA EnqueueOrder ==
  ASSUME scene \in Scenes, ThreadInv, MainInv, ResultInv, NEW r \in Workers, Enqueue(r)
  PROVE  ThreadInv' /\ MainInv' /\ ResultInv'
<1> DEFINE c == issued[r] + 1
           Q == QueueOf(r, CallsOf(r)[c])
<1>1. /\ scene' = scene /\ running' = running /\ todo' = todo /\ result' = result
      /\ running[Main(r)] = 0 /\ c <= Len(CallsOf(r)) /\ CallsOf(r)[c].async
      /\ issued' = [issued EXCEPT ![r] = c] /\ queue' = [queue EXCEPT ![Q] = Append(@, c)]
  BY DEF Enqueue
<1>2. /\ Workers' = Workers /\ Threads' = Threads
      /\ \A x : CallsOf(x)' = CallsOf(x)
      /\ \A x, d : ThreadOf(x, d)' = ThreadOf(x, d)
      /\ \A x, call : QueueOf(x, call)' = QueueOf(x, call)
  BY <1>1, SameScene
<1>3. /\ issued \in [Workers -> Nat] /\ \A x \in Workers : issued[x] <= Len(CallsOf(x))
      /\ running \in [Threads -> Nat] /\ queue \in [Threads -> Seq(Nat)]
      /\ \A th \in Threads : ThreadOrder(th)
  BY ThreadInvIs
<1>4. c \in Nat /\ c > issued[r] /\ c \in 1..Len(CallsOf(r))
  BY <1>1, <1>3, SceneFacts
<1>5. Q \in Threads /\ Q[1] = r /\ ThreadOf(r, c) = Q
  BY <1>1, <1>4, ThreadFacts DEF ThreadOf
<1> HIDE DEF c, Q
<1>6. issued' \in [Workers -> Nat] /\ \A x \in Workers : issued'[x] >= issued[x] /\ issued'[x] <= Len(CallsOf(x)')
  BY <1>1, <1>2, <1>3, <1>4
<1>7. queue' \in [Threads -> Seq(Nat)]
  <2>1. queue[Q] \in Seq(Nat)
    BY <1>3, <1>5
  <2>2. Append(queue[Q], c) \in Seq(Nat)
    BY <1>4, <2>1
  <2> QED BY <1>1, <1>3, <2>2
<1>8. ASSUME NEW th \in Threads PROVE ThreadOrder(th)'
  <2>1. th[1] \in Workers
    BY ThreadFacts
  <2>2. CASE th # Q
    <3>1. queue'[th] = queue[th] /\ running'[th] = running[th]
      BY <1>1, <2>2
    <3> QED BY <1>1, <1>6, <2>1, <3>1, OrderFrame
  <2>3. CASE th = Q
    <3>1. /\ queue[th] \in Seq(Nat) /\ ThreadOrder(th) /\ running[th] \in Nat
          /\ issued[r] \in Nat /\ issued'[r] = c
      BY <1>1, <1>3
    <3>2. /\ queue'[th] = Append(queue[th], c) /\ Len(queue'[th]) = Len(queue[th]) + 1
          /\ \A i \in 1..Len(queue[th]) : queue'[th][i] = queue[th][i]
          /\ queue'[th][Len(queue[th]) + 1] = c
      BY <1>1, <1>3, <1>5, <2>3, <3>1
    <3>3. running[th] < c
      BY <1>4, <1>5, <2>3, <3>1 DEF ThreadOrder
    <3>4. running'[th] # 0 => running'[th] \in 1..issued'[r] /\ ThreadOf(r, running'[th]) = th
      BY <1>1, <1>4, <1>5, <2>3, <3>1 DEF ThreadOrder
    <3>5. ASSUME NEW i \in 1..Len(queue'[th])
          PROVE  /\ queue'[th][i] \in 1..issued'[r] /\ queue'[th][i] > running'[th]
                 /\ CallsOf(r)[queue'[th][i]].async /\ ThreadOf(r, queue'[th][i]) = th
                 /\ \A j \in 1..(i - 1) : queue'[th][j] < queue'[th][i]
      <4>1. CASE i \in 1..Len(queue[th])
        <5>1. /\ queue[th][i] \in 1..issued[r] /\ queue[th][i] > running[th]
              /\ CallsOf(r)[queue[th][i]].async /\ ThreadOf(r, queue[th][i]) = th
              /\ \A j \in 1..(i - 1) : queue[th][j] < queue[th][i]
          BY <1>5, <2>3, <3>1, <4>1 DEF ThreadOrder
        <5>2. \A j \in 1..(i - 1) : j \in 1..Len(queue[th])
          BY <3>1, <4>1
        <5>3. queue'[th][i] = queue[th][i] /\ \A j \in 1..(i - 1) : queue'[th][j] = queue[th][j]
          BY <3>2, <4>1, <5>2
        <5>4. queue[th][i] \in 1..issued'[r]
          BY <1>4, <3>1, <5>1
        <5>5. running'[th] = running[th]
          BY <1>1
        <5> QED BY <5>1, <5>3, <5>4, <5>5
      <4>2. CASE i = Len(queue[th]) + 1
        <5>1. \A j \in 1..(i - 1) : j \in 1..Len(queue[th])
          BY <3>1, <4>2
        <5>2. \A j \in 1..Len(queue[th]) : queue[th][j] \in 1..issued[r]
          BY <1>5, <2>3, <3>1 DEF ThreadOrder
        <5>3. \A j \in 1..(i - 1) : queue'[th][j] < c
          BY <1>4, <3>1, <3>2, <5>1, <5>2, SMTT(30)
        <5> QED BY <1>1, <1>4, <1>5, <2>3, <3>1, <3>2, <3>3, <4>2, <5>3
      <4>3. i \in 1..Len(queue[th]) \/ i = Len(queue[th]) + 1
        BY <3>1, <3>2
      <4> QED BY <4>1, <4>2, <4>3
    <3> QED BY <1>2, <1>5, <2>3, <3>4, <3>5 DEF ThreadOrder
  <2> QED BY <2>2, <2>3
<1>9. ThreadInv'
  BY <1>1, <1>2, <1>3, <1>6, <1>7, <1>8, ThreadInvNext
<1>10. MainInv'
  <2> SUFFICES ASSUME NEW x \in Workers, running'[Main(x)'] # 0
               PROVE  running'[Main(x)'] = issued'[x] /\ ~Busy(QueueOf(x, CallsOf(x)[issued[x]]))'
    BY <1>2 DEF MainInv
  <2>1. Main(x)' = Main(x)
    BY DEF Main
  <2>2. x # r
    BY <1>1, <2>1
  <2>3. issued'[x] = issued[x]
    BY <1>1, <1>3, <2>2
  <2>4. running[Main(x)] = issued[x] /\ ~Busy(QueueOf(x, CallsOf(x)[issued[x]]))
    BY <1>1, <2>1 DEF MainInv
  <2>5. QueueOf(x, CallsOf(x)[issued[x]])' = QueueOf(x, CallsOf(x)[issued[x]])
    BY <1>2, <2>3
  <2>6. QueueOf(x, CallsOf(x)[issued[x]])[1] = x
    BY ThreadFacts
  <2>7. queue'[QueueOf(x, CallsOf(x)[issued[x]])] = queue[QueueOf(x, CallsOf(x)[issued[x]])]
    BY <1>1, <1>3, <1>5, <2>2, <2>6
  <2> QED BY <1>1, <2>1, <2>3, <2>4, <2>5, <2>7 DEF Busy
<1>11. ResultInv'
  <2>1. \A x \in Workers : issued[x] \in Nat /\ issued'[x] \in Nat /\ issued'[x] >= issued[x]
    BY <1>3, <1>6
  <2>2. ASSUME NEW x \in Workers, NEW d \in 1..issued[x], Over(x, d) PROVE Over(x, d)'
    <3> DEFINE T == ThreadOf(x, d)
    <3>1. (\A i \in 1..Len(queue[T]) : queue[T][i] # d) /\ (running[T] = d => todo[T] = Dead)
      BY <2>2 DEF Over
    <3>2. \A i \in 1..Len(queue'[T]) : queue'[T][i] # d
      <4>1. CASE T # Q
        <5>1. queue'[T] = queue[T]
          <6> HIDE DEF T
          <6> QED BY <1>1, <1>3, <1>5, <4>1
        <5> QED BY <3>1, <5>1
      <4>2. CASE T = Q
        <5>1. x = r
          BY <1>5, <4>2, ThreadFacts
        <5>2. d # c
          BY <1>3, <1>4, <5>1
        <5>3. queue[Q] \in Seq(Nat) /\ queue'[Q] = Append(queue[Q], c)
          BY <1>1, <1>3, <1>5
        <5>4. ASSUME NEW i \in 1..Len(queue'[Q]) PROVE queue'[Q][i] # d
          <6>1. i \in 1..Len(queue[Q]) \/ queue'[Q][i] = c
            BY <5>3
          <6>2. i \in 1..Len(queue[Q]) => queue'[Q][i] = queue[Q][i]
            BY <5>3
          <6> QED BY <3>1, <4>2, <5>2, <6>1, <6>2
        <5> QED BY <4>2, <5>4
      <4> QED BY <4>1, <4>2
    <3>3. ThreadOf(x, d)' = T /\ running' = running /\ todo' = todo
      BY <1>1, <1>2
    <3> HIDE DEF T
    <3> QED BY <3>1, <3>2, <3>3 DEF Over, Dead
  <2> QED BY <1>1, <2>1, <2>2, ResultFrame
<1> QED BY <1>9, <1>10, <1>11

LEMMA CallSyncOrder ==
  ASSUME scene \in Scenes, ThreadInv, MainInv, ResultInv, NEW r \in Workers, CallSync(r),
         DOMAIN todo = Threads
  PROVE  ThreadInv' /\ MainInv' /\ ResultInv'
<1> DEFINE c == issued[r] + 1
           Q == QueueOf(r, CallsOf(r)[c])
           M == Main(r)
<1>1. /\ scene' = scene /\ queue' = queue /\ result' = result
      /\ running[M] = 0 /\ c <= Len(CallsOf(r)) /\ ~CallsOf(r)[c].async /\ ~Busy(Q)
      /\ issued' = [issued EXCEPT ![r] = c] /\ running' = [running EXCEPT ![M] = c]
      /\ todo' = [todo EXCEPT ![M] = Script(M[1], CallsOf(M[1])[c])]
  BY DEF CallSync, Begin
<1>2. /\ Workers' = Workers /\ Threads' = Threads
      /\ \A x : CallsOf(x)' = CallsOf(x)
      /\ \A x, d : ThreadOf(x, d)' = ThreadOf(x, d)
      /\ \A x, call : QueueOf(x, call)' = QueueOf(x, call)
  BY <1>1, SameScene
<1>3. /\ issued \in [Workers -> Nat] /\ \A x \in Workers : issued[x] <= Len(CallsOf(x))
      /\ running \in [Threads -> Nat] /\ queue \in [Threads -> Seq(Nat)]
      /\ \A th \in Threads : ThreadOrder(th)
  BY ThreadInvIs
<1>4. c \in Nat /\ c > issued[r] /\ c \in 1..Len(CallsOf(r))
  BY <1>1, <1>3, SceneFacts
<1>5. /\ M \in Threads /\ M[1] = r /\ ThreadOf(r, c) = M /\ queue[M] = <<>>
      /\ \A x, call : QueueOf(x, call) # M
  BY <1>1, <1>4, ThreadFacts, MainQueue DEF ThreadOf
<1>6. \A x \in Workers : Main(x) = M => x = r
  BY ThreadFacts
<1> HIDE DEF c, Q, M
<1>7. issued' \in [Workers -> Nat] /\ \A x \in Workers : issued'[x] >= issued[x] /\ issued'[x] <= Len(CallsOf(x)')
  BY <1>1, <1>2, <1>3, <1>4
<1>8. running' \in [Threads -> Nat]
  BY <1>1, <1>3, <1>4
<1>9. ASSUME NEW th \in Threads PROVE ThreadOrder(th)'
  <2>1. th[1] \in Workers
    BY ThreadFacts
  <2>2. CASE th # M
    <3>1. queue'[th] = queue[th] /\ running'[th] = running[th]
      BY <1>1, <1>3, <2>2
    <3> QED BY <1>1, <1>7, <2>1, <3>1, OrderFrame
  <2>3. CASE th = M
    <3>1. running'[th] = c /\ issued'[r] = c /\ Len(queue'[th]) = 0
      BY <1>1, <1>3, <1>5, <2>3
    <3>2. c \in 1..c
      BY <1>3, <1>4
    <3> QED BY <1>2, <1>5, <2>3, <3>1, <3>2 DEF ThreadOrder
  <2> QED BY <2>2, <2>3
<1>10. ThreadInv'
  BY <1>1, <1>2, <1>3, <1>7, <1>8, <1>9, ThreadInvNext
<1>11. MainInv'
  <2> SUFFICES ASSUME NEW x \in Workers, running'[Main(x)'] # 0
               PROVE  running'[Main(x)'] = issued'[x] /\ ~Busy(QueueOf(x, CallsOf(x)[issued[x]]))'
    BY <1>2 DEF MainInv
  <2>1. Main(x)' = Main(x)
    BY DEF Main
  <2>2. CASE x = r
    <3>1. Main(r) = M /\ running'[M] = c /\ issued'[r] = c
      BY <1>1, <1>3, <1>5 DEF M
    <3>2. QueueOf(x, CallsOf(x)[issued[x]])' = Q
      BY <1>2, <2>2, <3>1 DEF Q
    <3>3. Q # M
      BY <1>5 DEF Q
    <3>4. ~(running'[Q] # 0 \/ queue'[Q] # <<>>)
      BY <1>1, <1>3, <3>3 DEF Busy
    <3> QED BY <2>1, <2>2, <3>1, <3>2, <3>4 DEF Busy
  <2>3. CASE x # r
    <3>1. issued'[x] = issued[x] /\ running'[Main(x)] = running[Main(x)]
      BY <1>1, <1>3, <1>6, <2>3
    <3>2. running[Main(x)] = issued[x] /\ ~Busy(QueueOf(x, CallsOf(x)[issued[x]]))
      BY <2>1, <3>1 DEF MainInv
    <3>3. QueueOf(x, CallsOf(x)[issued[x]])' = QueueOf(x, CallsOf(x)[issued[x]])
      BY <1>2, <3>1
    <3>4. running'[QueueOf(x, CallsOf(x)[issued[x]])] = running[QueueOf(x, CallsOf(x)[issued[x]])]
      BY <1>1, <1>3, <1>5
    <3> QED BY <1>1, <2>1, <3>1, <3>2, <3>3, <3>4 DEF Busy
  <2> QED BY <2>2, <2>3
<1>12. ResultInv'
  <2>1. ASSUME NEW x \in Workers, NEW d \in 1..issued[x], Over(x, d) PROVE Over(x, d)'
    <3> DEFINE T == ThreadOf(x, d)
    <3>0. T[1] = x
      BY ThreadFacts
    <3>1. CASE T # M
      <4>1. running'[T] = running[T] /\ todo'[T] = todo[T]
        BY <1>1, <1>3, <3>1
      <4> QED BY <1>1, <1>2, <2>1, <4>1 DEF Over, Dead
    <3>2. CASE T = M
      <4>1. x = r
        BY <1>5, <3>0, <3>2
      <4>2. running'[T] = c /\ c # d
        BY <1>1, <1>3, <1>4, <1>5, <3>2, <4>1
      <4> QED BY <1>1, <1>2, <2>1, <4>2 DEF Over, Dead
    <3> QED BY <3>1, <3>2
  <2>2. \A x \in Workers : issued[x] \in Nat /\ issued'[x] \in Nat
    BY <1>3, <1>7
  <2> QED BY <1>1, <1>7, <2>1, <2>2, ResultFrame
<1> QED BY <1>10, <1>11, <1>12

LEMMA RunQueueOrder ==
  ASSUME scene \in Scenes, ThreadInv, MainInv, ResultInv, NEW a \in Threads, RunQueue(a),
         DOMAIN todo = Threads
  PROVE  /\ ThreadInv' /\ MainInv' /\ ResultInv'
         /\ Head(queue[a]) \in 1..issued[a[1]]
<1> DEFINE c == Head(queue[a])
           r == a[1]
<1>1. /\ scene' = scene /\ issued' = issued /\ result' = result
      /\ running[a] = 0 /\ queue[a] # <<>>
      /\ queue' = [queue EXCEPT ![a] = Tail(@)] /\ running' = [running EXCEPT ![a] = c]
      /\ todo' = [todo EXCEPT ![a] = Script(a[1], CallsOf(a[1])[c])]
  BY DEF RunQueue, Begin
<1>2. /\ Workers' = Workers /\ Threads' = Threads
      /\ \A x : CallsOf(x)' = CallsOf(x)
      /\ \A x, d : ThreadOf(x, d)' = ThreadOf(x, d)
      /\ \A x, call : QueueOf(x, call)' = QueueOf(x, call)
  BY <1>1, SameScene
<1>3. /\ issued \in [Workers -> Nat] /\ \A x \in Workers : issued[x] <= Len(CallsOf(x))
      /\ running \in [Threads -> Nat] /\ queue \in [Threads -> Seq(Nat)]
      /\ \A th \in Threads : ThreadOrder(th)
  BY ThreadInvIs
<1>4. /\ queue[a] \in Seq(Nat) /\ Len(queue[a]) >= 1 /\ c = queue[a][1] /\ c \in Nat
      /\ Tail(queue[a]) \in Seq(Nat) /\ Len(Tail(queue[a])) = Len(queue[a]) - 1
      /\ \A i \in 1..Len(Tail(queue[a])) : Tail(queue[a])[i] = queue[a][i + 1]
  BY <1>1, <1>3
<1>5. r \in Workers /\ \A x \in Workers : a # Main(x)
  BY <1>1, ThreadFacts, MainQueue
<1> HIDE DEF c, r
<1>6. c \in 1..issued[r] /\ ThreadOf(r, c) = a /\ CallsOf(r)[c].async
  <2>1. 1 \in 1..Len(queue[a])
    BY <1>4
  <2> QED BY <1>3, <1>4, <2>1 DEF ThreadOrder, r
<1>7. running' \in [Threads -> Nat] /\ queue' \in [Threads -> Seq(Nat)]
  BY <1>1, <1>3, <1>4
<1>8. ASSUME NEW th \in Threads PROVE ThreadOrder(th)'
  <2>1. th[1] \in Workers
    BY ThreadFacts
  <2>2. CASE th # a
    <3>1. queue'[th] = queue[th] /\ running'[th] = running[th] /\ issued[th[1]] \in Nat
      BY <1>1, <1>3, <2>1, <2>2
    <3>2. issued'[th[1]] >= issued[th[1]] /\ issued' \in [Workers -> Nat]
      BY <1>1, <1>3, <3>1
    <3> QED BY <1>1, <3>1, <3>2, OrderFrame
  <2>3. CASE th = a
    <3>1. running'[th] = c /\ queue'[th] = Tail(queue[a])
      BY <1>1, <1>3, <2>3
    <3>2. ASSUME NEW i \in 1..Len(Tail(queue[a]))
          PROVE  /\ queue[a][i + 1] \in 1..issued[r] /\ queue[a][i + 1] > c
                 /\ CallsOf(r)[queue[a][i + 1]].async /\ ThreadOf(r, queue[a][i + 1]) = a
                 /\ \A j \in 1..(i - 1) : queue[a][j + 1] < queue[a][i + 1]
      <4>1. i + 1 \in 1..Len(queue[a]) /\ 1 \in 1..((i + 1) - 1) /\ \A j \in 1..(i - 1) : j + 1 \in 1..((i + 1) - 1)
        BY <1>4
      <4>2. /\ queue[a][i + 1] \in 1..issued[r]
            /\ CallsOf(r)[queue[a][i + 1]].async /\ ThreadOf(r, queue[a][i + 1]) = a
            /\ \A j \in 1..((i + 1) - 1) : queue[a][j] < queue[a][i + 1]
        BY <1>3, <4>1 DEF ThreadOrder, r
      <4>3. queue[a][1] < queue[a][i + 1]
        BY <4>1, <4>2
      <4>4. \A j \in 1..(i - 1) : queue[a][j + 1] < queue[a][i + 1]
        BY <4>1, <4>2
      <4> QED BY <1>3, <1>4, <1>5, <4>2, <4>3, <4>4
    <3>3. ASSUME NEW i \in 1..Len(Tail(queue[a]))
          PROVE  /\ Tail(queue[a])[i] = queue[a][i + 1]
                 /\ \A j \in 1..(i - 1) : Tail(queue[a])[j] = queue[a][j + 1]
      <4>1. \A j \in 1..(i - 1) : j \in 1..Len(Tail(queue[a]))
        BY <1>4
      <4> QED BY <1>4, <4>1
    <3>4. ASSUME NEW i \in 1..Len(Tail(queue[a]))
          PROVE  /\ Tail(queue[a])[i] \in 1..issued[r] /\ Tail(queue[a])[i] > c
                 /\ CallsOf(r)[Tail(queue[a])[i]].async /\ ThreadOf(r, Tail(queue[a])[i]) = a
                 /\ \A j \in 1..(i - 1) : Tail(queue[a])[j] < Tail(queue[a])[i]
      BY <3>2, <3>3
    <3> QED BY <1>1, <1>2, <1>6, <2>3, <3>1, <3>4 DEF ThreadOrder, r
  <2> QED BY <2>2, <2>3
<1>9. ThreadInv'
  BY <1>1, <1>2, <1>3, <1>7, <1>8, ThreadInvNext
<1>10. MainInv'
  <2> SUFFICES ASSUME NEW x \in Workers, running'[Main(x)'] # 0
               PROVE  running'[Main(x)'] = issued'[x] /\ ~Busy(QueueOf(x, CallsOf(x)[issued[x]]))'
    BY <1>2 DEF MainInv
  <2>1. Main(x)' = Main(x)
    BY DEF Main
  <2>2. running'[Main(x)] = running[Main(x)]
    BY <1>1, <1>3, <1>5
  <2>3. running[Main(x)] = issued[x] /\ ~Busy(QueueOf(x, CallsOf(x)[issued[x]]))
    BY <2>1, <2>2 DEF MainInv
  <2>4. QueueOf(x, CallsOf(x)[issued[x]])' = QueueOf(x, CallsOf(x)[issued[x]])
    BY <1>1, <1>2
  <2>5. a # QueueOf(x, CallsOf(x)[issued[x]])
    BY <1>1, <2>3 DEF Busy
  <2>6. /\ running'[QueueOf(x, CallsOf(x)[issued[x]])] = running[QueueOf(x, CallsOf(x)[issued[x]])]
        /\ queue'[QueueOf(x, CallsOf(x)[issued[x]])] = queue[QueueOf(x, CallsOf(x)[issued[x]])]
    BY <1>1, <1>3, <2>5
  <2> QED BY <1>1, <2>1, <2>2, <2>3, <2>4, <2>6 DEF Busy
<1>11. ResultInv'
  <2>1. ASSUME NEW x \in Workers, NEW d \in 1..issued[x], Over(x, d) PROVE Over(x, d)'
    <3> DEFINE T == ThreadOf(x, d)
    <3>1. CASE T # a
      <4>1. running'[T] = running[T] /\ todo'[T] = todo[T] /\ queue'[T] = queue[T]
        BY <1>1, <1>3, <3>1
      <4> QED BY <1>1, <1>2, <2>1, <4>1 DEF Over, Dead
    <3>2. CASE T = a
      <4>1. 1 \in 1..Len(queue[a]) /\ \A i \in 1..Len(queue[a]) : queue[a][i] # d
        BY <1>4, <2>1, <3>2 DEF Over
      <4>2. running'[T] = c /\ c # d /\ queue'[T] = Tail(queue[a])
        BY <1>1, <1>3, <1>4, <3>2, <4>1
      <4>3. \A i \in 1..Len(Tail(queue[a])) : i + 1 \in 1..Len(queue[a])
        BY <1>4
      <4>4. \A i \in 1..Len(Tail(queue[a])) : Tail(queue[a])[i] # d
        BY <1>4, <4>1, <4>3
      <4> QED BY <1>1, <1>2, <4>2, <4>4 DEF Over
    <3> QED BY <3>1, <3>2
  <2>2. \A x \in Workers : issued[x] \in Nat /\ issued'[x] \in Nat /\ issued'[x] >= issued[x]
    BY <1>1, <1>3
  <2> QED BY <1>1, <2>1, <2>2, ResultFrame
<1> QED BY <1>6, <1>9, <1>10, <1>11 DEF c, r

LEMMA ReturnOrder ==
  ASSUME scene \in Scenes, ThreadInv, MainInv, ResultInv, NEW a \in Threads, Return(a)
  PROVE  ThreadInv' /\ MainInv' /\ ResultInv'
<1> DEFINE r == a[1]
           c == running[a]
<1>1. /\ scene' = scene /\ issued' = issued /\ queue' = queue /\ todo' = todo
      /\ c # 0 /\ running' = [running EXCEPT ![a] = 0]
      /\ DOMAIN result' = DOMAIN result \union {<<r, c>>}
  BY DEF Return, Record
<1>2. /\ Workers' = Workers /\ Threads' = Threads
      /\ \A x : CallsOf(x)' = CallsOf(x)
      /\ \A x, d : ThreadOf(x, d)' = ThreadOf(x, d)
      /\ \A x, call : QueueOf(x, call)' = QueueOf(x, call)
  BY <1>1, SameScene
<1>3. /\ issued \in [Workers -> Nat] /\ \A x \in Workers : issued[x] <= Len(CallsOf(x))
      /\ running \in [Threads -> Nat] /\ queue \in [Threads -> Seq(Nat)]
      /\ \A th \in Threads : ThreadOrder(th)
  BY ThreadInvIs
<1>4. c \in 1..issued[r] /\ ThreadOf(r, c) = a /\ r \in Workers
  BY <1>1, <1>3, ThreadFacts DEF ThreadOrder
<1> HIDE DEF c, r
<1>5. running' \in [Threads -> Nat]
  BY <1>1, <1>3
<1>6. ASSUME NEW th \in Threads PROVE ThreadOrder(th)'
  <2>1. th[1] \in Workers
    BY ThreadFacts
  <2>2. queue'[th] = queue[th] /\ running'[th] \in {0, running[th]} /\ issued[th[1]] \in Nat
    BY <1>1, <1>3, <2>1
  <2>3. issued'[th[1]] >= issued[th[1]] /\ issued' \in [Workers -> Nat]
    BY <1>1, <1>3, <2>2
  <2> QED BY <1>1, <2>2, <2>3, OrderFrame
<1>7. ThreadInv'
  BY <1>1, <1>2, <1>3, <1>5, <1>6, ThreadInvNext
<1>8. MainInv'
  <2> SUFFICES ASSUME NEW x \in Workers, running'[Main(x)'] # 0
               PROVE  running'[Main(x)'] = issued'[x] /\ ~Busy(QueueOf(x, CallsOf(x)[issued[x]]))'
    BY <1>2 DEF MainInv
  <2>1. Main(x)' = Main(x) /\ Main(x) \in Threads
    BY ThreadFacts DEF Main
  <2>2. running'[Main(x)] = running[Main(x)]
    BY <1>1, <1>3, <2>1
  <2>3. running[Main(x)] = issued[x] /\ ~Busy(QueueOf(x, CallsOf(x)[issued[x]]))
    BY <2>1, <2>2 DEF MainInv
  <2>4. QueueOf(x, CallsOf(x)[issued[x]])' = QueueOf(x, CallsOf(x)[issued[x]])
    BY <1>1, <1>2
  <2>5. a # QueueOf(x, CallsOf(x)[issued[x]])
    BY <1>1, <2>3 DEF Busy, c
  <2>6. running'[QueueOf(x, CallsOf(x)[issued[x]])] = running[QueueOf(x, CallsOf(x)[issued[x]])]
    BY <1>1, <1>3, <2>5
  <2> QED BY <1>1, <2>1, <2>2, <2>3, <2>4, <2>6 DEF Busy
<1>9. ASSUME NEW x \in Workers, NEW d \in 1..issued[x], Over(x, d) \/ (x = r /\ d = c) PROVE Over(x, d)'
  <2> DEFINE T == ThreadOf(x, d)
  <2>1. T \in Threads
    <3>1. d \in 1..Len(CallsOf(x))
      <4>1. Len(CallsOf(x)) \in Nat /\ issued[x] \in Nat /\ issued[x] <= Len(CallsOf(x))
        BY <1>3, SceneFacts
      <4> QED BY <4>1
    <3> QED BY <3>1, ThreadFacts
  <2>2. \A i \in 1..Len(queue[T]) : queue[T][i] # d
    <3>1. CASE Over(x, d)
      BY <3>1 DEF Over
    <3>2. CASE x = r /\ d = c
      <4>1. T = a
        BY <1>4, <3>2
      <4>2. \A i \in 1..Len(queue[a]) : queue[a][i] > c /\ queue[a][i] \in Nat
        BY <1>3 DEF ThreadOrder, c
      <4>3. c \in Nat
        BY <1>3 DEF c
      <4> QED BY <3>2, <4>1, <4>2, <4>3
    <3> QED BY <1>9, <3>1, <3>2
  <2>3. running'[T] = d => running[T] = d /\ T # a
    <3>1. d # 0
      BY <1>3
    <3> QED BY <1>1, <1>3, <2>1, <3>1
  <2>4. running'[T] = d => todo[T] = Dead
    <3>1. CASE Over(x, d)
      BY <2>3, <3>1 DEF Over
    <3>2. CASE x = r /\ d = c
      BY <1>4, <2>3, <3>2
    <3> QED BY <1>9, <3>1, <3>2
  <2> QED BY <1>1, <1>2, <2>2, <2>4 DEF Over, Dead
<1>10. ResultInv'
  <2>1. ASSUME NEW y \in DOMAIN result' PROVE \E x \in Workers : \E d \in 1..issued[x] : y = <<x, d>> /\ Over(x, d)'
    <3>1. CASE y \in DOMAIN result
      <4>1. PICK x \in Workers : \E d \in 1..issued[x] : y = <<x, d>> /\ Over(x, d)
        BY <3>1, ResultInvIs
      <4>2. PICK d \in 1..issued[x] : y = <<x, d>> /\ Over(x, d)
        BY <4>1
      <4>3. Over(x, d)'
        BY <1>9, <4>2
      <4> QED BY <4>2, <4>3
    <3>2. CASE y = <<r, c>>
      <4>1. PICK x \in Workers : x = r
        BY <1>4
      <4>2. PICK d \in 1..issued[x] : d = c
        BY <1>4, <4>1
      <4>3. Over(x, d)'
        BY <1>9, <4>1, <4>2
      <4> QED BY <3>2, <4>1, <4>2, <4>3
    <3> QED BY <1>1, <3>1, <3>2
  <2>2. (ResultInv <=> \A y \in DOMAIN result : \E x \in Workers : \E d \in 1..issued[x] : y = <<x, d>> /\ Over(x, d))'
    BY ResultInvIs, PTL
  <2> QED BY <1>1, <1>2, <2>1, <2>2
<1> QED BY <1>7, <1>8, <1>10

\* An operation of a call that is not dead, or its exception.
LEMMA OperationOrder ==
  ASSUME scene \in Scenes, ThreadInv, MainInv, ResultInv, NEW a \in Threads, DOMAIN todo = Threads,
         UNCHANGED <<scene, issued, queue, running>>, running[a] # 0, NEW s,
         todo' = [todo EXCEPT ![a] = s],
         \/ result' = result /\ todo[a] # Dead
         \/ DOMAIN result' = DOMAIN result \union {<<a[1], running[a]>>} /\ s = Dead
  PROVE  ThreadInv' /\ MainInv' /\ ResultInv'
<1> DEFINE r == a[1]
           c == running[a]
<1>1. /\ Workers' = Workers /\ Threads' = Threads
      /\ \A x : CallsOf(x)' = CallsOf(x)
      /\ \A x, d : ThreadOf(x, d)' = ThreadOf(x, d)
      /\ \A x, call : QueueOf(x, call)' = QueueOf(x, call)
  BY SameScene
<1>2. /\ issued \in [Workers -> Nat] /\ \A x \in Workers : issued[x] <= Len(CallsOf(x))
      /\ running \in [Threads -> Nat] /\ queue \in [Threads -> Seq(Nat)]
      /\ \A th \in Threads : ThreadOrder(th)
  BY ThreadInvIs
<1>3. c \in 1..issued[r] /\ ThreadOf(r, c) = a /\ r \in Workers
  BY <1>2, ThreadFacts DEF ThreadOrder
<1> HIDE DEF c, r
<1>4. ThreadInv'
  <2>1. \A th : ThreadOrder(th)' <=> ThreadOrder(th)
    BY <1>1 DEF ThreadOrder
  <2> QED BY <1>1, <1>2, <2>1, ThreadInvNext
<1>5. MainInv'
  <2> SUFFICES ASSUME NEW x \in Workers, running[Main(x)] # 0
               PROVE  running[Main(x)] = issued[x] /\ ~Busy(QueueOf(x, CallsOf(x)[issued[x]]))'
    BY <1>1 DEF MainInv, Main
  <2>1. running[Main(x)] = issued[x] /\ ~Busy(QueueOf(x, CallsOf(x)[issued[x]]))
    BY DEF MainInv
  <2> QED BY <1>1, <2>1 DEF Busy
<1>6. ASSUME NEW x \in Workers, NEW d \in 1..issued[x], Over(x, d), s = Dead \/ todo[a] # Dead PROVE Over(x, d)'
  <2> DEFINE T == ThreadOf(x, d)
  <2>1. running[T] = d => todo'[T] = Dead
    <3>1. running[T] = d => todo[T] = Dead
      BY <1>6 DEF Over
    <3> QED BY <1>6, <3>1
  <2> QED BY <1>1, <1>6, <2>1 DEF Over, Dead
<1>7. CASE result' = result /\ todo[a] # Dead
  <2>1. \A x \in Workers : issued[x] \in Nat /\ issued'[x] \in Nat /\ issued'[x] >= issued[x]
    BY <1>2
  <2>2. ResultInv'
    BY <1>6, <1>7, <2>1, ResultFrame
  <2> QED BY <1>4, <1>5, <2>2
<1>8. CASE DOMAIN result' = DOMAIN result \union {<<r, c>>} /\ s = Dead
  <2> PICK x0 \in Workers : x0 = r
    BY <1>3
  <2> PICK d0 \in 1..issued[x0] : d0 = c
    BY <1>3
  <2>1. Over(x0, d0)'
    <3>1. \A i \in 1..Len(queue[a]) : queue[a][i] > c /\ queue[a][i] \in Nat
      BY <1>2 DEF ThreadOrder, c
    <3>2. c \in Nat /\ todo'[a] = Dead
      BY <1>2, <1>8 DEF c
    <3>3. \A i \in 1..Len(queue[a]) : queue[a][i] # c
      BY <3>1, <3>2
    <3>4. ThreadOf(x0, d0)' = a /\ queue' = queue /\ \A i \in 1..Len(queue[a]) : queue[a][i] # d0
      BY <1>1, <1>3, <3>3
    <3> QED BY <3>2, <3>4 DEF Over, Dead
  <2>2. ASSUME NEW y \in DOMAIN result' PROVE \E x \in Workers : \E d \in 1..issued[x] : y = <<x, d>> /\ Over(x, d)'
    <3>1. CASE y \in DOMAIN result
      <4>1. PICK x \in Workers : \E d \in 1..issued[x] : y = <<x, d>> /\ Over(x, d)
        BY <3>1, ResultInvIs
      <4>2. PICK d \in 1..issued[x] : y = <<x, d>> /\ Over(x, d)
        BY <4>1
      <4>3. Over(x, d)'
        BY <1>6, <1>8, <4>2
      <4> QED BY <4>2, <4>3
    <3>2. CASE y = <<r, c>>
      BY <2>1, <3>2
    <3> QED BY <1>8, <3>1, <3>2
  <2>3. (ResultInv <=> \A y \in DOMAIN result : \E x \in Workers : \E d \in 1..issued[x] : y = <<x, d>> /\ Over(x, d))'
    BY ResultInvIs, PTL
  <2>4. ResultInv'
    BY <1>1, <2>2, <2>3
  <2> QED BY <1>4, <1>5, <2>4
<1> QED BY <1>7, <1>8 DEF r, c

-----------------------------------------------------------------------------
(* What a thread has left                                                   *)

LEMMA OpsDo ==
  ASSUME NEW r, NEW c, NEW op \in Ops(r, c)
  PROVE  /\ op.do \in {"join", "drain", "sync", "post", "take"}
         /\ op.do = "post" => op \in Posts(r, c)
         /\ op.do = "take" => op \in Takes(r, c)
<1>1. op \in Joins => op.do = "join"
  BY DEF Joins
<1>2. op \in Waits => op.do \in {"drain", "sync"}
  BY DEF Waits
<1>3. op \in Posts(r, c) => op.do = "post"
  BY DEF Posts
<1>4. op \in Takes(r, c) => op.do = "take"
  BY DEF Takes
<1> QED BY <1>1, <1>2, <1>3, <1>4 DEF Ops

\* A thread at an operation that is not a copy is in a plan of its call.
LEMMA AtPlan ==
  ASSUME TodoInv, NEW th \in Threads, NEW do, AtOp(th, do), do # "clone", do # "dead"
  PROVE  /\ running[th] # 0 /\ todo[th] # Dead /\ todo[th] # <<>>
         /\ todo[th] \in Plans(th[1], running[th])
         /\ Head(todo[th]) \in Ops(th[1], running[th]) /\ Head(todo[th]).do = do
         /\ Tail(todo[th]) \in Plans(th[1], running[th])
<1>1. todo[th] # <<>> /\ Head(todo[th]).do = do
  BY DEF AtOp
<1>2. todo[th] # Dead
  BY <1>1 DEF Dead
<1>3. running[th] # 0
  BY <1>1 DEF TodoInv
<1>4. todo[th] \notin Copying(th[1], running[th])
  BY <1>1 DEF Copying, Copies
<1>5. todo[th] \in Plans(th[1], running[th])
  BY <1>2, <1>3, <1>4 DEF TodoInv
<1> QED BY <1>1, <1>2, <1>3, <1>5, PlanTail

LEMMA AtCopy ==
  ASSUME TodoInv, NEW th \in Threads, AtOp(th, "clone")
  PROVE  /\ running[th] # 0 /\ todo[th] # Dead
         /\ Tail(todo[th]) \in Plans(th[1], running[th])
<1>1. todo[th] # <<>> /\ Head(todo[th]).do = "clone"
  BY DEF AtOp
<1>2. todo[th] # Dead
  BY <1>1 DEF Dead
<1>3. running[th] # 0
  BY <1>1 DEF TodoInv
<1>4. todo[th] \notin Plans(th[1], running[th])
  BY <1>1, PlanTail, OpsDo
<1>5. todo[th] \in Copying(th[1], running[th])
  BY <1>2, <1>3, <1>4 DEF TodoInv
<1> QED BY <1>2, <1>3, <1>5 DEF Copying

\* A plan does not begin with a copy.
LEMMA PlanNoCopy ==
  ASSUME NEW r, NEW c, NEW s \in Plans(r, c)
  PROVE  ~(s # <<>> /\ Head(s).do = "clone")
BY PlanTail, OpsDo

LEMMA TodoKeeps ==
  ASSUME TodoInv, scene' = scene, DOMAIN todo' = Threads, DOMAIN unsent' = Threads, NEW th \in Threads,
         \A t \in Threads \ {th} : running'[t] = running[t] /\ todo'[t] = todo[t],
         IF running'[th] = 0 THEN todo'[th] = <<>>
         ELSE \/ todo'[th] = Dead
              \/ todo'[th] \in Plans(th[1], running'[th])
              \/ todo'[th] \in Copying(th[1], running'[th])
  PROVE  TodoInv'
<1>1. Threads' = Threads
  BY SameScene
<1>2. \A r, c : Plans(r, c)' = Plans(r, c) /\ Copying(r, c)' = Copying(r, c)
  BY SamePlans
<1>3. ASSUME NEW t \in Threads
      PROVE  IF running'[t] = 0 THEN todo'[t] = <<>>
             ELSE \/ todo'[t] = Dead
                  \/ todo'[t] \in Plans(t[1], running'[t])
                  \/ todo'[t] \in Copying(t[1], running'[t])
  BY DEF TodoInv
<1>4. Dead' = Dead
  BY DEF Dead
<1>5. ASSUME NEW t \in Threads
      PROVE  (IF running[t] = 0 THEN todo[t] = <<>>
             ELSE \/ todo[t] = Dead
                  \/ todo[t] \in Plans(t[1], running[t])
                  \/ todo[t] \in Copying(t[1], running[t]))'
  BY <1>2, <1>3, <1>4
<1> QED BY <1>1, <1>5 DEF TodoInv

-----------------------------------------------------------------------------
(* Messages and counts                                                      *)

LEMMA CountIs ==
  ASSUME WireInv, NEW pg, NEW r
  PROVE  Count(pg, r) \in Nat
BY DEF WireInv, Count

LEMMA CountedIs ==
  ASSUME NEW pg, NEW r, count' = Counted(pg, r), NEW x, NEW q
  PROVE  Count(x, q)' = IF x = pg /\ q = r THEN Count(pg, r) + 1 ELSE Count(x, q)
<1>1. DOMAIN count' = DOMAIN count \union {<<pg, r>>}
  BY DEF Counted
<1>2. \A y \in DOMAIN count' : count'[y] = IF y = <<pg, r>> THEN Count(pg, r) + 1 ELSE count[y]
  BY DEF Counted
<1> QED BY <1>1, <1>2 DEF Count

LEMMA CountedInv ==
  ASSUME NEW pg, NEW r, count' = Counted(pg, r), WireInv
  PROVE  \A x \in DOMAIN count' : count'[x] \in Nat
<1>1. Count(pg, r) + 1 \in Nat
  BY CountIs
<1>2. \A x \in DOMAIN count : count[x] \in Nat
  BY DEF WireInv
<1> QED BY <1>1, <1>2 DEF Counted

LEMMA WireIs ==
  ASSUME WireInv, NEW pg
  PROVE  /\ Wire(pg) \in Seq(Range(Wire(pg))) /\ Len(Wire(pg)) \in Nat
         /\ pg \in DOMAIN wire => Wire(pg) = wire[pg]
<1>1. pg \in DOMAIN wire => Wire(pg) = wire[pg] /\ wire[pg] \in Seq(Range(wire[pg]))
  BY DEF WireInv, Wire
<1>2. pg \notin DOMAIN wire => Wire(pg) = <<>>
  BY DEF Wire
<1>3. Wire(pg) \in Seq(Range(Wire(pg)))
  <2>1. CASE pg \in DOMAIN wire
    BY <1>1, <2>1
  <2>2. CASE pg \notin DOMAIN wire
    <3> DEFINE S == Range(Wire(pg))
    <3>1. <<>> \in Seq(S)
      <4> HIDE DEF S
      <4> QED OBVIOUS
    <3> QED BY <1>2, <2>2, <3>1
  <2> QED BY <2>1, <2>2
<1> QED BY <1>1, <1>3

\* A message and who has posted it.
Sent(pg, msg) ==
  /\ msg.owner \in Workers /\ msg.call \in 1..Len(CallsOf(msg.owner)) /\ msg.slots \in Seq(Nat)
  /\ MayPost(msg.owner, msg.call, pg, msg.what, msg.slots)

LEMMA WireInvIs ==
  WireInv <=> /\ \A pg \in DOMAIN wire :
                   /\ pg \in Pgs /\ wire[pg] \in Seq(Range(wire[pg]))
                   /\ \A i \in 1..Len(wire[pg]) : Sent(pg, wire[pg][i])
              /\ \A x \in DOMAIN count : count[x] \in Nat
BY DEF WireInv, Sent

LEMMA SameSent ==
  ASSUME scene' = scene, NEW pg, NEW msg, Sent(pg, msg)
  PROVE  msg.owner \in Workers' /\ msg.call \in 1..Len(CallsOf(msg.owner)')
         /\ msg.slots \in Seq(Nat) /\ MayPost(msg.owner, msg.call, pg, msg.what, msg.slots)'
<1>1. Workers' = Workers /\ CallsOf(msg.owner)' = CallsOf(msg.owner)
  BY SameScene
<1>2. MayPost(msg.owner, msg.call, pg, msg.what, msg.slots)' = MayPost(msg.owner, msg.call, pg, msg.what, msg.slots)
  BY SamePlans
<1> QED BY <1>1, <1>2 DEF Sent

\* A post: what it appends, and to which process group.
LEMMA PostFacts ==
  ASSUME scene \in Scenes, ThreadInv, TodoInv, WireInv, NEW th \in Threads, PostMessage(th)
  PROVE  LET r == th[1]
             c == running[th]
             op == Head(todo[th])
             pg == op.pg
             n == Len(Wire(pg)) + 1
         IN  /\ op \in Posts(r, c) /\ pg \in Pgs /\ op.what \in Words /\ op.slots \in Seq(Nat)
             /\ MayPost(r, c, pg, op.what, op.slots)
             /\ DOMAIN wire' = DOMAIN wire \union {pg}
             /\ \A x \in DOMAIN wire : x # pg => wire'[x] = wire[x]
             /\ wire'[pg] \in Seq(Range(wire'[pg])) /\ Len(wire'[pg]) = n /\ n \in Nat
             /\ \A i \in 1..(n - 1) : pg \in DOMAIN wire /\ i \in 1..Len(wire[pg]) /\ wire'[pg][i] = wire[pg][i]
             /\ wire'[pg][n].what = op.what /\ wire'[pg][n].owner = r /\ wire'[pg][n].call = c
             /\ wire'[pg][n].slots = op.slots
<1> DEFINE r == th[1]
           c == running[th]
           op == Head(todo[th])
           pg == op.pg
           w == Wire(pg)
           msg == [what |-> op.what, owner |-> r, call |-> c, slots |-> op.slots,
                   vals |-> [i \in 1..Len(op.slots) |-> mem[<<r, c>>][op.slots[i]].v]]
<1>1. /\ AtOp(th, "post")
      /\ wire' = [x \in DOMAIN wire \union {pg} |-> IF x = pg THEN Append(w, msg) ELSE wire[x]]
  BY DEF PostMessage
<1>2. op \in Ops(r, c) /\ op.do = "post"
  BY <1>1, AtPlan
<1>3. op \in Posts(r, c)
  BY <1>2, OpsDo
<1>4. pg \in Pgs /\ op.what \in Words /\ op.slots \in Seq(Nat) /\ MayPost(r, c, pg, op.what, op.slots)
  BY <1>3 DEF Posts
<1>5. msg.what = op.what /\ msg.owner = r /\ msg.call = c /\ msg.slots = op.slots
  OBVIOUS
<1>6. w \in Seq(Range(w)) /\ Len(w) \in Nat /\ (pg \in DOMAIN wire => w = wire[pg])
  BY WireIs
<1>7. Len(w) # 0 => pg \in DOMAIN wire
  BY DEF Wire
<1> HIDE DEF msg, w, pg, op, r, c
<1>8. w \in Seq(Range(w) \union {msg}) /\ msg \in Range(w) \union {msg}
  <2>1. Range(w) \subseteq Range(w) \union {msg}
    OBVIOUS
  <2> QED BY <1>6, <2>1, SeqSubset
<1>9. /\ Append(w, msg) \in Seq(Range(w) \union {msg}) /\ Len(Append(w, msg)) = Len(w) + 1
      /\ \A i \in 1..Len(w) : Append(w, msg)[i] = w[i]
      /\ Append(w, msg)[Len(w) + 1] = msg
  BY <1>8
<1>10. Append(w, msg) \in Seq(Range(Append(w, msg)))
  BY <1>9, SeqOwnRange
<1>11. wire'[pg] = Append(w, msg) /\ DOMAIN wire' = DOMAIN wire \union {pg}
       /\ \A x \in DOMAIN wire : x # pg => wire'[x] = wire[x]
  BY <1>1
<1>12. \A i \in 1..Len(w) : pg \in DOMAIN wire /\ i \in 1..Len(wire[pg]) /\ wire'[pg][i] = wire[pg][i]
  BY <1>6, <1>7, <1>9, <1>11
<1>13. (Len(w) + 1) - 1 = Len(w) /\ Len(w) + 1 \in Nat
  BY <1>6
<1> QED BY <1>3, <1>4, <1>5, <1>9, <1>10, <1>11, <1>12, <1>13 DEF op, r, c, w, pg

LEMMA PostWire ==
  ASSUME scene \in Scenes, ThreadInv, TodoInv, WireInv, NEW th \in Threads, PostMessage(th)
  PROVE  WireInv'
<1> DEFINE r == th[1]
           c == running[th]
           op == Head(todo[th])
           pg == op.pg
           n == Len(Wire(pg)) + 1
<1>1. /\ pg \in Pgs /\ op.slots \in Seq(Nat) /\ MayPost(r, c, pg, op.what, op.slots)
      /\ DOMAIN wire' = DOMAIN wire \union {pg}
      /\ \A x \in DOMAIN wire : x # pg => wire'[x] = wire[x]
      /\ wire'[pg] \in Seq(Range(wire'[pg])) /\ Len(wire'[pg]) = n /\ n \in Nat
      /\ \A i \in 1..(n - 1) : pg \in DOMAIN wire /\ i \in 1..Len(wire[pg]) /\ wire'[pg][i] = wire[pg][i]
      /\ wire'[pg][n].what = op.what /\ wire'[pg][n].owner = r /\ wire'[pg][n].call = c
      /\ wire'[pg][n].slots = op.slots
  BY PostFacts
<1>2. scene' = scene /\ count' = Counted(pg, r) /\ running[th] # 0
  BY AtPlan DEF PostMessage
<1>3. r \in Workers /\ c \in 1..Len(CallsOf(r))
  BY <1>2, RunningFacts, ThreadFacts DEF InScene
<1> HIDE DEF op, r, c, n, pg
<1>4. Sent(pg, wire'[pg][n])
  BY <1>1, <1>3 DEF Sent
<1>5. \A x \in DOMAIN wire : /\ x \in Pgs /\ wire[x] \in Seq(Range(wire[x]))
                             /\ \A i \in 1..Len(wire[x]) : Sent(x, wire[x][i])
  BY WireInvIs
<1>6. ASSUME NEW x \in DOMAIN wire' PROVE x \in Pgs /\ wire'[x] \in Seq(Range(wire'[x]))
  BY <1>1, <1>5
<1>7. ASSUME NEW x \in DOMAIN wire', NEW i \in 1..Len(wire'[x]) PROVE Sent(x, wire'[x][i])
  <2>1. CASE x # pg
    BY <1>1, <1>5, <2>1
  <2>2. CASE x = pg
    <3>1. i = n \/ i \in 1..(n - 1)
      BY <1>1, <2>2
    <3> QED BY <1>1, <1>4, <1>5, <2>2, <3>1
  <2> QED BY <2>1, <2>2
<1>8. ASSUME NEW x \in DOMAIN wire', NEW i \in 1..Len(wire'[x])
      PROVE  (/\ wire[x][i].owner \in Workers /\ wire[x][i].call \in 1..Len(CallsOf(wire[x][i].owner))
              /\ wire[x][i].slots \in Seq(Nat)
              /\ MayPost(wire[x][i].owner, wire[x][i].call, x, wire[x][i].what, wire[x][i].slots))'
  <2>1. PICK m : m = wire'[x][i]
    OBVIOUS
  <2>2. /\ m.owner \in Workers' /\ m.call \in 1..Len(CallsOf(m.owner)') /\ m.slots \in Seq(Nat)
        /\ MayPost(m.owner, m.call, x, m.what, m.slots)'
    BY <1>2, <1>7, <2>1, SameSent
  <2> QED BY <2>1, <2>2
<1>9. \A x \in DOMAIN count' : count'[x] \in Nat
  BY <1>2, CountedInv
<1>10. Pgs' = Pgs
  BY <1>2, SamePlans
<1> QED BY <1>6, <1>8, <1>9, <1>10 DEF WireInv

\* A message that is taken for what it is: what follows from it.
LEMMA TakeFacts ==
  ASSUME scene \in Scenes, ThreadInv, TodoInv, WireInv, NEW th \in Threads, AtOp(th, "take"),
         Count(Head(todo[th]).pg, th[1]) < Len(Wire(Head(todo[th]).pg))
  PROVE  LET r == th[1]
             c == running[th]
             op == Head(todo[th])
             pg == op.pg
             i == Count(pg, r) + 1
         IN  /\ op \in Takes(r, c) /\ MayTake(r, c, pg, op.what, op.slots)
             /\ pg \in DOMAIN wire /\ i \in 1..Len(wire[pg]) /\ Wire(pg)[i] = wire[pg][i]
             /\ Sent(pg, wire[pg][i])
             /\ wire[pg][i].what = op.what => Heard(r, c, op, wire[pg][i])
<1> DEFINE r == th[1]
           c == running[th]
           op == Head(todo[th])
           pg == op.pg
           i == Count(pg, r) + 1
<1>1. op \in Ops(r, c) /\ op.do = "take" /\ running[th] # 0
  BY AtPlan
<1>2. op \in Takes(r, c)
  BY <1>1, OpsDo
<1>3. MayTake(r, c, pg, op.what, op.slots)
  BY <1>2 DEF Takes
<1>4. InScene(r, c)
  BY <1>1, RunningFacts
<1>5. Count(pg, r) \in Nat /\ Len(Wire(pg)) \in Nat /\ Count(pg, r) < Len(Wire(pg))
  BY CountIs, WireIs
<1> HIDE DEF r, c, op, i, pg
<1>6. pg \in DOMAIN wire /\ Wire(pg) = wire[pg]
  BY <1>5, WireIs DEF Wire
<1>7. i \in 1..Len(wire[pg])
  BY <1>5, <1>6 DEF i
<1>8. Sent(pg, wire[pg][i])
  BY <1>6, <1>7, WireInvIs
<1>9. wire[pg][i].what = op.what => Heard(r, c, op, wire[pg][i])
  BY <1>2, <1>4, <1>8 DEF Heard, Sent, InScene, pg
<1> QED BY <1>2, <1>3, <1>6, <1>7, <1>8, <1>9 DEF r, c, op, i, pg

\* What is left after a message: a plan, or, after handles, a copy and a plan.
AfterTake(r, c, op, msg, rest) == Learned(r, CallsOf(r)[c], op, msg) \o rest

LEMMA TakeTodo ==
  ASSUME NEW r, NEW c, NEW op, NEW msg, Heard(r, c, op, msg), msg.slots \in Seq(Nat),
         NEW rest \in Plans(r, c)
  PROVE  /\ op.what # "handles" => AfterTake(r, c, op, msg, rest) \in Plans(r, c)
         /\ op.what = "handles" => /\ AfterTake(r, c, op, msg, rest) \in Copying(r, c)
                                   /\ Head(AfterTake(r, c, op, msg, rest)).from = <<msg.owner, msg.call>>
<1> DEFINE s == AfterTake(r, c, op, msg, rest)
           l == Learned(r, CallsOf(r)[c], op, msg)
           copy == [do |-> "clone", from |-> <<msg.owner, msg.call>>, there |-> msg.slots, here |-> op.slots]
           S == Ops(r, c)
           C == Copies \union S
<1>0. s = l \o rest
  BY DEF AfterTake
<1>1. op.what # "handles" => s \in Plans(r, c)
  <2> SUFFICES ASSUME op.what # "handles" PROVE s \in Plans(r, c)
    OBVIOUS
  <2>1. l \in Plans(r, c)
    BY LearnedPlan
  <2> HIDE DEF l, s
  <2> QED BY <1>0, <2>1, PlanCat
<1>2. op.what = "handles" => l = <<copy>>
  BY DEF Learned
<1>3. copy \in Copies
  <2>1. msg.owner \in Workers /\ msg.call \in 1..Len(CallsOf(msg.owner)) /\ op.slots \in Seq(Nat)
    BY DEF Heard, InScene, Takes
  <2>2. msg.call \in Nat
    BY <2>1
  <2> QED BY <2>1, <2>2 DEF Copies
<1>4. copy.from = <<msg.owner, msg.call>>
  OBVIOUS
<1>5. rest \in Seq(S)
  BY DEF Plans
<1> HIDE DEF s, l, copy, S
<1>6. rest \in Seq(C) /\ copy \in C
  <2>1. S \subseteq C
    OBVIOUS
  <2> HIDE DEF C
  <2>2. rest \in Seq(C)
    BY <1>5, <2>1, SeqSubset
  <2> QED BY <1>3, <2>2 DEF C
<1> HIDE DEF C
<1>7. <<copy>> \in Seq(C)
  BY <1>6
<1>8. <<copy>> \o rest \in Seq(C)
  BY <1>6, <1>7
<1>9. /\ <<copy>> \o rest # <<>> /\ Head(<<copy>> \o rest) = copy
  BY <1>6
<1>10. Tail(<<copy>> \o rest) = rest
  BY <1>6
<1>11. <<copy>> \o rest \in Copying(r, c)
  BY <1>3, <1>8, <1>9, <1>10 DEF Copying, C, S
<1> QED BY <1>0, <1>1, <1>2, <1>4, <1>9, <1>11 DEF s

\* An accelerator operation that is allowed uses a device that fits.
LEMMA UsedStep ==
  ASSUME UsedInv, scene' = scene, NEW r \in Workers, NEW c, NEW op, OnDevice(r, c, op.pg, op.slots),
         used' = used \union UsedBy(r, c, op)
  PROVE  UsedInv'
<1>1. Workers' = Workers /\ Placed' = Placed /\ \A x, pg, d : Fits(x, pg, d)' = Fits(x, pg, d)
  BY SameScene, SamePlans
<1>2. ASSUME NEW u \in UsedBy(r, c, op) PROVE u[2] \in Workers /\ (Placed => Fits(u[2], u[1], u[3]))
  <2>1. op.pg.backend = "ccl" /\ u = <<op.pg, r, DeviceOf(r, c, op.slots)>>
    BY DEF UsedBy, DeviceOf
  <2>2. Placed => Fits(r, op.pg, DeviceOf(r, c, op.slots))
    BY <2>1 DEF OnDevice
  <2> QED BY <2>1, <2>2
<1>3. \A u \in used' : u[2] \in Workers /\ (Placed => Fits(u[2], u[1], u[3]))
  BY <1>2 DEF UsedInv
<1> QED BY <1>1, <1>3 DEF UsedInv

-----------------------------------------------------------------------------
(* Shared memory                                                            *)

\* Handles are posted by the other worker of the pair.
LEMMA HandlesOther ==
  ASSUME scene \in Scenes, NEW pg, NEW msg, Sent(pg, msg), msg.what = "handles",
         NEW r \in Workers, Inward(r, msg.owner, pg)
  PROVE  /\ msg.owner \in Workers \ {r} /\ Outward(msg.owner, r, pg)
         /\ Posting(msg.owner, msg.call, r) /\ pg.backend = "gloo"
<1> DEFINE p == msg.owner
<1>1. p \in Workers /\ MayPost(p, msg.call, pg, "handles", msg.slots)
  BY DEF Sent
<1> HIDE DEF p
<1>2. pg.backend = "gloo" /\ pg.lane # "collective"
  BY <1>1 DEF MayPost
<1>3. PICK q \in Workers \ {p} : Outward(p, q, pg)
  BY <1>1, <1>2 DEF MayPost
<1>4. r # p
  <2> SUFFICES ASSUME r = p PROVE FALSE
    OBVIOUS
  <2>1. pg.group = <<p, p>>
    BY DEF Inward, Pair, p
  <2>2. Range(pg.group) = {p, q}
    BY <1>1, <1>3, LaneFacts
  <2>3. Range(<<p, p>>) = {p}
    BY DEF Range
  <2> QED BY <1>3, <2>1, <2>2, <2>3
<1>5. Outward(p, r, pg) /\ Posting(p, msg.call, r)
  <2>1. Inward(r, p, pg)
    BY DEF p
  <2> QED BY <1>1, <1>4, <2>1, OtherSide
<1> QED BY <1>1, <1>2, <1>4, <1>5 DEF p

\* Handles that may still be read.
Open(pg, i, q) ==
  wire[pg][i].what = "handles" /\ Inward(q, wire[pg][i].owner, pg) /\ Count(pg, q) <= i

LEMMA SharingInvIs ==
  SharingInv <=> (Ordered => \A pg \in DOMAIN wire : \A i \in 1..Len(wire[pg]) : \A q \in Workers :
                               Open(pg, i, q) => Sharing(pg, i))
BY DEF SharingInv, Open

\* The thread that has posted a message.
PosterOf(pg, i) == ThreadOf(wire[pg][i].owner, wire[pg][i].call)

\* A thread that shares is at a wait or at the zero.
LEMMA SharingFacts ==
  ASSUME scene \in Scenes, WireInv, NEW pg \in DOMAIN wire, NEW i \in 1..Len(wire[pg]), Sharing(pg, i)
  PROVE  LET th == PosterOf(pg, i)
         IN  /\ th \in Threads /\ th[1] = wire[pg][i].owner
             /\ running[th] = wire[pg][i].call /\ running[th] # 0
             /\ todo[th] # <<>> /\ todo[th] # Dead
             /\ todo[th][1] \in {[do |-> "drain"], ZeroPost(pg)}
<1> DEFINE p == wire[pg][i].owner
           d == wire[pg][i].call
           th == ThreadOf(p, d)
<1>1. Sent(pg, wire[pg][i])
  BY WireInvIs
<1>2. p \in Workers /\ d \in 1..Len(CallsOf(p))
  BY <1>1 DEF Sent
<1>3. th \in Threads /\ th[1] = p
  BY <1>2, ThreadFacts
<1>4. d # 0
  BY <1>2
<1>5. running[th] = d /\ Len(todo[th]) >= 1 /\ todo[th][1] \in {[do |-> "drain"], ZeroPost(pg)}
  BY DEF Sharing
<1>6. todo[th] # <<>>
  BY <1>5
<1>7. todo[th][1].do \in {"drain", "post"}
  BY <1>5 DEF ZeroPost
<1>8. todo[th] # Dead
  BY <1>7 DEF Dead
<1> QED BY <1>3, <1>4, <1>5, <1>6, <1>8 DEF PosterOf

\* Sharing goes on while its thread is left alone and nothing is posted.
LEMMA SharingSame ==
  ASSUME scene' = scene, NEW pg, NEW i, Sharing(pg, i), wire'[pg] = wire[pg],
         running'[PosterOf(pg, i)] = running[PosterOf(pg, i)],
         todo'[PosterOf(pg, i)] = todo[PosterOf(pg, i)],
         unsent'[PosterOf(pg, i)] = unsent[PosterOf(pg, i)]
  PROVE  Sharing(pg, i)'
<1>1. \A r, c : ThreadOf(r, c)' = ThreadOf(r, c)
  BY SameScene
<1>2. ZeroPost(pg)' = ZeroPost(pg)
  BY DEF ZeroPost
<1> QED BY <1>1, <1>2 DEF Sharing, PosterOf

LEMMA SharingPrimed ==
  ASSUME scene' = scene,
         Ordered => \A pg \in DOMAIN wire' : \A i \in 1..Len(wire'[pg]) : \A q \in Workers :
                      Open(pg, i, q)' => Sharing(pg, i)'
  PROVE  SharingInv'
<1>1. Workers' = Workers /\ Ordered' = Ordered
  BY SameScene
<1>2. (SharingInv <=> (Ordered => \A pg \in DOMAIN wire : \A i \in 1..Len(wire[pg]) : \A q \in Workers :
                               Open(pg, i, q) => Sharing(pg, i)))'
  BY SharingInvIs, PTL
<1> QED BY <1>1, <1>2

\* Counts do not go down: what may still be read could be read before.
LEMMA OpenBefore ==
  ASSUME scene' = scene, WireInv, NEW pg, NEW i \in Nat, NEW q, wire'[pg][i] = wire[pg][i],
         Count(pg, q)' \in Nat, Count(pg, q) <= Count(pg, q)', Open(pg, i, q)'
  PROVE  Open(pg, i, q)
<1>1. Count(pg, q) \in Nat
  BY CountIs
<1>2. \A r, p : Inward(r, p, pg)' = Inward(r, p, pg)
  BY SameScene
<1>3. Count(pg, q)' <= i /\ wire'[pg][i].what = "handles" /\ Inward(q, wire[pg][i].owner, pg)'
  BY DEF Open
<1>4. PICK o : o = wire[pg][i].owner
  OBVIOUS
<1>5. Inward(q, o, pg)'
  BY <1>3, <1>4
<1>6. Inward(q, wire[pg][i].owner, pg)
  BY <1>2, <1>4, <1>5
<1> QED BY <1>1, <1>3, <1>6 DEF Open

\* A step of a thread that does not share, and posts nothing.
LEMMA SharingOther ==
  ASSUME scene \in Scenes, WireInv, SharingInv, scene' = scene, wire' = wire,
         \A pg, q : Count(pg, q)' \in Nat /\ Count(pg, q) <= Count(pg, q)',
         NEW th \in Threads,
         \A t \in Threads \ {th} : running'[t] = running[t] /\ todo'[t] = todo[t] /\ unsent'[t] = unsent[t],
         running[th] = 0 \/ todo[th] = <<>> \/ todo[th][1].do \notin {"drain", "post"}
  PROVE  SharingInv'
<1> SUFFICES ASSUME Ordered, NEW pg \in DOMAIN wire, NEW i \in 1..Len(wire[pg]), NEW q \in Workers,
                    Open(pg, i, q)'
             PROVE  Sharing(pg, i)'
  BY SharingPrimed
<1>1. Open(pg, i, q)
  <2>1. i \in Nat
    OBVIOUS
  <2>2. Count(pg, q)' \in Nat /\ Count(pg, q) <= Count(pg, q)'
    OBVIOUS
  <2> QED BY <2>1, <2>2, OpenBefore
<1>2. Sharing(pg, i)
  BY <1>1, SharingInvIs
<1>3. PosterOf(pg, i) # th /\ PosterOf(pg, i) \in Threads
  <2>1. ZeroPost(pg).do = "post"
    BY DEF ZeroPost
  <2> QED BY <1>2, <2>1, SharingFacts
<1> QED BY <1>2, <1>3, SharingSame

\* A thread that shares waits for what it has posted: handles nobody waits for
\* have been read.
LEMMA SharingWait ==
  ASSUME scene \in Scenes, WireInv, TodoInv, SharingInv, NEW th \in Threads, WaitSent(th)
  PROVE  SharingInv'
<1>1. /\ scene' = scene /\ wire' = wire /\ count' = count /\ running' = running
      /\ todo' = [todo EXCEPT ![th] = Tail(@)] /\ unsent' = [unsent EXCEPT ![th] = {}]
      /\ \A m \in unsent[th] : \A q \in Range(m[1].group) \ {th[1]} : Count(m[1], q) >= m[2]
      /\ todo[th] # <<>> /\ todo[th] \in Plans(th[1], running[th])
      /\ Head(todo[th]).do = "drain"
  BY AtPlan DEF WaitSent, Pop
<1>2. DOMAIN todo = Threads /\ DOMAIN unsent = Threads
  BY DEF TodoInv
<1>3. \A pg, q : Count(pg, q)' = Count(pg, q)
  BY <1>1 DEF Count
<1> SUFFICES ASSUME Ordered, NEW pg \in DOMAIN wire, NEW i \in 1..Len(wire[pg]), NEW q \in Workers,
                    Open(pg, i, q)'
             PROVE  Sharing(pg, i)'
  BY <1>1, SharingPrimed
<1>4. Count(pg, q) \in Nat
  BY CountIs
<1>5. Open(pg, i, q) /\ Sharing(pg, i)
  <2>1. i \in Nat /\ Count(pg, q)' \in Nat /\ Count(pg, q) <= Count(pg, q)'
    BY <1>3, <1>4
  <2>2. Open(pg, i, q)
    BY <1>1, <2>1, OpenBefore
  <2> QED BY <2>2, SharingInvIs
<1> DEFINE T == PosterOf(pg, i)
<1>6. CASE T # th
  <2>1. T \in Threads
    BY <1>5, SharingFacts
  <2> HIDE DEF T
  <2>2. todo'[T] = todo[T] /\ unsent'[T] = unsent[T] /\ running'[T] = running[T]
    BY <1>1, <1>2, <1>6, <2>1
  <2> QED BY <1>1, <1>5, <2>2, SharingSame DEF T
<1>7. CASE T = th
  <2>1. /\ Head(todo[th]) = todo[th][1] /\ Len(todo[th]) \in Nat /\ Len(Tail(todo[th])) = Len(todo[th]) - 1
        /\ \A k \in 1..(Len(todo[th]) - 1) : Tail(todo[th])[k] = todo[th][k + 1]
    BY <1>1, PlanTail
  <2>2. ZeroPost(pg).do = "post"
    BY DEF ZeroPost
  <2>3. todo[th][1] # ZeroPost(pg)
    BY <1>1, <2>1, <2>2
  <2>4. T[1] = wire[pg][i].owner /\ running[T] = wire[pg][i].call
    BY <1>5, SharingFacts
  <2>5. <<pg, i + 1>> \notin unsent[th]
    <3> SUFFICES ASSUME <<pg, i + 1>> \in unsent[th] PROVE FALSE
      OBVIOUS
    <3>1. Sent(pg, wire[pg][i])
      BY WireInvIs
    <3>2. /\ wire[pg][i].owner \in Workers \ {q} /\ Outward(wire[pg][i].owner, q, pg)
      BY <1>5, <3>1, HandlesOther DEF Open
    <3>3. q \in Range(pg.group) \ {wire[pg][i].owner}
      <4>1. PICK o \in Workers : o = wire[pg][i].owner /\ q # o /\ Outward(o, q, pg)
        BY <3>2
      <4>2. Range(pg.group) = {o, q}
        BY <4>1, LaneFacts
      <4> QED BY <4>1, <4>2
    <3>4. Count(pg, q) >= i + 1
      BY <1>1, <1>7, <2>4, <3>3
    <3> QED BY <1>4, <1>5, <3>4 DEF Open
  <2>6. /\ i = Len(wire[pg]) /\ Len(todo[th]) >= 3
        /\ todo[th][2] = ZeroPost(pg) /\ todo[th][3] = [do |-> "drain"]
    BY <1>5, <1>7, <2>3, <2>5 DEF Sharing, PosterOf
  <2>7. todo'[th] = Tail(todo[th])
    BY <1>1, <1>2
  <2>8. Len(todo'[th]) >= 2 /\ todo'[th][1] = ZeroPost(pg) /\ todo'[th][2] = [do |-> "drain"]
    <3>1. 1 \in 1..(Len(todo[th]) - 1) /\ 2 \in 1..(Len(todo[th]) - 1)
      BY <2>1, <2>6
    <3>2. Tail(todo[th])[1] = todo[th][1 + 1] /\ Tail(todo[th])[2] = todo[th][2 + 1]
      BY <2>1, <3>1
    <3> QED BY <2>1, <2>6, <2>7, <3>2
  <2>9. \A r, c : ThreadOf(r, c)' = ThreadOf(r, c)
    BY <1>1, SameScene
  <2>10. ZeroPost(pg)' = ZeroPost(pg)
    BY DEF ZeroPost
  <2> QED BY <1>1, <1>7, <2>4, <2>6, <2>8, <2>9, <2>10 DEF Sharing, PosterOf
<1> QED BY <1>6, <1>7

\* Handles are followed by the zero, and the zero by the wait for it; nobody
\* else posts to the reader meanwhile.
LEMMA SharingPost ==
  ASSUME scene \in Scenes, ThreadInv, MainInv, TodoInv, WireInv, SharingInv, NEW th \in Threads, PostMessage(th)
  PROVE  SharingInv'
<1> DEFINE r == th[1]
           c == running[th]
           op == Head(todo[th])
           pg0 == op.pg
           n == Len(Wire(pg0)) + 1
<1>1. /\ op \in Posts(r, c) /\ MayPost(r, c, pg0, op.what, op.slots)
      /\ DOMAIN wire' = DOMAIN wire \union {pg0}
      /\ \A x \in DOMAIN wire : x # pg0 => wire'[x] = wire[x]
      /\ Len(wire'[pg0]) = n /\ n \in Nat
      /\ \A i \in 1..(n - 1) : pg0 \in DOMAIN wire /\ i \in 1..Len(wire[pg0]) /\ wire'[pg0][i] = wire[pg0][i]
      /\ wire'[pg0][n].what = op.what /\ wire'[pg0][n].owner = r /\ wire'[pg0][n].call = c
  BY PostFacts
<1>2. /\ scene' = scene /\ running' = running /\ count' = Counted(pg0, r)
      /\ todo' = [todo EXCEPT ![th] = Tail(@)]
      /\ unsent' = IF pg0.backend = "gloo" THEN [unsent EXCEPT ![th] = @ \union {<<pg0, n>>}] ELSE unsent
  BY DEF PostMessage, Pop
<1>3. /\ c # 0 /\ todo[th] # <<>> /\ todo[th] \in Plans(r, c) /\ op.do = "post"
  BY AtPlan DEF PostMessage
<1>4. DOMAIN todo = Threads /\ DOMAIN unsent = Threads
  BY DEF TodoInv
<1>5. /\ op = todo[th][1] /\ Len(todo[th]) \in Nat /\ Len(todo[th]) >= 1 /\ Len(Tail(todo[th])) = Len(todo[th]) - 1
      /\ \A k \in 1..(Len(todo[th]) - 1) : Tail(todo[th])[k] = todo[th][k + 1]
  BY <1>3, PlanTail
<1>6. Guarded(todo[th])
  BY <1>3 DEF Plans
<1>7. r \in Workers /\ ThreadOf(r, c) = th
  BY <1>3, RunningFacts, ThreadFacts
<1>8. \A x, y : ThreadOf(x, y)' = ThreadOf(x, y)
  BY <1>2, SameScene
<1>9. \A x : ZeroPost(x)' = ZeroPost(x)
  BY DEF ZeroPost
<1>10. todo'[th] = Tail(todo[th])
  BY <1>2, <1>4
<1>11. ASSUME NEW x, NEW q
       PROVE  Count(x, q)' \in Nat /\ Count(x, q) <= Count(x, q)'
  <2>1. Count(x, q) \in Nat /\ Count(pg0, r) \in Nat
    BY CountIs
  <2> HIDE DEF pg0, r
  <2>2. Count(x, q)' = IF x = pg0 /\ q = r THEN Count(pg0, r) + 1 ELSE Count(x, q)
    BY <1>2, CountedIs
  <2> QED BY <2>1, <2>2
<1> HIDE DEF op, r, c, n, pg0
<1> SUFFICES ASSUME Ordered, NEW pg \in DOMAIN wire', NEW i \in 1..Len(wire'[pg]), NEW q \in Workers,
                    Open(pg, i, q)'
             PROVE  Sharing(pg, i)'
  BY <1>2, SharingPrimed
<1>12. CASE pg = pg0 /\ i = n
  <2>1. op.what = "handles"
    BY <1>1, <1>12 DEF Open
  <2>2. /\ 1 + 3 <= Len(todo[th])
        /\ todo[th][1 + 1] = [do |-> "drain"] /\ todo[th][1 + 2] = ZeroPost(pg)
        /\ todo[th][1 + 3] = [do |-> "drain"]
    <3>1. 1 \in 1..Len(todo[th])
      BY <1>5
    <3>2. todo[th][1].do = "post" /\ todo[th][1].what = "handles" /\ todo[th][1].pg = pg
      BY <1>3, <1>5, <1>12, <2>1 DEF pg0
    <3> QED BY <1>6, <3>1, <3>2 DEF Guarded
  <2>3. /\ Len(todo'[th]) >= 3 /\ todo'[th][1] = [do |-> "drain"] /\ todo'[th][2] = ZeroPost(pg)
        /\ todo'[th][3] = [do |-> "drain"]
    <3>1. 1 \in 1..(Len(todo[th]) - 1) /\ 2 \in 1..(Len(todo[th]) - 1) /\ 3 \in 1..(Len(todo[th]) - 1)
      BY <1>5, <2>2
    <3>2. /\ Tail(todo[th])[1] = todo[th][1 + 1] /\ Tail(todo[th])[2] = todo[th][2 + 1]
          /\ Tail(todo[th])[3] = todo[th][3 + 1]
      BY <1>5, <3>1
    <3> QED BY <1>5, <1>10, <2>2, <3>2
  <2>4. PosterOf(pg, i)' = th /\ running'[th] = wire'[pg][i].call /\ i = Len(wire'[pg])
    BY <1>1, <1>2, <1>7, <1>8, <1>12 DEF PosterOf, c
  <2> QED BY <1>9, <2>3, <2>4 DEF Sharing, PosterOf
<1>13. CASE ~(pg = pg0 /\ i = n)
  <2>1. pg \in DOMAIN wire /\ i \in 1..Len(wire[pg]) /\ wire'[pg][i] = wire[pg][i]
    <3>1. CASE pg # pg0
      BY <1>1, <3>1
    <3>2. CASE pg = pg0
      <4>1. i \in 1..(n - 1)
        BY <1>1, <1>13, <3>2
      <4> QED BY <1>1, <3>2, <4>1
    <3> QED BY <3>1, <3>2
  <2>2. Open(pg, i, q) /\ Sharing(pg, i)
    <3>1. i \in Nat /\ Count(pg, q)' \in Nat /\ Count(pg, q) <= Count(pg, q)'
      BY <1>11
    <3>2. Open(pg, i, q)
      BY <1>2, <2>1, <3>1, OpenBefore
    <3> QED BY <2>1, <3>2, SharingInvIs
  <2> DEFINE T == PosterOf(pg, i)
             p == wire[pg][i].owner
  <2>3. /\ T \in Threads /\ T[1] = p /\ running[T] = wire[pg][i].call /\ running[T] # 0
        /\ todo[T][1] \in {[do |-> "drain"], ZeroPost(pg)}
    BY <2>1, <2>2, SharingFacts
  <2>4. /\ p \in Workers \ {q} /\ Inward(q, p, pg) /\ Posting(p, wire[pg][i].call, q) /\ pg.backend = "gloo"
    <3>1. Sent(pg, wire[pg][i])
      BY <2>1, WireInvIs
    <3> QED BY <2>2, <3>1, HandlesOther DEF Open
  <2> HIDE DEF T, p
  <2>5. T # th => pg # pg0
    <3> SUFFICES ASSUME T # th, pg = pg0 PROVE FALSE
      OBVIOUS
    <3>1. r = p /\ Posting(p, c, q)
      BY <1>1, <1>7, <2>4, OtherSide
    <3>2. Posting(T[1], running[T], q) /\ Posting(th[1], running[th], q) /\ T[1] = th[1]
      BY <2>3, <2>4, <3>1 DEF r, c
    <3> QED BY <1>3, <2>3, <3>2, Exclusive DEF c
  <2>6. CASE T # th
    <3>1. wire'[pg] = wire[pg]
      BY <1>1, <2>1, <2>5, <2>6
    <3>2. todo'[T] = todo[T] /\ unsent'[T] = unsent[T] /\ running'[T] = running[T]
      BY <1>2, <1>4, <2>3, <2>6
    <3> QED BY <1>2, <2>2, <3>1, <3>2, SharingSame DEF T
  <2>7. CASE T = th
    <3>1. op = ZeroPost(pg)
      BY <1>3, <1>5, <2>3, <2>7
    <3>2. pg0 = pg /\ [do |-> "drain"].do # op.do
      BY <1>3, <3>1 DEF pg0, ZeroPost
    <3>3. i = Len(wire[pg]) /\ Len(todo[th]) >= 2 /\ todo[th][2] = [do |-> "drain"]
      <4>1. todo[th][1] # [do |-> "drain"]
        BY <1>5, <3>2
      <4> QED BY <2>2, <2>7, <4>1 DEF Sharing, T, PosterOf
    <3>4. n = i + 1
      BY <2>1, <3>2, <3>3, WireIs DEF n
    <3>5. <<pg, i + 1>> \in unsent'[th]
      BY <1>2, <1>4, <2>4, <3>2, <3>4
    <3>6. Len(todo'[th]) >= 1 /\ todo'[th][1] = [do |-> "drain"]
      <4>1. 1 \in 1..(Len(todo[th]) - 1)
        BY <1>5, <3>3
      <4>2. Tail(todo[th])[1] = todo[th][1 + 1]
        BY <1>5, <4>1
      <4> QED BY <1>5, <1>10, <3>3, <4>2
    <3>7. PosterOf(pg, i)' = th /\ running'[th] = wire'[pg][i].call
      BY <1>2, <1>8, <2>1, <2>3, <2>7 DEF PosterOf, T
    <3> QED BY <3>5, <3>6, <3>7 DEF Sharing, PosterOf
  <2> QED BY <2>6, <2>7
<1> QED BY <1>12, <1>13

\* What a thread copies from, at the message pg[i].
CopiesFrom(th, pg, i) ==
  /\ i = Count(pg, th[1]) /\ wire[pg][i].what = "handles"
  /\ Head(todo[th]).from = <<wire[pg][i].owner, wire[pg][i].call>>
  /\ Inward(th[1], wire[pg][i].owner, pg)
  /\ Taking(th[1], running[th], wire[pg][i].owner)

LEMMA CopyInvIs ==
  CopyInv <=> (Ordered => \A th \in Threads : AtOp(th, "clone") =>
                            \E pg \in DOMAIN wire : \E i \in 1..Len(wire[pg]) : CopiesFrom(th, pg, i))
BY DEF CopyInv, CopiesFrom

LEMMA CopyPrimed ==
  ASSUME scene' = scene,
         Ordered => \A th \in Threads : AtOp(th, "clone")' =>
                      \E pg \in DOMAIN wire' : \E i \in 1..Len(wire'[pg]) : CopiesFrom(th, pg, i)'
  PROVE  CopyInv'
<1>1. Threads' = Threads /\ Ordered' = Ordered
  BY SameScene
<1>2. (CopyInv <=> (Ordered => \A th \in Threads : AtOp(th, "clone") =>
                            \E pg \in DOMAIN wire : \E i \in 1..Len(wire[pg]) : CopiesFrom(th, pg, i)))'
  BY CopyInvIs, PTL
<1> QED BY <1>1, <1>2

\* A step of another thread that leaves the process groups of the copies alone.
LEMMA CopyOther ==
  ASSUME scene \in Scenes, ThreadInv, WireInv, TodoInv, CopyInv, scene' = scene, NEW th \in Threads,
         \A t \in Threads \ {th} : running'[t] = running[t] /\ todo'[t] = todo[t],
         \A pg \in DOMAIN wire : /\ pg \in DOMAIN wire'
                                 /\ \A i \in 1..Len(wire[pg]) : i \in 1..Len(wire'[pg]) /\ wire'[pg][i] = wire[pg][i],
         Ordered => \A t \in Threads \ {th} : \A pg \in DOMAIN wire : \A p \in Workers \ {t[1]} :
                      running[t] # 0 /\ Inward(t[1], p, pg) /\ Taking(t[1], running[t], p)
                        => Count(pg, t[1])' = Count(pg, t[1]),
         Ordered /\ AtOp(th, "clone")' =>
           \E pg \in DOMAIN wire' : \E i \in 1..Len(wire'[pg]) : CopiesFrom(th, pg, i)'
  PROVE  CopyInv'
<1> SUFFICES ASSUME Ordered, NEW t \in Threads, AtOp(t, "clone")'
             PROVE  \E pg \in DOMAIN wire' : \E i \in 1..Len(wire'[pg]) : CopiesFrom(t, pg, i)'
  BY CopyPrimed
<1>1. CASE t = th
  BY <1>1
<1>2. CASE t # th
  <2>1. running'[t] = running[t] /\ todo'[t] = todo[t]
    BY <1>2
  <2>2. AtOp(t, "clone")
    BY <2>1 DEF AtOp
  <2>3. PICK pg \in DOMAIN wire : \E i \in 1..Len(wire[pg]) : CopiesFrom(t, pg, i)
    BY <2>2, CopyInvIs
  <2>4. PICK i \in 1..Len(wire[pg]) : CopiesFrom(t, pg, i)
    BY <2>3
  <2> DEFINE p == wire[pg][i].owner
  <2>5. Sent(pg, wire[pg][i])
    BY WireInvIs
  <2>6. running[t] # 0 /\ t[1] \in Workers
    BY <2>2, AtCopy, ThreadFacts
  <2>7. p \in Workers \ {t[1]}
    BY <2>4, <2>5, <2>6, HandlesOther DEF CopiesFrom
  <2>8. Count(pg, t[1])' = Count(pg, t[1])
    <3>1. Inward(t[1], p, pg) /\ Taking(t[1], running[t], p)
      BY <2>4 DEF CopiesFrom
    <3> HIDE DEF p
    <3> QED BY <1>2, <2>6, <2>7, <3>1
  <2>9. pg \in DOMAIN wire' /\ i \in 1..Len(wire'[pg]) /\ wire'[pg][i] = wire[pg][i]
    OBVIOUS
  <2>10. /\ \A x, y, z : Inward(x, y, z)' = Inward(x, y, z)
         /\ \A x, y, z : Taking(x, y, z)' = Taking(x, y, z)
    BY SameScene
  <2>11. CopiesFrom(t, pg, i)'
    BY <2>1, <2>4, <2>8, <2>9, <2>10 DEF CopiesFrom
  <2> QED BY <2>9, <2>11
<1> QED BY <1>1, <1>2

\* Nobody but the other worker posts to a reader.
LEMMA CopyPost ==
  ASSUME scene \in Scenes, ThreadInv, TodoInv, WireInv, CopyInv, NEW th \in Threads, PostMessage(th)
  PROVE  CopyInv'
<1> DEFINE r == th[1]
           c == running[th]
           op == Head(todo[th])
           pg0 == op.pg
           n == Len(Wire(pg0)) + 1
<1>1. /\ MayPost(r, c, pg0, op.what, op.slots)
      /\ DOMAIN wire' = DOMAIN wire \union {pg0}
      /\ \A x \in DOMAIN wire : x # pg0 => wire'[x] = wire[x]
      /\ Len(wire'[pg0]) = n /\ n \in Nat
      /\ \A i \in 1..(n - 1) : wire'[pg0][i] = wire[pg0][i]
  BY PostFacts
<1>2. /\ scene' = scene /\ running' = running /\ count' = Counted(pg0, r)
      /\ todo' = [todo EXCEPT ![th] = Tail(@)]
  BY DEF PostMessage, Pop
<1>3. c # 0 /\ Tail(todo[th]) \in Plans(r, c)
  BY AtPlan DEF PostMessage
<1>4. DOMAIN todo = Threads /\ r \in Workers
  BY ThreadFacts DEF TodoInv
<1>5. ASSUME NEW pg \in DOMAIN wire, NEW i \in 1..Len(wire[pg])
      PROVE  pg \in DOMAIN wire' /\ i \in 1..Len(wire'[pg]) /\ wire'[pg][i] = wire[pg][i]
  <2>1. CASE pg # pg0
    BY <1>1, <2>1
  <2>2. CASE pg = pg0
    <3>1. Wire(pg0) = wire[pg0] /\ Len(Wire(pg0)) \in Nat
      BY <2>2, WireIs
    <3>2. i \in 1..(n - 1) /\ i \in 1..n
      BY <2>2, <3>1
    <3> QED BY <1>1, <2>2, <3>2
  <2> QED BY <2>1, <2>2
<1>6. ASSUME NEW t \in Threads \ {th}, NEW pg \in DOMAIN wire, NEW p \in Workers \ {t[1]}, Inward(t[1], p, pg)
      PROVE  Count(pg, t[1])' = Count(pg, t[1])
  <2>1. ~(pg = pg0 /\ t[1] = r)
    <3> SUFFICES ASSUME pg = pg0, t[1] = r PROVE FALSE
      OBVIOUS
    <3>1. r = p
      BY <1>1, <1>4, <1>6, OtherSide
    <3> QED BY <3>1
  <2> HIDE DEF pg0, r
  <2> QED BY <1>2, <2>1, CountedIs
<1>7. ~AtOp(th, "clone")'
  <2>1. todo'[th] = Tail(todo[th])
    BY <1>2, <1>4
  <2> QED BY <1>3, <2>1, PlanNoCopy DEF AtOp
<1> HIDE DEF op, r, c, n, pg0
<1>8. \A t \in Threads \ {th} : running'[t] = running[t] /\ todo'[t] = todo[t]
  BY <1>2, <1>4
<1>9. \A pg \in DOMAIN wire : /\ pg \in DOMAIN wire'
                              /\ \A i \in 1..Len(wire[pg]) : i \in 1..Len(wire'[pg]) /\ wire'[pg][i] = wire[pg][i]
  <2>1. ASSUME NEW pg \in DOMAIN wire PROVE pg \in DOMAIN wire'
    BY <1>1
  <2> QED BY <1>5, <2>1
<1>10. \A t \in Threads \ {th} : \A pg \in DOMAIN wire : \A p \in Workers \ {t[1]} :
         running[t] # 0 /\ Inward(t[1], p, pg) /\ Taking(t[1], running[t], p)
           => Count(pg, t[1])' = Count(pg, t[1])
  BY <1>6
<1> QED BY <1>2, <1>7, <1>8, <1>9, <1>10, CopyOther

\* What is taken is taken by one call at a time; handles lead to a copy.
LEMMA CopyTaken ==
  ASSUME scene \in Scenes, ThreadInv, MainInv, TodoInv, WireInv, CopyInv, NEW th \in Threads,
         NEW r \in Workers, NEW c, NEW op, NEW pg0, NEW n, NEW msg, NEW s,
         r = th[1], c = running[th], c # 0, MayTake(r, c, pg0, op.what, op.slots), msg.what = op.what,
         pg0 \in DOMAIN wire, n \in 1..Len(wire[pg0]), n = Count(pg0, r) + 1, msg = wire[pg0][n], Sent(pg0, msg),
         op.what # "handles" => s \in Plans(r, c),
         op.what = "handles" => Head(s).from = <<msg.owner, msg.call>>,
         todo' = [todo EXCEPT ![th] = s], count' = Counted(pg0, r),
         scene' = scene, wire' = wire, running' = running
  PROVE  CopyInv'
<1>1. DOMAIN todo = Threads
  BY DEF TodoInv
<1>2. todo'[th] = s /\ \A t \in Threads \ {th} : running'[t] = running[t] /\ todo'[t] = todo[t]
  BY <1>1
<1>3. ASSUME Ordered, NEW t \in Threads \ {th}, NEW pg \in DOMAIN wire, NEW p \in Workers \ {t[1]},
             running[t] # 0, Inward(t[1], p, pg), Taking(t[1], running[t], p)
      PROVE  Count(pg, t[1])' = Count(pg, t[1])
  <2>1. ~(pg = pg0 /\ t[1] = r)
    <3> SUFFICES ASSUME pg = pg0, t[1] = r PROVE FALSE
      OBVIOUS
    <3>1. p \in Workers /\ r \in Workers \ {p} /\ p \in Workers \ {r} /\ Inward(r, p, pg0)
      BY <1>3
    <3>2. Outward(p, r, pg0) /\ pg0.lane # "collective"
      BY <3>1, LaneFacts
    <3>3. PICK q \in Workers \ {r} : Inward(r, q, pg0) /\ Taking(r, c, q)
      BY <3>2 DEF MayTake
    <3>4. q = p
      <4>1. q \in Workers /\ r \in Workers \ {q}
        OBVIOUS
      <4>2. Outward(q, r, pg0)
        BY <3>3, <4>1, LaneFacts
      <4> QED BY <3>1, <3>2, <4>1, <4>2, LaneFacts
    <3>5. ~(Taking(t[1], running[t], p) /\ Taking(th[1], running[th], p))
      BY <1>3, <3>1, Exclusive
    <3> QED BY <1>3, <3>3, <3>4, <3>5
  <2>2. PICK x : x = t[1]
    OBVIOUS
  <2>3. Count(pg, x)' = Count(pg, x)
    BY <2>1, <2>2, CountedIs
  <2> QED BY <2>2, <2>3
<1>4. ASSUME Ordered, AtOp(th, "clone")'
      PROVE  \E pg \in DOMAIN wire' : \E i \in 1..Len(wire'[pg]) : CopiesFrom(th, pg, i)'
  <2>1. op.what = "handles"
    <3> SUFFICES ASSUME op.what # "handles" PROVE FALSE
      OBVIOUS
    <3>1. s \in Plans(r, c)
      OBVIOUS
    <3> QED BY <1>2, <1>4, <3>1, PlanNoCopy DEF AtOp
  <2>2. Count(pg0, r)' = n
    BY CountedIs
  <2>3. pg0.lane # "collective"
    BY <2>1 DEF MayTake
  <2>4. PICK q \in Workers \ {r} : Inward(r, q, pg0) /\ Taking(r, c, q)
    BY <2>3 DEF MayTake
  <2>5. msg.owner = q
    <3>1. MayPost(msg.owner, msg.call, pg0, msg.what, msg.slots) /\ msg.owner \in Workers
      BY DEF Sent
    <3> QED BY <2>4, <3>1, OtherSide
  <2>6. Inward(r, q, pg0)' /\ Taking(r, c, q)'
    BY <2>4, SameScene
  <2>7. Head(todo'[th]).from = <<q, msg.call>>
    BY <1>2, <2>1, <2>5
  <2>8. CopiesFrom(th, pg0, n)'
    BY <2>1, <2>2, <2>5, <2>6, <2>7 DEF CopiesFrom
  <2> QED BY <2>8
<1>5. \A pg \in DOMAIN wire : /\ pg \in DOMAIN wire'
                              /\ \A i \in 1..Len(wire[pg]) : i \in 1..Len(wire'[pg]) /\ wire'[pg][i] = wire[pg][i]
  OBVIOUS
<1>6. Ordered => \A t \in Threads \ {th} : \A pg \in DOMAIN wire : \A p \in Workers \ {t[1]} :
        running[t] # 0 /\ Inward(t[1], p, pg) /\ Taking(t[1], running[t], p)
          => Count(pg, t[1])' = Count(pg, t[1])
  BY <1>3
<1>7. Ordered /\ AtOp(th, "clone")' => \E pg \in DOMAIN wire' : \E i \in 1..Len(wire'[pg]) : CopiesFrom(th, pg, i)'
  BY <1>4
<1> QED BY <1>2, <1>5, <1>6, <1>7, CopyOther

\* The part of TakeMessage when the message is the expected one.
Took(th) ==
  LET op == Head(todo[th])
      msg == Wire(op.pg)[Count(op.pg, th[1]) + 1]
  IN  /\ AtOp(th, "take") /\ Count(op.pg, th[1]) < Len(Wire(op.pg)) /\ msg.what = op.what
      /\ todo' = [todo EXCEPT ![th] = Learned(th[1], CallsOf(th[1])[running[th]], op, msg) \o Tail(@)]
      /\ count' = Counted(op.pg, th[1])
      /\ UNCHANGED <<scene, wire, running>>

LEMMA CopyTake ==
  ASSUME scene \in Scenes, ThreadInv, MainInv, TodoInv, WireInv, CopyInv, NEW th \in Threads, Took(th)
  PROVE  CopyInv'
<1> DEFINE r0 == th[1]
           c0 == running[th]
           op0 == Head(todo[th])
           n0 == Count(op0.pg, r0) + 1
           msg0 == wire[op0.pg][n0]
           s0 == Learned(r0, CallsOf(r0)[c0], op0, msg0) \o Tail(todo[th])
<1>1. /\ MayTake(r0, c0, op0.pg, op0.what, op0.slots) /\ op0.pg \in DOMAIN wire /\ n0 \in 1..Len(wire[op0.pg])
      /\ msg0 = Wire(op0.pg)[n0] /\ Heard(r0, c0, op0, msg0) /\ Sent(op0.pg, msg0)
  BY TakeFacts DEF Took
<1>2. c0 # 0 /\ Tail(todo[th]) \in Plans(r0, c0)
  BY AtPlan, SMTT(30) DEF Took
<1>3. DOMAIN todo = Threads /\ r0 \in Workers
  BY ThreadFacts, SMTT(30) DEF TodoInv
<1>4. todo' = [todo EXCEPT ![th] = s0] /\ count' = Counted(op0.pg, r0) /\ msg0.what = op0.what
  BY <1>1, <1>3 DEF Took
<1>5. PICK r, c, op, pg0, n, msg, rest : r = r0 /\ r \in Workers /\ c = c0 /\ op = op0 /\ pg0 = op0.pg /\ n = n0
        /\ msg = msg0 /\ rest = Tail(todo[th])
  BY <1>3, ZenonT(40)
<1>6. PICK s : s = s0
  OBVIOUS
<1>7. s = AfterTake(r, c, op, msg, rest)
  BY <1>5, <1>6 DEF AfterTake
<1> HIDE DEF r0, c0, op0, n0, msg0, s0
<1>8. Heard(r, c, op, msg) /\ msg.slots \in Seq(Nat) /\ rest \in Plans(r, c)
  BY <1>1, <1>2, <1>5 DEF Sent
<1>9. /\ op.what # "handles" => s \in Plans(r, c)
      /\ op.what = "handles" => Head(s).from = <<msg.owner, msg.call>>
  BY <1>7, <1>8, TakeTodo, ZenonT(40)
<1>10. /\ MayTake(r, c, pg0, op.what, op.slots) /\ pg0 \in DOMAIN wire /\ n \in 1..Len(wire[pg0])
       /\ Sent(pg0, msg) /\ c # 0 /\ msg.what = op.what
       /\ todo' = [todo EXCEPT ![th] = s] /\ count' = Counted(pg0, r)
  BY <1>1, <1>2, <1>4, <1>5, <1>6
<1>11. r \in Workers /\ r = th[1] /\ c = running[th] /\ n = Count(pg0, r) + 1 /\ msg = wire[pg0][n]
  BY <1>5 DEF r0, c0, n0, msg0
<1>12. scene' = scene /\ wire' = wire /\ running' = running
  BY DEF Took
<1> QED BY <1>9, <1>10, <1>11, <1>12, CopyTaken, ZenonT(40)

-----------------------------------------------------------------------------
(* Every step                                                               *)

LEMMA IInvInit ==
  ASSUME Init PROVE IInv
<1>1. scene \in Scenes
  BY DEF Init
<1>2. /\ issued = [r \in Workers |-> 0] /\ queue = [th \in Threads |-> <<>>]
      /\ running = [th \in Threads |-> 0] /\ todo = [th \in Threads |-> <<>>]
      /\ unsent = [th \in Threads |-> {}]
      /\ wire = <<>> /\ count = <<>> /\ used = {} /\ result = <<>>
  BY DEF Init
<1>3. \A r \in Workers : Len(CallsOf(r)) \in Nat
  BY <1>1, SceneFacts
<1>4. ThreadInv
  <2>1. issued \in [Workers -> Nat] /\ \A r \in Workers : issued[r] <= Len(CallsOf(r))
    BY <1>2, <1>3
  <2>2. running \in [Threads -> Nat] /\ queue \in [Threads -> Seq(Nat)]
    BY <1>2
  <2>3. \A th \in Threads : running[th] = 0 /\ Len(queue[th]) = 0
    BY <1>2
  <2> QED BY <2>1, <2>2, <2>3 DEF ThreadInv
<1>5. MainInv
  <2>1. \A r \in Workers : running[Main(r)] = 0
    BY <1>2, ThreadFacts
  <2> QED BY <2>1 DEF MainInv
<1>6. DOMAIN result = {} /\ DOMAIN wire = {} /\ DOMAIN count = {}
  BY <1>2
<1>7. ResultInv /\ WireInv /\ UsedInv /\ SharingInv
  BY <1>2, <1>6 DEF ResultInv, WireInv, UsedInv, SharingInv
<1>8. TodoInv
  BY <1>2 DEF TodoInv
<1>9. CopyInv
  <2>1. \A th \in Threads : ~AtOp(th, "clone")
    BY <1>2 DEF AtOp
  <2> QED BY <2>1 DEF CopyInv
<1> QED BY <1>1, <1>4, <1>5, <1>7, <1>8, <1>9 DEF IInv

\* Messages that stay are still what may be posted.
LEMMA WireSame ==
  ASSUME WireInv, scene' = scene, wire' = wire, \A x \in DOMAIN count' : count'[x] \in Nat
  PROVE  WireInv'
<1>1. ASSUME NEW pg \in DOMAIN wire, NEW i \in 1..Len(wire[pg])
      PROVE  /\ wire[pg][i].owner \in Workers' /\ wire[pg][i].call \in 1..Len(CallsOf(wire[pg][i].owner)')
             /\ wire[pg][i].slots \in Seq(Nat)
             /\ MayPost(wire[pg][i].owner, wire[pg][i].call, pg, wire[pg][i].what, wire[pg][i].slots)'
  BY SameSent, WireInvIs
<1>2. \A pg \in DOMAIN wire : pg \in Pgs /\ wire[pg] \in Seq(Range(wire[pg]))
  BY DEF WireInv
<1>3. Pgs' = Pgs
  BY SamePlans
<1> QED BY <1>1, <1>2, <1>3 DEF WireInv

LEMMA UsedSame ==
  ASSUME UsedInv, scene' = scene, used' = used PROVE UsedInv'
<1>1. Workers' = Workers /\ Placed' = Placed /\ \A x, pg, d : Fits(x, pg, d)' = Fits(x, pg, d)
  BY SameScene, SamePlans
<1> QED BY <1>1 DEF UsedInv

\* A step of a thread that does not share, that posts and takes nothing and
\* does not come to a copy.
LEMMA QuietStep ==
  ASSUME IInv, UNCHANGED <<scene, wire, count, used>>, NEW th \in Threads,
         DOMAIN todo' = Threads, unsent' = unsent,
         \A t \in Threads \ {th} : running'[t] = running[t] /\ todo'[t] = todo[t],
         running[th] = 0 \/ todo[th] = <<>> \/ todo[th][1].do \notin {"drain", "post"},
         \/ running'[th] = 0 /\ todo'[th] = <<>>
         \/ running'[th] # 0 /\ todo'[th] = Dead
         \/ running'[th] # 0 /\ todo'[th] \in Plans(th[1], running'[th])
  PROVE  TodoInv' /\ WireInv' /\ UsedInv' /\ SharingInv' /\ CopyInv'
<1>0. scene \in Scenes /\ ThreadInv /\ TodoInv /\ WireInv /\ UsedInv /\ SharingInv /\ CopyInv
  BY DEF IInv
<1>1. TodoInv'
  <2>1. DOMAIN unsent' = Threads
    BY <1>0 DEF TodoInv
  <2> QED BY <1>0, <2>1, TodoKeeps
<1>2. \A pg, q : Count(pg, q)' = Count(pg, q)
  BY DEF Count
<1>3. \A pg, q : Count(pg, q) \in Nat
  BY <1>0, CountIs
<1>4. WireInv'
  <2>1. \A x \in DOMAIN count' : count'[x] \in Nat
    BY <1>0 DEF WireInv
  <2> QED BY <1>0, <2>1, WireSame
<1>5. UsedInv'
  BY <1>0, UsedSame
<1>6. SharingInv'
  <2>1. \A pg, q : Count(pg, q)' \in Nat /\ Count(pg, q) <= Count(pg, q)'
    BY <1>2, <1>3
  <2>2. \A t \in Threads \ {th} : running'[t] = running[t] /\ todo'[t] = todo[t] /\ unsent'[t] = unsent[t]
    OBVIOUS
  <2> QED BY <1>0, <2>1, <2>2, SharingOther
<1>7. CopyInv'
  <2>1. ~AtOp(th, "clone")'
    <3>1. Dead[1].do = "dead" /\ Head(Dead) = Dead[1]
      BY DEF Dead
    <3> QED BY <3>1, PlanNoCopy DEF AtOp
  <2>2. \A pg \in DOMAIN wire : /\ pg \in DOMAIN wire'
                                /\ \A i \in 1..Len(wire[pg]) : i \in 1..Len(wire'[pg]) /\ wire'[pg][i] = wire[pg][i]
    OBVIOUS
  <2> QED BY <1>0, <1>2, <2>1, <2>2, CopyOther
<1> QED BY <1>1, <1>4, <1>5, <1>6, <1>7

LEMMA EnqueueKeeps ==
  ASSUME IInv, NEW r \in Workers, Enqueue(r) PROVE IInv'
<1>1. /\ UNCHANGED <<scene, wire, count, used, running, todo, unsent>> /\ running[Main(r)] = 0
  BY DEF Enqueue
<1>2. Main(r) \in Threads /\ Main(r)[1] = r
  BY ThreadFacts
<1>3. DOMAIN todo = Threads /\ todo[Main(r)] = <<>>
  BY <1>1, <1>2 DEF IInv, TodoInv
<1>4. ThreadInv' /\ MainInv' /\ ResultInv'
  BY EnqueueOrder DEF IInv
<1>5. TodoInv' /\ WireInv' /\ UsedInv' /\ SharingInv' /\ CopyInv'
  BY <1>1, <1>2, <1>3, QuietStep
<1>6. scene' \in Scenes
  BY <1>1 DEF IInv
<1> QED BY <1>4, <1>5, <1>6 DEF IInv

LEMMA CallSyncKeeps ==
  ASSUME IInv, NEW r \in Workers, CallSync(r) PROVE IInv'
<1> DEFINE c == issued[r] + 1
           M == Main(r)
<1>1. /\ UNCHANGED <<scene, wire, count, used, unsent>> /\ running[M] = 0 /\ c <= Len(CallsOf(r))
      /\ running' = [running EXCEPT ![M] = c] /\ todo' = [todo EXCEPT ![M] = Script(M[1], CallsOf(M[1])[c])]
  BY DEF CallSync, Begin
<1>2. M \in Threads /\ M[1] = r
  BY ThreadFacts
<1>3. /\ DOMAIN todo = Threads /\ DOMAIN running = Threads /\ issued[r] \in Nat /\ scene \in Scenes
  BY DEF IInv, TodoInv, ThreadInv
<1>4. ThreadInv' /\ MainInv' /\ ResultInv'
  BY <1>3, CallSyncOrder DEF IInv
<1>5. c # 0 /\ InScene(r, c)
  <2>1. c \in Nat /\ c >= 1 /\ c <= Len(CallsOf(r)) /\ Len(CallsOf(r)) \in Nat
    BY <1>1, <1>3, SceneFacts
  <2> HIDE DEF c
  <2> QED BY <1>3, <2>1 DEF InScene
<1>6. Script(r, CallsOf(r)[c]) \in Plans(r, c)
  BY <1>5, ScriptPlan
<1> HIDE DEF c, M
<1>7. TodoInv' /\ WireInv' /\ UsedInv' /\ SharingInv' /\ CopyInv'
  <2>1. running'[M] = c /\ todo'[M] \in Plans(M[1], c)
    BY <1>1, <1>2, <1>3, <1>6
  <2>2. DOMAIN todo' = Threads /\ \A t \in Threads \ {M} : running'[t] = running[t] /\ todo'[t] = todo[t]
    BY <1>1, <1>3
  <2> QED BY <1>1, <1>2, <1>5, <2>1, <2>2, QuietStep
<1>8. scene' \in Scenes
  BY <1>1, <1>3
<1> QED BY <1>4, <1>7, <1>8 DEF IInv

LEMMA RunQueueKeeps ==
  ASSUME IInv, NEW th \in Threads, RunQueue(th) PROVE IInv'
<1> DEFINE r == th[1]
           c == Head(queue[th])
<1>1. /\ UNCHANGED <<scene, wire, count, used, unsent>> /\ running[th] = 0
      /\ running' = [running EXCEPT ![th] = c] /\ todo' = [todo EXCEPT ![th] = Script(r, CallsOf(r)[c])]
  BY DEF RunQueue, Begin
<1>2. /\ DOMAIN todo = Threads /\ DOMAIN running = Threads /\ scene \in Scenes /\ r \in Workers
      /\ issued[r] \in Nat /\ issued[r] <= Len(CallsOf(r))
  BY ThreadFacts DEF IInv, TodoInv, ThreadInv
<1>3. ThreadInv' /\ MainInv' /\ ResultInv' /\ c \in 1..issued[r]
  BY <1>2, RunQueueOrder DEF IInv
<1> HIDE DEF r, c
<1>4. c # 0 /\ InScene(r, c)
  <2>1. Len(CallsOf(r)) \in Nat
    BY <1>2, SceneFacts
  <2> QED BY <1>2, <1>3, <2>1 DEF InScene
<1>5. Script(r, CallsOf(r)[c]) \in Plans(r, c)
  BY <1>4, ScriptPlan
<1>6. TodoInv' /\ WireInv' /\ UsedInv' /\ SharingInv' /\ CopyInv'
  <2>1. running'[th] = c /\ todo'[th] \in Plans(th[1], c)
    BY <1>1, <1>2, <1>5 DEF r
  <2>2. DOMAIN todo' = Threads /\ \A t \in Threads \ {th} : running'[t] = running[t] /\ todo'[t] = todo[t]
    BY <1>1, <1>2
  <2> QED BY <1>1, <1>4, <2>1, <2>2, QuietStep
<1>7. scene' \in Scenes
  BY <1>1, <1>2
<1> QED BY <1>3, <1>6, <1>7 DEF IInv

LEMMA ReturnKeeps ==
  ASSUME IInv, NEW th \in Threads, Return(th) PROVE IInv'
<1>1. /\ UNCHANGED <<scene, wire, count, used, unsent, todo>> /\ todo[th] = <<>>
      /\ running' = [running EXCEPT ![th] = 0]
  BY DEF Return
<1>2. DOMAIN todo = Threads /\ DOMAIN running = Threads /\ scene \in Scenes
  BY DEF IInv, TodoInv, ThreadInv
<1>3. ThreadInv' /\ MainInv' /\ ResultInv'
  BY ReturnOrder DEF IInv
<1>4. running'[th] = 0 /\ \A t \in Threads \ {th} : running'[t] = running[t]
  BY <1>1, <1>2
<1>5. TodoInv' /\ WireInv' /\ UsedInv' /\ SharingInv' /\ CopyInv'
  BY <1>1, <1>2, <1>4, QuietStep
<1>6. scene' \in Scenes
  BY <1>1, <1>2
<1> QED BY <1>3, <1>5, <1>6 DEF IInv

\* A step that changes nothing the invariant is about.
LEMMA SameKeeps ==
  ASSUME IInv, UNCHANGED <<scene, issued, queue, running, todo, unsent, wire, count, result, used>>
  PROVE  IInv'
<1>0. scene \in Scenes /\ ThreadInv /\ MainInv /\ ResultInv /\ TodoInv /\ WireInv /\ UsedInv /\ SharingInv /\ CopyInv
  BY DEF IInv
<1>1. /\ Workers' = Workers /\ Threads' = Threads /\ Ordered' = Ordered /\ Placed' = Placed
      /\ \A x : CallsOf(x)' = CallsOf(x)
      /\ \A x, d : ThreadOf(x, d)' = ThreadOf(x, d)
      /\ \A x, call : QueueOf(x, call)' = QueueOf(x, call)
      /\ \A x, y, z : Inward(x, y, z)' = Inward(x, y, z)
      /\ \A x, y, z : Taking(x, y, z)' = Taking(x, y, z)
  BY SameScene
<1>2. /\ \A x, pg, d : Fits(x, pg, d)' = Fits(x, pg, d)
      /\ \A x, c : Plans(x, c)' = Plans(x, c) /\ Copying(x, c)' = Copying(x, c)
      /\ Pgs' = Pgs
  BY SamePlans
<1>3. \A pg, q : Count(pg, q)' = Count(pg, q)
  BY DEF Count
<1>4. ThreadInv'
  BY <1>0, <1>1 DEF ThreadInv
<1>5. MainInv'
  BY <1>0, <1>1 DEF MainInv, Main, Busy
<1>6. ResultInv'
  <2>1. \A x \in Workers : \A d \in 1..issued[x] : Over(x, d) => Over(x, d)'
    BY <1>1 DEF Over, Dead
  <2>2. \A x \in Workers : issued[x] \in Nat /\ issued'[x] \in Nat /\ issued'[x] >= issued[x]
    BY <1>0 DEF ThreadInv
  <2> QED BY <1>0, <2>1, <2>2, ResultFrame
<1>7. TodoInv'
  BY <1>0, <1>1, <1>2 DEF TodoInv, Dead
<1>8. WireInv'
  <2>1. \A x \in DOMAIN count' : count'[x] \in Nat
    BY <1>0 DEF WireInv
  <2> QED BY <1>0, <2>1, WireSame
<1>9. UsedInv'
  BY <1>0, UsedSame
<1>10. SharingInv'
  <2> SUFFICES ASSUME Ordered, NEW pg \in DOMAIN wire, NEW i \in 1..Len(wire[pg]), NEW q \in Workers,
                    Open(pg, i, q)'
               PROVE  Sharing(pg, i)'
    BY SharingPrimed
  <2>1. Open(pg, i, q)
    BY <1>1, <1>3 DEF Open
  <2>2. Sharing(pg, i)
    BY <1>0, <2>1, SharingInvIs
  <2> QED BY <2>2, SharingSame
<1>11. CopyInv'
  <2> SUFFICES ASSUME Ordered, NEW th \in Threads, AtOp(th, "clone")'
               PROVE  \E pg \in DOMAIN wire : \E i \in 1..Len(wire[pg]) : CopiesFrom(th, pg, i)'
    BY CopyPrimed
  <2>1. AtOp(th, "clone")
    BY DEF AtOp
  <2>2. PICK pg \in DOMAIN wire : \E i \in 1..Len(wire[pg]) : CopiesFrom(th, pg, i)
    BY <1>0, <2>1, CopyInvIs
  <2>3. PICK i \in 1..Len(wire[pg]) : CopiesFrom(th, pg, i)
    BY <2>2
  <2>4. CopiesFrom(th, pg, i)'
    BY <1>1, <1>3, <2>3 DEF CopiesFrom
  <2> QED BY <2>4
<1>12. scene' \in Scenes
  BY <1>0
<1> QED BY <1>4, <1>5, <1>6, <1>7, <1>8, <1>9, <1>10, <1>11, <1>12 DEF IInv

\* An operation that only waits, or copies into the call's own memory.
LEMMA PopKeeps ==
  ASSUME IInv, NEW th \in Threads, NEW do \in {"join", "sync", "clone"}, AtOp(th, do), Pop(th),
         UNCHANGED <<scene, issued, queue, running, unsent, wire, count, result, used>>
  PROVE  IInv'
<1>1. scene \in Scenes /\ ThreadInv /\ MainInv /\ ResultInv /\ TodoInv
  BY DEF IInv
<1>2. DOMAIN todo = Threads
  BY <1>1 DEF TodoInv
<1>3. running[th] # 0 /\ todo[th] # Dead /\ Tail(todo[th]) \in Plans(th[1], running[th])
  <2>1. CASE do = "clone"
    BY <1>1, <2>1, AtCopy
  <2>2. CASE do # "clone"
    BY <1>1, <2>2, AtPlan
  <2> QED BY <2>1, <2>2
<1>4. todo[th] # <<>> /\ todo[th][1].do \notin {"drain", "post"}
  BY DEF AtOp
<1>5. ThreadInv' /\ MainInv' /\ ResultInv'
  <2> DEFINE s == Tail(todo[th])
  <2>1. todo' = [todo EXCEPT ![th] = s] /\ result' = result
    BY DEF Pop
  <2> HIDE DEF s
  <2>2. UNCHANGED <<scene, issued, queue, running>>
    OBVIOUS
  <2> QED BY <1>1, <1>2, <1>3, <2>1, <2>2, OperationOrder
<1>6. todo' = [todo EXCEPT ![th] = Tail(todo[th])]
  BY DEF Pop
<1>7. /\ DOMAIN todo' = Threads /\ todo'[th] = Tail(todo[th])
      /\ \A t \in Threads \ {th} : running'[t] = running[t] /\ todo'[t] = todo[t]
  BY <1>2, <1>6
<1>8. TodoInv' /\ WireInv' /\ UsedInv' /\ SharingInv' /\ CopyInv'
  BY <1>3, <1>4, <1>7, QuietStep
<1>9. scene' \in Scenes
  BY <1>1
<1> QED BY <1>5, <1>8, <1>9 DEF IInv

LEMMA PostKeeps ==
  ASSUME IInv, NEW th \in Threads, PostMessage(th) PROVE IInv'
<1> DEFINE r == th[1]
           c == running[th]
           op == Head(todo[th])
           s == Tail(todo[th])
<1>1. scene \in Scenes /\ ThreadInv /\ MainInv /\ ResultInv /\ TodoInv /\ WireInv /\ UsedInv /\ SharingInv /\ CopyInv
  BY DEF IInv
<1>2. /\ UNCHANGED <<scene, issued, queue, running, result>> /\ todo' = [todo EXCEPT ![th] = s]
      /\ used' = used \union UsedBy(r, c, op) /\ AtOp(th, "post")
  BY DEF PostMessage, Pop
<1>3. c # 0 /\ todo[th] # Dead /\ s \in Plans(r, c) /\ DOMAIN todo = Threads
  BY <1>1, <1>2, AtPlan DEF TodoInv
<1>4. MayPost(r, c, op.pg, op.what, op.slots)
  BY <1>1, PostFacts
<1>5. DOMAIN unsent' = Threads
  <2>1. DOMAIN unsent = Threads
    BY <1>1 DEF TodoInv
  <2> QED BY <2>1 DEF PostMessage
<1> HIDE DEF r, c, op, s
<1>6. ThreadInv' /\ MainInv' /\ ResultInv'
  BY <1>1, <1>2, <1>3, OperationOrder DEF c
<1>7. TodoInv'
  <2>1. /\ DOMAIN todo' = Threads /\ todo'[th] = s
        /\ \A t \in Threads \ {th} : running'[t] = running[t] /\ todo'[t] = todo[t]
    BY <1>2, <1>3
  <2>2. running'[th] # 0 /\ todo'[th] \in Plans(th[1], running'[th])
    BY <1>2, <1>3, <2>1 DEF r, c
  <2> QED BY <1>1, <1>2, <1>5, <2>1, <2>2, TodoKeeps
<1>8. WireInv'
  BY <1>1, PostWire
<1>9. UsedInv'
  <2>1. r \in Workers /\ OnDevice(r, c, op.pg, op.slots)
    BY <1>4, ThreadFacts DEF MayPost, r
  <2> QED BY <1>1, <1>2, <2>1, UsedStep
<1>10. SharingInv'
  BY <1>1, SharingPost
<1>11. CopyInv'
  BY <1>1, CopyPost
<1>12. scene' \in Scenes
  BY <1>1, <1>2
<1> QED BY <1>6, <1>7, <1>8, <1>9, <1>10, <1>11, <1>12 DEF IInv

LEMMA WaitKeeps ==
  ASSUME IInv, NEW th \in Threads, WaitSent(th) PROVE IInv'
<1> DEFINE s == Tail(todo[th])
<1>1. scene \in Scenes /\ ThreadInv /\ MainInv /\ ResultInv /\ TodoInv /\ WireInv /\ UsedInv /\ SharingInv /\ CopyInv
  BY DEF IInv
<1>2. /\ UNCHANGED <<scene, issued, queue, running, result, wire, count, used>>
      /\ todo' = [todo EXCEPT ![th] = s] /\ unsent' = [unsent EXCEPT ![th] = {}] /\ AtOp(th, "drain")
  BY DEF WaitSent, Pop
<1>3. /\ running[th] # 0 /\ todo[th] # Dead /\ s \in Plans(th[1], running[th])
      /\ DOMAIN todo = Threads /\ DOMAIN unsent = Threads
  BY <1>1, <1>2, AtPlan DEF TodoInv
<1> HIDE DEF s
<1>4. ThreadInv' /\ MainInv' /\ ResultInv'
  BY <1>1, <1>2, <1>3, OperationOrder
<1>5. /\ DOMAIN todo' = Threads /\ DOMAIN unsent' = Threads /\ todo'[th] = s
      /\ \A t \in Threads \ {th} : running'[t] = running[t] /\ todo'[t] = todo[t]
  BY <1>2, <1>3
<1>6. TodoInv'
  BY <1>1, <1>2, <1>3, <1>5, TodoKeeps
<1>7. WireInv'
  <2>1. \A x \in DOMAIN count' : count'[x] \in Nat
    BY <1>1, <1>2 DEF WireInv
  <2> QED BY <1>1, <1>2, <2>1, WireSame
<1>8. UsedInv'
  BY <1>1, <1>2, UsedSame
<1>9. SharingInv'
  BY <1>1, SharingWait
<1>10. CopyInv'
  <2>1. ~AtOp(th, "clone")'
    BY <1>3, <1>5, PlanNoCopy DEF AtOp
  <2>2. \A pg \in DOMAIN wire : /\ pg \in DOMAIN wire'
                                /\ \A i \in 1..Len(wire[pg]) : i \in 1..Len(wire'[pg]) /\ wire'[pg][i] = wire[pg][i]
    BY <1>2
  <2>3. \A pg, q : Count(pg, q)' = Count(pg, q)
    BY <1>2 DEF Count
  <2> QED BY <1>1, <1>2, <1>5, <2>1, <2>2, <2>3, CopyOther
<1>11. scene' \in Scenes
  BY <1>1, <1>2
<1> QED BY <1>4, <1>6, <1>7, <1>8, <1>9, <1>10, <1>11 DEF IInv

LEMMA RaiseKeeps ==
  ASSUME IInv, NEW th \in Threads, AtOp(th, "take"), Raise(th) PROVE IInv'
<1>1. scene \in Scenes /\ ThreadInv /\ MainInv /\ ResultInv /\ TodoInv
  BY DEF IInv
<1>2. /\ UNCHANGED <<scene, issued, queue, running, unsent, wire, count, used>>
      /\ todo' = [todo EXCEPT ![th] = Dead]
      /\ DOMAIN result' = DOMAIN result \union {<<th[1], running[th]>>}
  BY DEF Raise, Record, Dead
<1>3. /\ running[th] # 0 /\ todo[th] # <<>> /\ Head(todo[th]).do = "take" /\ DOMAIN todo = Threads
  BY <1>1, AtPlan DEF TodoInv
<1>4. ThreadInv' /\ MainInv' /\ ResultInv'
  BY <1>1, <1>2, <1>3, OperationOrder
<1>5. /\ DOMAIN todo' = Threads /\ todo'[th] = Dead
      /\ \A t \in Threads \ {th} : running'[t] = running[t] /\ todo'[t] = todo[t]
  BY <1>2, <1>3
<1>6. todo[th][1].do \notin {"drain", "post"}
  BY <1>3
<1>7. TodoInv' /\ WireInv' /\ UsedInv' /\ SharingInv' /\ CopyInv'
  BY <1>2, <1>3, <1>5, <1>6, QuietStep
<1>8. scene' \in Scenes
  BY <1>1, <1>2
<1> QED BY <1>4, <1>7, <1>8 DEF IInv

LEMMA TakeKeeps ==
  ASSUME IInv, NEW th \in Threads, TakeMessage(th) PROVE IInv'
<1> DEFINE r == th[1]
           c == running[th]
           op == Head(todo[th])
           n == Count(op.pg, r) + 1
           msg == Wire(op.pg)[n]
           s == Learned(r, CallsOf(r)[c], op, msg) \o Tail(todo[th])
<1>1. scene \in Scenes /\ ThreadInv /\ MainInv /\ ResultInv /\ TodoInv /\ WireInv /\ UsedInv /\ SharingInv /\ CopyInv
  BY DEF IInv
<1>2. AtOp(th, "take") /\ Count(op.pg, r) < Len(Wire(op.pg))
  BY DEF TakeMessage
<1>3. CASE msg.what # op.what
  <2>1. Raise(th)
    BY <1>3, SMTT(30) DEF TakeMessage
  <2> QED BY <1>2, <2>1, RaiseKeeps
<1>4. CASE msg.what = op.what
  <2>1. /\ UNCHANGED <<scene, issued, queue, running, unsent, wire, result>>
        /\ todo' = [todo EXCEPT ![th] = s] /\ count' = Counted(op.pg, r)
        /\ used' = used \union UsedBy(r, c, op)
    BY <1>4, ZenonT(40) DEF TakeMessage
  <2>2. CopyInv'
    <3>1. Took(th)
      BY <1>2, <1>4, <2>1 DEF Took
    <3> QED BY <1>1, <3>1, CopyTake, SMTT(30)
  <2>3. /\ MayTake(r, c, op.pg, op.what, op.slots) /\ Heard(r, c, op, msg) /\ Sent(op.pg, msg)
    BY <1>1, <1>2, <1>4, TakeFacts
  <2>4. /\ c # 0 /\ todo[th] # Dead /\ todo[th] # <<>> /\ op.do = "take" /\ op = todo[th][1]
        /\ Tail(todo[th]) \in Plans(r, c) /\ DOMAIN todo = Threads /\ DOMAIN unsent = Threads
    BY <1>1, <1>2, AtPlan DEF TodoInv
  <2>5. s \in Plans(r, c) \/ s \in Copying(r, c)
    <3>1. msg.slots \in Seq(Nat)
      BY <2>3 DEF Sent
    <3>2. s = AfterTake(r, c, op, msg, Tail(todo[th]))
      BY DEF AfterTake
    <3> HIDE DEF msg, op, s
    <3> QED BY <2>3, <2>4, <3>1, <3>2, TakeTodo, SMTT(30)
  <2> DEFINE pg0 == op.pg
  <2> HIDE DEF s, msg, n, op, r, c
  <2>6. ThreadInv' /\ MainInv' /\ ResultInv'
    BY <1>1, <2>1, <2>4, OperationOrder DEF c
  <2>7. /\ DOMAIN todo' = Threads /\ todo'[th] = s
        /\ \A t \in Threads \ {th} : running'[t] = running[t] /\ todo'[t] = todo[t]
    BY <2>1, <2>4
  <2>8. TodoInv'
    <3>1. /\ running'[th] # 0
          /\ todo'[th] \in Plans(th[1], running'[th]) \/ todo'[th] \in Copying(th[1], running'[th])
      BY <2>1, <2>4, <2>5, <2>7 DEF r, c
    <3>2. DOMAIN unsent' = Threads
      BY <2>1, <2>4
    <3> QED BY <1>1, <2>1, <2>7, <3>1, <3>2, TodoKeeps
  <2>9. WireInv'
    <3>1. \A x \in DOMAIN count' : count'[x] \in Nat
      BY <1>1, <2>1, CountedInv
    <3> QED BY <1>1, <2>1, <3>1, WireSame
  <2>10. UsedInv'
    <3>1. r \in Workers /\ OnDevice(r, c, op.pg, op.slots)
      BY <2>3, ThreadFacts DEF MayTake, r
    <3> QED BY <1>1, <2>1, <3>1, UsedStep
  <2>11. SharingInv'
    <3>1. ASSUME NEW pg, NEW q PROVE Count(pg, q)' \in Nat /\ Count(pg, q) <= Count(pg, q)'
      <4>1. Count(pg, q) \in Nat /\ Count(pg0, r) \in Nat
        BY <1>1, CountIs
      <4> HIDE DEF pg0
      <4>2. Count(pg, q)' = IF pg = pg0 /\ q = r THEN Count(pg0, r) + 1 ELSE Count(pg, q)
        BY <2>1, CountedIs DEF pg0
      <4> QED BY <4>1, <4>2
    <3>2. \A t \in Threads \ {th} : running'[t] = running[t] /\ todo'[t] = todo[t] /\ unsent'[t] = unsent[t]
      BY <2>1, <2>7
    <3>3. todo[th][1].do \notin {"drain", "post"}
      BY <2>4
    <3> QED BY <1>1, <2>1, <3>1, <3>2, <3>3, SharingOther
  <2>12. scene' \in Scenes
    BY <1>1, <2>1
  <2> QED BY <2>2, <2>6, <2>8, <2>9, <2>10, <2>11, <2>12, SMTT(30) DEF IInv
<1> QED BY <1>3, <1>4

LEMMA IInvStep ==
  ASSUME IInv, [Next]_vars PROVE IInv'
<1>1. ASSUME NEW r \in Workers, CallNext(r) PROVE IInv'
  BY <1>1, EnqueueKeeps, CallSyncKeeps DEF CallNext
<1>2. ASSUME NEW th \in Threads, Step(th) PROVE IInv'
  <2>1. CASE RunQueue(th)
    BY <2>1, RunQueueKeeps
  <2>2. CASE Return(th)
    BY <2>2, ReturnKeeps
  <2>3. CASE EnterGroup(th)
    BY <2>3, SameKeeps DEF EnterGroup
  <2>4. CASE LeaveGroupInit(th)
    BY <2>4, PopKeeps DEF LeaveGroupInit
  <2>5. CASE PostMessage(th)
    BY <2>5, PostKeeps, SMTT(30)
  <2>6. CASE WaitSent(th)
    BY <2>6, WaitKeeps, SMTT(30)
  <2>7. CASE TakeMessage(th)
    BY <2>7, TakeKeeps, SMTT(30)
  <2>8. CASE CloneTensors(th)
    BY <2>8, PopKeeps DEF CloneTensors
  <2>9. CASE Synchronize(th)
    BY <2>9, PopKeeps DEF Synchronize
  <2> QED BY <1>2, <2>1, <2>2, <2>3, <2>4, <2>5, <2>6, <2>7, <2>8, <2>9 DEF Step
<1>3. ASSUME NEW x, Land(x) PROVE IInv'
  BY <1>3, SameKeeps DEF Land
<1>4. CASE UNCHANGED vars
  BY <1>4, SameKeeps DEF vars
<1> QED BY <1>1, <1>2, <1>3, <1>4 DEF Next, Finished

-----------------------------------------------------------------------------
(* What the invariant shows                                                 *)

\* Who copies holds handles that are open: their sender waits, and has not
\* returned.
LEMMA CopyIsLive ==
  ASSUME IInv, Ordered PROVE HandlesLive
<1> SUFFICES ASSUME NEW th \in Threads, AtOp(th, "clone"), Head(todo[th]).from \in DOMAIN result
             PROVE  FALSE
  BY DEF HandlesLive
<1>1. scene \in Scenes /\ ThreadInv /\ ResultInv /\ TodoInv /\ WireInv /\ SharingInv /\ CopyInv
  BY DEF IInv
<1>2. PICK pg \in DOMAIN wire : \E i \in 1..Len(wire[pg]) : CopiesFrom(th, pg, i)
  BY <1>1, CopyInvIs
<1>3. PICK i \in 1..Len(wire[pg]) : CopiesFrom(th, pg, i)
  BY <1>2
<1> DEFINE p == wire[pg][i].owner
           d == wire[pg][i].call
           T == ThreadOf(p, d)
<1>4. Open(pg, i, th[1])
  <2>1. Count(pg, th[1]) <= i
    BY <1>3 DEF CopiesFrom
  <2> QED BY <1>3, <2>1 DEF CopiesFrom, Open
<1>5. Sharing(pg, i)
  BY <1>1, <1>4, SharingInvIs, ThreadFacts
<1>6. running[T] = d /\ todo[T] # Dead
  BY <1>1, <1>5, SharingFacts DEF PosterOf
<1>7. Head(todo[th]).from = <<p, d>>
  BY <1>3 DEF CopiesFrom
<1> HIDE DEF T, p, d
<1>8. PICK x \in Workers : \E y \in 1..issued[x] : <<p, d>> = <<x, y>> /\ Over(x, y)
  BY <1>1, <1>7, ResultInvIs
<1>9. Over(p, d)
  BY <1>8
<1> QED BY <1>6, <1>9 DEF Over, T

\* Two workers of a pair that use one device: one of them sends what the other
\* does not take in its place.
LEMMA PairApart ==
  ASSUME scene \in Scenes, NEW x \in Workers, NEW y \in Workers \ {x}, NEW pg, NEW d,
         d \in scene.accels[x], d \in scene.accels[y],
         NEW q \in Workers \ {x}, Outward(x, q, pg), d # scene.current[q], FitsPair(y, pg, d)
  PROVE  FALSE
<1>1. PICK s \in Workers \ {y} :
        \/ Outward(y, s, pg) /\ d # scene.current[s]
        \/ Inward(y, s, pg) /\ (d = scene.current[y] \/ Relation(y, s) = "apart")
  BY DEF FitsPair
<1>2. ~Outward(y, s, pg)
  BY <1>1, LaneFacts
<1>3. Inward(y, s, pg) /\ (d = scene.current[y] \/ Relation(y, s) = "apart")
  BY <1>1, <1>2
<1>4. y = q /\ s = x
  BY <1>1, <1>3, LaneFacts
<1>5. Relation(y, x) = "apart"
  BY <1>3, <1>4
<1> QED BY <1>5 DEF Relation

LEMMA PairFits ==
  ASSUME scene \in Scenes, NEW x \in Workers, NEW y \in Workers \ {x}, NEW pg, NEW d,
         d \in scene.accels[x], d \in scene.accels[y], FitsPair(x, pg, d), FitsPair(y, pg, d)
  PROVE  FALSE
<1>1. PICK q \in Workers \ {x} :
        \/ Outward(x, q, pg) /\ d # scene.current[q]
        \/ Inward(x, q, pg) /\ (d = scene.current[x] \/ Relation(x, q) = "apart")
  BY DEF FitsPair
<1>2. CASE Outward(x, q, pg) /\ d # scene.current[q]
  BY <1>1, <1>2, PairApart
<1>3. CASE Inward(x, q, pg)
  <2>1. PICK s \in Workers \ {y} :
          \/ Outward(y, s, pg) /\ d # scene.current[s]
          \/ Inward(y, s, pg) /\ (d = scene.current[y] \/ Relation(y, s) = "apart")
    BY DEF FitsPair
  <2>2. CASE Outward(y, s, pg) /\ d # scene.current[s]
    <3>1. x \in Workers \ {y}
      OBVIOUS
    <3> QED BY <2>1, <2>2, <3>1, PairApart
  <2>3. CASE Inward(y, s, pg)
    <3>1. Outward(q, x, pg) /\ Outward(s, y, pg)
      BY <1>1, <1>3, <2>1, <2>3, LaneFacts
    <3> QED BY <1>1, <2>1, <3>1, LaneFacts
  <2> QED BY <2>1, <2>2, <2>3
<1> QED BY <1>1, <1>2, <1>3

\* Two workers of a collective that use one device: the source is apart from
\* the others, and two others on one device are in one group of it.
LEMMA GroupFits ==
  ASSUME scene \in Scenes, Placed, NEW x \in Workers, NEW y \in Workers \ {x}, NEW g, NEW d,
         d \in scene.accels[x], d \in scene.accels[y], FitsAll(x, g, d), FitsAll(y, g, d)
  PROVE  FALSE
<1>1. x \in Range(g) /\ y \in Range(g)
  BY DEF FitsAll
<1>2. PICK src \in Workers : Hears(x, src) /\ Spread(g, src) /\ (x # src => d = scene.current[x])
  BY DEF FitsAll
<1>3. PICK own \in Workers : Hears(y, own) /\ Spread(g, own) /\ (y # own => d = scene.current[y])
  BY DEF FitsAll
<1>4. Relation(x, y) # "apart" /\ Relation(y, x) # "apart"
  BY DEF Relation
<1>5. x # src /\ y # src /\ x # own /\ y # own
  BY <1>1, <1>2, <1>3, <1>4 DEF Spread
<1>6. Relation(src, x) = "apart" /\ Relation(src, y) = "apart"
  BY <1>1, <1>2, <1>5 DEF Spread
<1>7. scene.current[x] = d /\ scene.current[y] = d
  BY <1>2, <1>3, <1>5
<1>8. OneDevice(x) /\ OneDevice(y)
  BY <1>2, <1>6, <1>7 DEF Placed
<1>9. scene.accels[x] = {d} /\ scene.accels[y] = {d}
  BY <1>8, OneDeviceIs
<1>10. scene.accels[x] # scene.accels[y]
  BY <1>1, <1>2, <1>5, <1>8 DEF Spread
<1> QED BY <1>9, <1>10

LEMMA FitsAlone ==
  ASSUME IInv, Placed PROVE NoSharedAccelerator
<1> SUFFICES ASSUME NEW a \in used, NEW b \in used, a[1] = b[1], a[2] # b[2], a[3] = b[3] PROVE FALSE
  BY DEF NoSharedAccelerator
<1> DEFINE x == a[2]
           y == b[2]
           d == a[3]
           pg == a[1]
<1>1. scene \in Scenes /\ UsedInv
  BY DEF IInv
<1>2. x \in Workers /\ y \in Workers \ {x} /\ Fits(x, pg, d) /\ Fits(y, pg, d)
  BY <1>1 DEF UsedInv
<1> HIDE DEF x, y, d, pg
<1>3. d \in scene.accels[x] /\ d \in scene.accels[y]
  BY <1>2 DEF Fits
<1>4. CASE pg.lane = "collective"
  <2>1. FitsAll(x, pg.group, d) /\ FitsAll(y, pg.group, d)
    BY <1>2, <1>4 DEF Fits
  <2> QED BY <1>1, <1>2, <1>3, <2>1, GroupFits
<1>5. CASE pg.lane # "collective"
  <2>1. FitsPair(x, pg, d) /\ FitsPair(y, pg, d)
    BY <1>2, <1>5 DEF Fits
  <2> QED BY <1>1, <1>2, <1>3, <2>1, PairFits
<1> QED BY <1>4, <1>5

-----------------------------------------------------------------------------
(* Theorems                                                                 *)

\* In every scene every call keeps to its plan, every process group carries
\* only what its worker may post there, handles that may still be read have a
\* sender that waits, and a call with a result is over.
THEOREM IInvHolds == Spec => []IInv
<1>1. Init => IInv
  BY IInvInit
<1>2. IInv /\ [Next]_vars => IInv'
  BY IInvStep
<1> QED BY <1>1, <1>2, PTL DEF Spec

\* Whatever the calls, the devices and the interleaving: as long as calls that
\* may run at once are of different directions (Ordered), memory shared by IPC
\* (_send_tensor_list_via_ipc) is copied before the call that shares it returns.
THEOREM HandlesLiveHolds == Spec => [](Ordered => HandlesLive)
<1>1. IInv => (Ordered => HandlesLive)
  BY CopyIsLive
<1> QED BY <1>1, IInvHolds, PTL

\* With the workers placed as _group_ranks_by_device can see (Placed), no
\* process group of the CCL has two workers on one device, by whichever route a
\* broadcast, a send or a send_tensor goes.
THEOREM NoSharedAcceleratorHolds == Spec => [](Placed => NoSharedAccelerator)
<1>1. IInv => (Placed => NoSharedAccelerator)
  BY FitsAlone
<1> QED BY <1>1, IInvHolds, PTL
=============================================================================
