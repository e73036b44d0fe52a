-------------------------- MODULE DeviceLockProofs --------------------------
(***************************************************************************)
(* For any number of workers and accelerators, and any assignment of one to *)
(* the other: the device lock is exclusive, none of its assertions and      *)
(* errors can be raised, and it serves conflicting workers in the order of  *)
(* their calls.                                                             *)
(*                                                                          *)
(* The point of LockInv is its third part: a lock that was released for a   *)
(* waiter looks unlocked until the waiter's coroutine runs again, and stays *)
(* protected by its queue meanwhile.  The point of OrderInv is that every   *)
(* device's queue is ordered like the calls, behind its owner: that makes   *)
(* many queues one, and the detailed locks implement ResourceLock.          *)
(***************************************************************************)
EXTENDS DeviceLock, TLAPS

\* Who holds a lock, who is on the way to it, and who relies on it.
LockInv ==
  /\ LockTypeOK
  /\ \A d \in Devices : locked[d] <=> owner[d] # Nobody
  /\ \A d \in Devices : woken[d] => ~locked[d] /\ waiters[d] # <<>>
  /\ \A w \in Workers : at[w] = "inside" => \A d \in Uses[w] : owner[d] = w

\* No lock is held, nobody waits.
LEMMA InitLockInv == ASSUME Init PROVE LockInv
BY NobodyAssumption DEF Init, LockInv, LockTypeOK

\* A new caller takes free locks only; a woken waiter's lock is not free.
LEMMA AcquireStep ==
  ASSUME LockInv, NEW w \in Workers, Acquire(w) PROVE LockInv'
<1> DEFINE takes == {d \in Uses[w] : owner[d] # w /\ Free(d)}
<1> DEFINE waits == {d \in Uses[w] : owner[d] # w /\ ~Free(d)}
<1> USE UsesAssumption, NobodyAssumption
<1>1. /\ at' = [at EXCEPT ![w] = "waiting"]
      /\ locked' = [d \in Devices |-> locked[d] \/ d \in takes]
      /\ owner' = [d \in Devices |-> IF d \in takes THEN w ELSE owner[d]]
      /\ waiters' = [d \in Devices |-> IF d \in waits THEN Enqueue(d, w) ELSE waiters[d]]
      /\ woken' = woken
  BY Zenon DEF Acquire
<1>2. \A d \in takes : d \in Devices /\ ~locked[d] /\ waiters[d] = <<>>
  BY DEF Free
<1>3. \A d \in Devices : Enqueue(d, w) \in Seq(Workers) /\ Enqueue(d, w) # <<>>
  <2> SUFFICES ASSUME NEW d \in Devices
               PROVE  Enqueue(d, w) \in Seq(Workers) /\ Enqueue(d, w) # <<>>
    OBVIOUS
  <2>1. waiters[d] \in Seq(Workers)
    BY DEF LockInv, LockTypeOK
  <2>2. Append(waiters[d], w) \in Seq(Workers) /\ Len(Append(waiters[d], w)) # 0
    BY <2>1
  <2> QED BY <2>2 DEF Enqueue
<1> HIDE DEF takes, waits
<1>4. LockTypeOK'
  <2>1. at' \in [Workers -> {"outside", "waiting", "inside"}]
    BY <1>1 DEF LockInv, LockTypeOK
  <2>2. locked' \in [Devices -> BOOLEAN] /\ woken' \in [Devices -> BOOLEAN]
    BY <1>1 DEF LockInv, LockTypeOK
  <2>3. owner' \in [Devices -> Workers \cup {Nobody}]
    BY <1>1 DEF LockInv, LockTypeOK
  <2>4. waiters' \in [Devices -> Seq(Workers)]
    BY <1>1, <1>3 DEF LockInv, LockTypeOK
  <2> QED BY <2>1, <2>2, <2>3, <2>4 DEF LockTypeOK
<1>5. \A d \in Devices : locked'[d] <=> owner'[d] # Nobody
  BY <1>1 DEF LockInv
<1>6. \A d \in Devices : woken'[d] => ~locked'[d] /\ waiters'[d] # <<>>
  BY <1>1, <1>2, <1>3 DEF LockInv
<1>7. ASSUME NEW v \in Workers, at'[v] = "inside", NEW d \in Uses[v]
      PROVE  owner'[d] = v
  <2>1. at[v] = "inside"
    BY <1>1, <1>7 DEF LockInv, LockTypeOK
  <2>2. owner[d] = v /\ d \in Devices /\ locked[d]
    BY <2>1 DEF LockInv
  <2>3. d \notin takes
    BY <1>2, <2>2
  <2> QED BY <1>1, <2>2, <2>3
<1> QED BY <1>4, <1>5, <1>6, <1>7 DEF LockInv

\* The woken waiter finds the lock as the release left it.
LEMMA ResumeStep ==
  ASSUME LockInv, NEW d \in Devices, Resume(d) PROVE LockInv'
<1>1. /\ woken[d] /\ waiters[d] # <<>> /\ ~locked[d] /\ owner[d] = Nobody
      /\ Head(waiters[d]) \in Workers /\ Tail(waiters[d]) \in Seq(Workers)
  BY DEF Resume, LockInv, LockTypeOK
<1>2. /\ woken' = [woken EXCEPT ![d] = FALSE] /\ at' = at
      /\ waiters' = [waiters EXCEPT ![d] = Tail(waiters[d])]
      /\ locked' = [locked EXCEPT ![d] = TRUE]
      /\ owner' = [owner EXCEPT ![d] = Head(waiters[d])]
  BY <1>1 DEF Resume
<1>3. LockTypeOK'
  BY <1>1, <1>2 DEF LockInv, LockTypeOK
<1>4. \A e \in Devices : locked'[e] <=> owner'[e] # Nobody
  BY <1>1, <1>2, NobodyAssumption DEF LockInv, LockTypeOK
<1>5. \A e \in Devices : woken'[e] => ~locked'[e] /\ waiters'[e] # <<>>
  BY <1>1, <1>2 DEF LockInv, LockTypeOK
<1>6. \A w \in Workers : at'[w] = "inside" => \A e \in Uses[w] : owner'[e] = w
  BY <1>1, <1>2, UsesAssumption, NobodyAssumption DEF LockInv, LockTypeOK
<1> QED BY <1>3, <1>4, <1>5, <1>6 DEF LockInv

\* A worker enters when all its locks are its own.
LEMMA EnterStep ==
  ASSUME LockInv, NEW w \in Workers, Enter(w) PROVE LockInv'
BY DEF Enter, locks, LockInv, LockTypeOK

\* A worker gives back its own locks, and nobody else inside relies on them.
LEMMA ReleaseStep ==
  ASSUME LockInv, NEW w \in Workers, Release(w) PROVE LockInv'
<1> USE UsesAssumption, NobodyAssumption
<1>1. /\ at[w] = "inside" /\ at' = [at EXCEPT ![w] = "outside"]
      /\ locked' = [d \in Devices |-> locked[d] /\ d \notin Uses[w]]
      /\ owner' = [d \in Devices |-> IF d \in Uses[w] THEN Nobody ELSE owner[d]]
      /\ woken' = [d \in Devices |-> woken[d] \/ (d \in Uses[w] /\ WakeUpFirst(d))]
      /\ waiters' = waiters
  BY DEF Release
<1>2. LockTypeOK'
  BY <1>1 DEF LockInv, LockTypeOK, WakeUpFirst
<1>3. \A d \in Devices : locked'[d] <=> owner'[d] # Nobody
  BY <1>1 DEF LockInv
<1>4. \A d \in Devices : woken'[d] => ~locked'[d] /\ waiters'[d] # <<>>
  BY <1>1 DEF LockInv, WakeUpFirst
<1>5. ASSUME NEW v \in Workers, at'[v] = "inside", NEW d \in Uses[v]
      PROVE  owner'[d] = v
  <2>1. at[v] = "inside" /\ v # w
    BY <1>1, <1>5 DEF LockInv, LockTypeOK
  <2>2. owner[d] = v /\ d \in Devices
    BY <2>1 DEF LockInv
  <2>3. d \notin Uses[w]
    BY <1>1, <2>1, <2>2 DEF LockInv
  <2> QED BY <1>1, <2>2, <2>3
<1> QED BY <1>2, <1>3, <1>4, <1>5 DEF LockInv

\* LockInv holds in every reachable state.
THEOREM LockInvariance == Spec => []LockInv
<1>1. LockInv /\ [Next]_vars => LockInv'
  <2> SUFFICES ASSUME LockInv, [Next]_vars PROVE LockInv'
    OBVIOUS
  <2>1. CASE \E w \in Workers : Acquire(w) \/ Enter(w) \/ Release(w)
    BY <2>1, AcquireStep, EnterStep, ReleaseStep
  <2>2. CASE \E d \in Devices : Resume(d)
    BY <2>2, ResumeStep
  <2>3. CASE UNCHANGED vars
    BY <2>3 DEF vars, locks, LockInv, LockTypeOK
  <2> QED BY <2>1, <2>2, <2>3 DEF Next
<1> QED BY <1>1, InitLockInv, PTL DEF Spec

\* Two workers inside their blocks share no accelerator: each owns the locks
\* of all of its accelerators.
THEOREM Exclusion == Spec => []OneWorkerPerDevice
<1>1. LockInv => OneWorkerPerDevice
  BY UsesAssumption DEF LockInv, OneWorkerPerDevice
<1> QED BY <1>1, LockInvariance, PTL

\* The assertion in acquire and the two RuntimeErrors of release are out of
\* reach.
THEOREM NoErrors == Spec => []NothingRaises
<1>1. LockInv => NothingRaises
  BY UsesAssumption, NobodyAssumption DEF LockInv, LockTypeOK, NothingRaises
<1> QED BY <1>1, LockInvariance, PTL

-----------------------------------------------------------------------------
(* The order of service.  A worker that waits is in line on every device it *)
(* does not have, and every line is ordered like the calls.                 *)

\* v comes before w in q.
Before(q, v, w) == \E i, j \in DOMAIN q : i < j /\ q[i] = v /\ q[j] = w

\* The history lists the waiting workers, each once.
AskedInv ==
  /\ asked \in Seq(Workers)
  /\ \A i, j \in DOMAIN asked : asked[i] = asked[j] => i = j
  /\ \A w \in Workers : at[w] = "waiting" <=> \E i \in DOMAIN asked : asked[i] = w

\* Who is in line wants the device and does not have it.
LineInv ==
  \A d \in Devices : \A k \in DOMAIN waiters[d] :
    LET v == waiters[d][k]
    IN  at[v] = "waiting" /\ d \in Uses[v] /\ owner[d] # v

\* Lines are ordered like the calls.
LineOrder ==
  \A d \in Devices : \A k, l \in DOMAIN waiters[d] :
    k < l => Before(asked, waiters[d][k], waiters[d][l])

\* Who has a device wants it, and called before those in line for it.
OwnerInv ==
  \A d \in Devices : owner[d] # Nobody =>
    /\ d \in Uses[owner[d]] /\ at[owner[d]] \in {"waiting", "inside"}
    /\ at[owner[d]] = "waiting" =>
         \A k \in DOMAIN waiters[d] : Before(asked, owner[d], waiters[d][k])

\* Who waits has the device or is in line for it.
InLine ==
  \A w \in Workers : at[w] = "waiting" =>
    \A d \in Uses[w] : owner[d] = w \/ \E k \in DOMAIN waiters[d] : waiters[d][k] = w

OrderInv == AskedInv /\ LineInv /\ LineOrder /\ OwnerInv /\ InLine

\* Nobody has called yet.
LEMMA InitOrderInv == ASSUME Init PROVE OrderInv
BY UsesAssumption DEF Init, OrderInv, AskedInv, LineInv, LineOrder, OwnerInv, InLine

(* The history. *)

\* Appending a worker that is not in the history puts it last.
LEMMA Appended ==
  ASSUME AskedInv, NEW w \in Workers, \A i \in DOMAIN asked : asked[i] # w,
         asked' = Append(asked, w)
  PROVE  /\ asked' \in Seq(Workers)
         /\ \A i, j \in DOMAIN asked' : asked'[i] = asked'[j] => i = j
         /\ \A v \in Workers : (\E i \in DOMAIN asked' : asked'[i] = v)
                                 <=> v = w \/ \E i \in DOMAIN asked : asked[i] = v
         /\ \A v, u \in Workers : Before(asked, v, u) => Before(asked', v, u)
         /\ \A v \in Workers : (\E i \in DOMAIN asked : asked[i] = v) => Before(asked', v, w)
<1> DEFINE n == Len(asked)
<1>1. /\ asked \in Seq(Workers) /\ n \in Nat /\ DOMAIN asked = 1 .. n
      /\ \A i, j \in 1 .. n : asked[i] = asked[j] => i = j
  BY DEF AskedInv
<1>2. /\ asked' \in Seq(Workers) /\ DOMAIN asked' = 1 .. n + 1
      /\ \A i \in 1 .. n : asked'[i] = asked[i]
      /\ asked'[n + 1] = w
  BY <1>1
<1> HIDE DEF n
<1>3. \A i, j \in DOMAIN asked' : asked'[i] = asked'[j] => i = j
  BY <1>1, <1>2
<1>4. \A v \in Workers : (\E i \in DOMAIN asked' : asked'[i] = v)
                            <=> v = w \/ \E i \in DOMAIN asked : asked[i] = v
  BY <1>1, <1>2
<1>5. \A v, u \in Workers : Before(asked, v, u) => Before(asked', v, u)
  BY <1>1, <1>2 DEF Before
<1>6. \A v \in Workers : (\E i \in DOMAIN asked : asked[i] = v) => Before(asked', v, w)
  BY <1>1, <1>2 DEF Before
<1> QED BY <1>2, <1>3, <1>4, <1>5, <1>6

\* What is left of a sequence without its i-th element.
LEMMA WithoutProperties ==
  ASSUME NEW S, NEW q \in Seq(S), NEW i \in DOMAIN q
  PROVE  /\ OneLock!Without(q, i) \in Seq(S)
         /\ DOMAIN OneLock!Without(q, i) = 1 .. Len(q) - 1
         /\ \A k \in 1 .. Len(q) - 1 :
              OneLock!Without(q, i)[k] = IF k < i THEN q[k] ELSE q[k + 1]
<1>1. i \in 1 .. Len(q) /\ Len(q) \in Nat
  OBVIOUS
<1> DEFINE a == SubSeq(q, 1, i - 1)
<1> DEFINE b == SubSeq(q, i + 1, Len(q))
<1>2. a \in Seq(S) /\ Len(a) = i - 1 /\ \A k \in 1 .. i - 1 : a[k] = q[k]
  BY <1>1
<1>3. b \in Seq(S) /\ Len(b) = Len(q) - i /\ \A k \in 1 .. Len(q) - i : b[k] = q[i + k]
  BY <1>1
<1> HIDE DEF a, b
<1>4. /\ a \o b \in Seq(S) /\ Len(a \o b) = Len(q) - 1
      /\ \A k \in 1 .. Len(q) - 1 : (a \o b)[k] = IF k < i THEN q[k] ELSE q[k + 1]
  BY <1>1, <1>2, <1>3
<1>5. a \o b = OneLock!Without(q, i)
  BY DEF a, b, OneLock!Without
<1>6. DOMAIN (a \o b) = 1 .. Len(q) - 1
  BY <1>1, <1>4
<1> QED BY <1>4, <1>5, <1>6

\* Removing a worker keeps the others and their order.
LEMMA Forgotten ==
  ASSUME AskedInv, NEW i \in DOMAIN asked, NEW w, asked[i] = w,
         asked' = OneLock!Without(asked, i)
  PROVE  /\ asked' \in Seq(Workers)
         /\ \A k, j \in DOMAIN asked' : asked'[k] = asked'[j] => k = j
         /\ \A v \in Workers : (\E k \in DOMAIN asked' : asked'[k] = v)
                                 <=> v # w /\ \E k \in DOMAIN asked : asked[k] = v
         /\ \A v, u \in Workers : v # w /\ u # w /\ Before(asked, v, u) => Before(asked', v, u)
<1> DEFINE n == Len(asked)
<1>1. /\ asked \in Seq(Workers) /\ n \in Nat /\ DOMAIN asked = 1 .. n /\ i \in 1 .. n
      /\ \A k, j \in 1 .. n : asked[k] = asked[j] => k = j
  BY DEF AskedInv
<1>2. /\ asked' \in Seq(Workers) /\ DOMAIN asked' = 1 .. n - 1
      /\ \A k \in 1 .. n - 1 : asked'[k] = IF k < i THEN asked[k] ELSE asked[k + 1]
  BY <1>1, WithoutProperties
<1> HIDE DEF n
<1>3. ASSUME NEW k \in 1 .. n, k # i
      PROVE  \E l \in 1 .. n - 1 : /\ asked'[l] = asked[k]
                                   /\ l = IF k < i THEN k ELSE k - 1
  <2>1. CASE k < i
    BY <1>1, <1>2, <1>3, <2>1
  <2>2. CASE k > i
    <3>1. k - 1 \in 1 .. n - 1 /\ ~(k - 1 < i) /\ (k - 1) + 1 = k
      BY <1>1, <1>3, <2>2
    <3> QED BY <1>2, <2>2, <3>1, <1>1
  <2> QED BY <1>1, <1>3, <2>1, <2>2
<1>4. \A k, j \in DOMAIN asked' : asked'[k] = asked'[j] => k = j
  BY <1>1, <1>2
<1>5. ASSUME NEW v \in Workers
      PROVE  (\E k \in DOMAIN asked' : asked'[k] = v)
               <=> v # w /\ \E k \in DOMAIN asked : asked[k] = v
  <2>1. ASSUME NEW k \in DOMAIN asked', asked'[k] = v
        PROVE  v # w /\ \E j \in DOMAIN asked : asked[j] = v
    <3> DEFINE j == IF k < i THEN k ELSE k + 1
    <3>1. j \in 1 .. n /\ j # i /\ asked[j] = v
      BY <1>1, <1>2, <2>1
    <3>2. asked[j] # asked[i]
      BY <1>1, <3>1
    <3> HIDE DEF j
    <3> QED BY <1>1, <3>1, <3>2
  <2>2. ASSUME v # w, NEW k \in DOMAIN asked, asked[k] = v
        PROVE  \E j \in DOMAIN asked' : asked'[j] = v
    BY <1>1, <1>2, <1>3, <2>2
  <2> QED BY <2>1, <2>2
<1>6. ASSUME NEW v \in Workers, NEW u \in Workers, v # w, u # w, Before(asked, v, u)
      PROVE  Before(asked', v, u)
  <2>1. PICK k, j \in 1 .. n : k < j /\ asked[k] = v /\ asked[j] = u
    BY <1>1, <1>6 DEF Before
  <2>2. k # i /\ j # i
    BY <1>6, <2>1
  <2>3. PICK l \in 1 .. n - 1 : asked'[l] = v /\ l = IF k < i THEN k ELSE k - 1
    BY <1>3, <2>1, <2>2
  <2>4. PICK m \in 1 .. n - 1 : asked'[m] = u /\ m = IF j < i THEN j ELSE j - 1
    BY <1>3, <2>1, <2>2
  <2>5. l < m
    BY <1>1, <2>1, <2>2, <2>3, <2>4
  <2> QED BY <1>2, <2>3, <2>4, <2>5 DEF Before
<1> QED BY <1>2, <1>4, <1>5, <1>6

(* The steps. *)

\* A caller takes what is free, and is last in line for the rest.
LEMMA AcquireOrder ==
  ASSUME LockInv, OrderInv, NEW w \in Workers, Acquire(w) PROVE OrderInv'
<1> DEFINE takes == {d \in Uses[w] : owner[d] # w /\ Free(d)}
<1> DEFINE waits == {d \in Uses[w] : owner[d] # w /\ ~Free(d)}
<1> USE UsesAssumption, NobodyAssumption
<1>1. /\ at[w] = "outside" /\ at' = [at EXCEPT ![w] = "waiting"]
      /\ owner' = [d \in Devices |-> IF d \in takes THEN w ELSE owner[d]]
      /\ waiters' = [d \in Devices |-> IF d \in waits THEN Enqueue(d, w) ELSE waiters[d]]
      /\ asked' = Append(asked, w)
  BY Zenon DEF Acquire
<1>2. /\ \A d \in takes : d \in Devices /\ d \in Uses[w] /\ waiters[d] = <<>> /\ owner[d] # w
      /\ \A d \in waits : d \in Devices /\ d \in Uses[w] /\ owner[d] # w /\ d \notin takes
      /\ \A d \in Uses[w] : d \in Devices /\ (owner[d] = w \/ d \in takes \/ d \in waits)
  BY DEF Free
<1> HIDE DEF takes, waits
<1>3. \A i \in DOMAIN asked : asked[i] # w
  BY <1>1 DEF OrderInv, AskedInv
<1>4. /\ \A v, u \in Workers : Before(asked, v, u) => Before(asked', v, u)
      /\ \A v \in Workers : at[v] = "waiting" => Before(asked', v, w)
  BY <1>1, <1>3, Appended DEF OrderInv, AskedInv
<1>5. /\ at' \in [Workers -> {"outside", "waiting", "inside"}]
      /\ \A v \in Workers : at'[v] = IF v = w THEN "waiting" ELSE at[v]
  BY <1>1 DEF LockInv, LockTypeOK
<1>6. AskedInv'
  BY <1>1, <1>3, <1>5, Appended DEF OrderInv, AskedInv
<1>7. ASSUME NEW d \in Devices
      PROVE  /\ waiters[d] \in Seq(Workers) /\ Len(waiters[d]) \in Nat
             /\ DOMAIN waiters[d] = 1 .. Len(waiters[d])
             /\ \A k \in DOMAIN waiters[d] : waiters[d][k] \in Workers
             /\ owner[d] \in Workers \cup {Nobody}
             /\ d \notin waits => waiters'[d] = waiters[d]
             /\ d \in waits =>
                  /\ DOMAIN waiters'[d] = 1 .. Len(waiters[d]) + 1
                  /\ \A k \in DOMAIN waiters[d] : waiters'[d][k] = waiters[d][k]
                  /\ waiters'[d][Len(waiters[d]) + 1] = w
             /\ owner'[d] = IF d \in takes THEN w ELSE owner[d]
  BY <1>1 DEF Enqueue, LockInv, LockTypeOK
<1>8. LineInv'
  <2> SUFFICES ASSUME NEW d \in Devices, NEW k \in DOMAIN waiters'[d]
               PROVE  LET v == waiters'[d][k]
                      IN  at'[v] = "waiting" /\ d \in Uses[v] /\ owner'[d] # v
    BY DEF LineInv
  <2>1. CASE k \in DOMAIN waiters[d] /\ waiters'[d][k] = waiters[d][k]
    <3>1. d \notin takes
      BY <1>2, <2>1
    <3> QED BY <1>5, <1>7, <2>1, <3>1 DEF OrderInv, LineInv
  <2>2. CASE d \in waits /\ waiters'[d][k] = w
    BY <1>2, <1>5, <1>7, <2>2
  <2> QED BY <1>7, <2>1, <2>2
<1>9. LineOrder'
  <2> SUFFICES ASSUME NEW d \in Devices, NEW k \in DOMAIN waiters'[d],
                      NEW l \in DOMAIN waiters'[d], k < l
               PROVE  Before(asked', waiters'[d][k], waiters'[d][l])
    BY DEF LineOrder
  <2>1. k \in DOMAIN waiters[d] /\ waiters'[d][k] = waiters[d][k]
    BY <1>7
  <2>2. CASE l \in DOMAIN waiters[d] /\ waiters'[d][l] = waiters[d][l]
    <3>1. Before(asked, waiters[d][k], waiters[d][l])
      BY <2>1, <2>2 DEF OrderInv, LineOrder
    <3> QED BY <1>4, <1>7, <2>1, <2>2, <3>1
  <2>3. CASE waiters'[d][l] = w
    <3>1. at[waiters[d][k]] = "waiting" /\ waiters[d][k] \in Workers
      BY <1>7, <2>1 DEF OrderInv, LineInv
    <3> QED BY <1>4, <2>1, <2>3, <3>1
  <2> QED BY <1>7, <2>2, <2>3
<1>10. OwnerInv'
  <2> SUFFICES ASSUME NEW d \in Devices, owner'[d] # Nobody
               PROVE  /\ d \in Uses[owner'[d]] /\ at'[owner'[d]] \in {"waiting", "inside"}
                      /\ at'[owner'[d]] = "waiting" =>
                           \A k \in DOMAIN waiters'[d] :
                             Before(asked', owner'[d], waiters'[d][k])
    BY DEF OwnerInv
  <2>1. CASE d \in takes
    BY <1>2, <1>5, <1>7, <2>1
  <2>2. CASE d \notin takes
    <3>1. /\ owner'[d] = owner[d] /\ owner[d] \in Workers
          /\ d \in Uses[owner[d]] /\ at[owner[d]] \in {"waiting", "inside"}
      BY <1>7, <2>2 DEF OrderInv, OwnerInv
    <3>2. at'[owner[d]] = at[owner[d]]
      BY <1>1, <1>5, <3>1
    <3>3. ASSUME at[owner[d]] = "waiting", NEW k \in DOMAIN waiters'[d]
          PROVE  Before(asked', owner[d], waiters'[d][k])
      <4>1. CASE k \in DOMAIN waiters[d] /\ waiters'[d][k] = waiters[d][k]
        <5>1. Before(asked, owner[d], waiters[d][k])
          BY <3>1, <3>3, <4>1 DEF OrderInv, OwnerInv
        <5> QED BY <1>4, <1>7, <3>1, <4>1, <5>1
      <4>2. CASE waiters'[d][k] = w
        BY <1>4, <3>1, <3>3, <4>2
      <4> QED BY <1>7, <4>1, <4>2
    <3> QED BY <3>1, <3>2, <3>3
  <2> QED BY <2>1, <2>2
<1>11. InLine'
  <2> SUFFICES ASSUME NEW v \in Workers, at'[v] = "waiting", NEW d \in Uses[v]
               PROVE  owner'[d] = v \/ \E k \in DOMAIN waiters'[d] : waiters'[d][k] = v
    BY DEF InLine
  <2>0. d \in Devices
    OBVIOUS
  <2>1. CASE v = w
    <3>1. CASE owner[d] = w \/ d \in takes
      BY <1>2, <1>7, <2>0, <2>1, <3>1
    <3>2. CASE d \in waits
      BY <1>7, <2>0, <2>1, <3>2
    <3> QED BY <1>2, <2>1, <3>1, <3>2
  <2>2. CASE v # w
    <3>1. at[v] = "waiting"
      BY <1>5, <2>2
    <3>2. CASE owner[d] = v
      <4>1. d \notin takes
        <5>1. d \in takes => owner[d] = Nobody
          BY <2>0, <1>2, <3>2 DEF takes, Free, LockInv
        <5> QED BY <3>2, <5>1
      <4> QED BY <1>7, <2>0, <3>2, <4>1
    <3>3. CASE \E k \in DOMAIN waiters[d] : waiters[d][k] = v
      BY <1>7, <2>0, <3>3
    <3> QED BY <3>1, <3>2, <3>3 DEF OrderInv, InLine
  <2> QED BY <2>1, <2>2
<1> QED BY <1>6, <1>8, <1>9, <1>10, <1>11 DEF OrderInv

\* The head of a line becomes the owner; the rest of the line moves up.
LEMMA ResumeOrder ==
  ASSUME LockInv, OrderInv, NEW d \in Devices, Resume(d) PROVE OrderInv'
<1> USE UsesAssumption, NobodyAssumption
<1> DEFINE line == waiters[d]
<1> DEFINE h == Head(waiters[d])
<1>1. /\ woken[d] /\ line # <<>> /\ owner[d] = Nobody
      /\ line \in Seq(Workers)
  BY DEF Resume, LockInv, LockTypeOK
<1>2. /\ at' = at /\ asked' = asked
      /\ waiters' = [waiters EXCEPT ![d] = Tail(line)]
      /\ owner' = [owner EXCEPT ![d] = h]
  BY <1>1 DEF Resume
<1>3. /\ \A e \in Devices : e # d => waiters'[e] = waiters[e] /\ owner'[e] = owner[e]
      /\ waiters'[d] = Tail(line) /\ owner'[d] = h
      /\ DOMAIN at = Workers
  BY <1>2 DEF LockInv, LockTypeOK
<1>4. /\ 1 \in DOMAIN line /\ h = line[1]
      /\ \A k \in DOMAIN Tail(line) : k + 1 \in DOMAIN line /\ 1 < k + 1
                                      /\ Tail(line)[k] = line[k + 1]
      /\ \A k \in DOMAIN line : k # 1 => k - 1 \in DOMAIN Tail(line)
                                         /\ Tail(line)[k - 1] = line[k]
      /\ \A k, l \in DOMAIN Tail(line) : k < l => k + 1 < l + 1
      /\ h \in Workers
  BY <1>1
<1> HIDE DEF line, h
<1>5. /\ \A k \in DOMAIN line : at[line[k]] = "waiting" /\ d \in Uses[line[k]]
      /\ \A k, l \in DOMAIN line : k < l => Before(asked, line[k], line[l])
  BY DEF OrderInv, LineInv, LineOrder, line
<1>6. \A v : ~Before(asked, v, v)
  BY DEF OrderInv, AskedInv, Before
<1>7. \A k \in DOMAIN Tail(line) : Before(asked, h, Tail(line)[k]) /\ Tail(line)[k] # h
  BY <1>4, <1>5, <1>6
<1>8. AskedInv'
  BY <1>2 DEF OrderInv, AskedInv
<1>9. LineInv'
  <2> SUFFICES ASSUME NEW e \in Devices, NEW k \in DOMAIN waiters'[e]
               PROVE  LET v == waiters'[e][k]
                      IN  at'[v] = "waiting" /\ e \in Uses[v] /\ owner'[e] # v
    BY DEF LineInv
  <2>1. CASE e = d
    BY <1>2, <1>3, <1>4, <1>5, <1>7, <2>1
  <2>2. CASE e # d
    BY <1>2, <1>3, <2>2 DEF OrderInv, LineInv
  <2> QED BY <2>1, <2>2
<1>10. LineOrder'
  <2> SUFFICES ASSUME NEW e \in Devices, NEW k \in DOMAIN waiters'[e],
                      NEW l \in DOMAIN waiters'[e], k < l
               PROVE  Before(asked', waiters'[e][k], waiters'[e][l])
    BY DEF LineOrder
  <2>1. CASE e = d
    BY <1>2, <1>3, <1>4, <1>5, <2>1
  <2>2. CASE e # d
    BY <1>2, <1>3, <2>2 DEF OrderInv, LineOrder
  <2> QED BY <2>1, <2>2
<1>11. OwnerInv'
  <2> SUFFICES ASSUME NEW e \in Devices, owner'[e] # Nobody
               PROVE  /\ e \in Uses[owner'[e]] /\ at'[owner'[e]] \in {"waiting", "inside"}
                      /\ at'[owner'[e]] = "waiting" =>
                           \A k \in DOMAIN waiters'[e] :
                             Before(asked', owner'[e], waiters'[e][k])
    BY DEF OwnerInv
  <2>1. CASE e = d
    BY <1>2, <1>3, <1>4, <1>5, <1>7, <2>1
  <2>2. CASE e # d
    BY <1>2, <1>3, <2>2 DEF OrderInv, OwnerInv
  <2> QED BY <2>1, <2>2
<1>12. InLine'
  <2> SUFFICES ASSUME NEW v \in Workers, at'[v] = "waiting", NEW e \in Uses[v]
               PROVE  owner'[e] = v \/ \E k \in DOMAIN waiters'[e] : waiters'[e][k] = v
    BY DEF InLine
  <2>0. e \in Devices /\ at[v] = "waiting"
    BY <1>2
  <2>1. CASE e = d
    <3>1. PICK k \in DOMAIN line : line[k] = v
      BY <1>1, <2>0, <2>1 DEF OrderInv, InLine, line
    <3> QED BY <1>3, <1>4, <2>1, <3>1
  <2>2. CASE e # d
    BY <1>3, <2>0, <2>2 DEF OrderInv, InLine
  <2> QED BY <2>1, <2>2
<1> QED BY <1>8, <1>9, <1>10, <1>11, <1>12 DEF OrderInv

\* Who enters is in no line.
LEMMA EnterOrder ==
  ASSUME LockInv, OrderInv, NEW w \in Workers, Enter(w) PROVE OrderInv'
<1> USE UsesAssumption, NobodyAssumption
<1>1. /\ at[w] = "waiting" /\ \A d \in Uses[w] : owner[d] = w
      /\ at' = [at EXCEPT ![w] = "inside"]
      /\ owner' = owner /\ waiters' = waiters
  BY DEF Enter, locks
<1>2. PICK i \in DOMAIN asked : asked[i] = w /\ asked' = OneLock!Without(asked, i)
  BY DEF Enter, OneLock!Without
<1>3. /\ \A v \in Workers : at'[v] = IF v = w THEN "inside" ELSE at[v]
      /\ \A v \in Workers : (\E k \in DOMAIN asked' : asked'[k] = v)
                              <=> v # w /\ \E k \in DOMAIN asked : asked[k] = v
      /\ \A v, u \in Workers : v # w /\ u # w /\ Before(asked, v, u) => Before(asked', v, u)
  <2>1. AskedInv
    BY DEF OrderInv
  <2> QED BY <1>1, <1>2, <2>1, Forgotten DEF LockInv, LockTypeOK
<1>4. AskedInv'
  <2>1. AskedInv
    BY DEF OrderInv
  <2>2. asked' \in Seq(Workers)
        /\ \A k, j \in DOMAIN asked' : asked'[k] = asked'[j] => k = j
    BY <1>2, <2>1, Forgotten
  <2> QED BY <1>1, <1>3, <2>1, <2>2 DEF AskedInv
<1>5. ASSUME NEW d \in Devices, NEW k \in DOMAIN waiters[d]
      PROVE  /\ waiters[d][k] \in Workers /\ waiters[d][k] # w
             /\ at[waiters[d][k]] = "waiting" /\ d \in Uses[waiters[d][k]]
             /\ owner[d] # waiters[d][k]
  <2>1. waiters[d][k] \in Workers
    BY DEF LockInv, LockTypeOK
  <2> QED BY <1>1, <2>1 DEF OrderInv, LineInv
<1>6. LineInv'
  BY <1>1, <1>3, <1>5 DEF LineInv
<1>7. LineOrder'
  BY <1>1, <1>3, <1>5 DEF OrderInv, LineOrder
<1>8. OwnerInv'
  <2> SUFFICES ASSUME NEW d \in Devices, owner[d] # Nobody
               PROVE  /\ d \in Uses[owner[d]] /\ at'[owner[d]] \in {"waiting", "inside"}
                      /\ at'[owner[d]] = "waiting" =>
                           \A k \in DOMAIN waiters[d] : Before(asked', owner[d], waiters[d][k])
    BY <1>1 DEF OwnerInv
  <2>1. owner[d] \in Workers
    BY DEF LockInv, LockTypeOK
  <2> QED BY <1>3, <1>5, <2>1 DEF OrderInv, OwnerInv
<1>9. InLine'
  BY <1>1, <1>3 DEF OrderInv, InLine
<1> QED BY <1>4, <1>6, <1>7, <1>8, <1>9 DEF OrderInv

\* Who leaves gives up what nobody else has.
LEMMA ReleaseOrder ==
  ASSUME LockInv, OrderInv, NEW w \in Workers, Release(w) PROVE OrderInv'
<1> USE UsesAssumption, NobodyAssumption
<1>1. /\ at[w] = "inside" /\ at' = [at EXCEPT ![w] = "outside"]
      /\ owner' = [d \in Devices |-> IF d \in Uses[w] THEN Nobody ELSE owner[d]]
      /\ waiters' = waiters /\ asked' = asked
  BY DEF Release
<1>2. /\ \A v \in Workers : at'[v] = IF v = w THEN "outside" ELSE at[v]
      /\ \A d \in Devices : owner'[d] = IF d \in Uses[w] THEN Nobody ELSE owner[d]
      /\ \A d \in Uses[w] : owner[d] = w
      /\ \A d \in Devices : owner[d] \in Workers \cup {Nobody}
  BY <1>1 DEF LockInv, LockTypeOK
<1>3. AskedInv'
  BY <1>1, <1>2 DEF OrderInv, AskedInv
<1>4. ASSUME NEW d \in Devices, NEW k \in DOMAIN waiters[d]
      PROVE  /\ waiters[d][k] \in Workers /\ at[waiters[d][k]] = "waiting"
             /\ d \in Uses[waiters[d][k]] /\ owner[d] # waiters[d][k]
  <2>1. waiters[d][k] \in Workers
    BY DEF LockInv, LockTypeOK
  <2> QED BY <2>1 DEF OrderInv, LineInv
<1>5. LineInv' /\ LineOrder'
  BY <1>1, <1>2, <1>4 DEF OrderInv, LineInv, LineOrder
<1>6. OwnerInv'
  BY <1>1, <1>2 DEF OrderInv, OwnerInv
<1>7. InLine'
  BY <1>1, <1>2 DEF OrderInv, InLine
<1> QED BY <1>3, <1>5, <1>6, <1>7 DEF OrderInv

\* OrderInv holds in every reachable state.
THEOREM OrderInvariance == Spec => []OrderInv
<1>1. LockInv /\ OrderInv /\ [Next]_vars => OrderInv'
  <2> SUFFICES ASSUME LockInv, OrderInv, [Next]_vars PROVE OrderInv'
    OBVIOUS
  <2>1. CASE \E w \in Workers : Acquire(w) \/ Enter(w) \/ Release(w)
    BY <2>1, AcquireOrder, EnterOrder, ReleaseOrder
  <2>2. CASE \E d \in Devices : Resume(d)
    BY <2>2, ResumeOrder
  <2>3. CASE UNCHANGED vars
    BY <2>3 DEF vars, locks, OrderInv, AskedInv, LineInv, LineOrder, OwnerInv, InLine
  <2> QED BY <2>1, <2>2, <2>3 DEF Next
<1> QED BY <1>1, InitOrderInv, LockInvariance, PTL DEF Spec

\* For any workers, devices and assignment, every variable stays within its
\* type.
THEOREM Typed == Spec => []TypeOK
<1>1. LockInv /\ OrderInv => TypeOK
  BY DEF LockInv, OrderInv, AskedInv, TypeOK
<1> QED BY <1>1, LockInvariance, OrderInvariance, PTL

\* A worker enters when nobody who called earlier wants any of its devices:
\* such a caller would be in line behind it on one of them.
LEMMA EnterInTurn ==
  ASSUME LockInv, OrderInv, NEW w \in Workers, Enter(w)
  PROVE  \E i \in DOMAIN asked : OneLock!Enter(i)
<1> USE UsesAssumption, NobodyAssumption
<1>1. /\ at[w] = "waiting" /\ \A d \in Uses[w] : owner[d] = w
      /\ at' = [at EXCEPT ![w] = "inside"]
  BY DEF Enter
<1>2. PICK i \in DOMAIN asked : asked[i] = w /\ asked' = OneLock!Without(asked, i)
  BY DEF Enter, OneLock!Without
<1>3. \A v \in {u \in Workers : at[u] = "inside"} : ~OneLock!Conflict(v, asked[i])
  BY <1>1, <1>2 DEF LockInv, OneLock!Conflict
<1>4. ASSUME NEW j \in 1 .. i - 1, OneLock!Conflict(asked[j], asked[i]) PROVE FALSE
  <2>1. /\ asked \in Seq(Workers) /\ i \in Nat /\ j \in DOMAIN asked /\ j < i
        /\ asked[j] \in Workers
    BY <1>2 DEF OrderInv, AskedInv
  <2>2. PICK d \in Uses[w] : d \in Uses[asked[j]]
    BY <1>2, <1>4 DEF OneLock!Conflict
  <2>3. at[asked[j]] = "waiting" /\ asked[j] # w
    BY <1>2, <2>1 DEF OrderInv, AskedInv
  <2>4. d \in Devices /\ owner[d] = w
    BY <1>1, <2>2
  <2>5. PICK k \in DOMAIN waiters[d] : waiters[d][k] = asked[j]
    BY <2>1, <2>2, <2>3, <2>4 DEF OrderInv, InLine
  <2>6. Before(asked, w, asked[j])
    BY <1>1, <2>4, <2>5 DEF OrderInv, OwnerInv
  <2>7. PICK k1, k2 \in DOMAIN asked : k1 < k2 /\ asked[k1] = w /\ asked[k2] = asked[j]
    BY <2>6 DEF Before
  <2>8. k1 = i /\ k2 = j
    BY <1>2, <2>1, <2>7 DEF OrderInv, AskedInv
  <2> QED BY <2>1, <2>7, <2>8
<1>5. {u \in Workers : at'[u] = "inside"} = {u \in Workers : at[u] = "inside"} \cup {asked[i]}
  BY <1>1, <1>2 DEF LockInv, LockTypeOK
<1>6. OneLock!Enter(i)
  BY <1>2, <1>3, <1>4, <1>5 DEF OneLock!Enter
<1> QED BY <1>6

\* For any workers, devices and assignment: the locks of several devices
\* together are one lock that serves conflicting workers in the order of
\* their calls, although each device has a queue of its own.
THEOREM InOrderOfCalls == Spec => FirstComeFirstServed
<1>1. Init => OneLock!Init
  BY DEF Init, OneLock!Init
<1>2. LockInv /\ OrderInv /\ [Next]_vars
        => [OneLock!Next]_<<asked, {w \in Workers : at[w] = "inside"}>>
  <2> DEFINE inside == {w \in Workers : at[w] = "inside"}
  <2> SUFFICES ASSUME LockInv, OrderInv, [Next]_vars
               PROVE  [OneLock!Next]_<<asked, inside>>
    OBVIOUS
  <2>1. ASSUME NEW w \in Workers, Acquire(w) PROVE OneLock!Ask(w)
    <3>1. /\ at[w] = "outside" /\ at' = [at EXCEPT ![w] = "waiting"]
          /\ asked' = Append(asked, w)
      BY <2>1 DEF Acquire
    <3>2. inside' = inside /\ w \notin inside
      BY <3>1 DEF LockInv, LockTypeOK
    <3>3. w \notin OneLock!InQueue
      BY <3>1 DEF OneLock!InQueue, OrderInv, AskedInv
    <3> QED BY <3>1, <3>2, <3>3 DEF OneLock!Ask
  <2>2. ASSUME NEW w \in Workers, Release(w) PROVE OneLock!Leave(w)
    <3>1. /\ at[w] = "inside" /\ at' = [at EXCEPT ![w] = "outside"] /\ asked' = asked
      BY <2>2 DEF Release
    <3>2. inside' = inside \ {w} /\ w \in inside
      BY <3>1 DEF LockInv, LockTypeOK
    <3> QED BY <3>1, <3>2 DEF OneLock!Leave
  <2>3. ASSUME NEW w \in Workers, Enter(w)
        PROVE  \E i \in DOMAIN asked : OneLock!Enter(i)
    BY <2>3, EnterInTurn
  <2>4. CASE (\E d \in Devices : Resume(d)) \/ UNCHANGED vars
    BY <2>4 DEF Resume, vars
  <2> QED BY <2>1, <2>2, <2>3, <2>4 DEF Next, OneLock!Next
<1> QED BY <1>1, <1>2, LockInvariance, OrderInvariance, PTL
        DEF Spec, FirstComeFirstServed, OneLock!Spec
=============================================================================
