----------------------------- MODULE DeviceLock -----------------------------
(***************************************************************************)
(* The device lock of RLinf workers: DeviceLock (worker side), which asks   *)
(* DeviceLockManager for every accelerator of the worker, and the           *)
(* WorkerDeviceLock of each accelerator, an asyncio.Lock with an owner.     *)
(*                                                                          *)
(*   src/rlinf/scheduler/manager/lock_manager.py                            *)
(*   src/rlinf/scheduler/worker/lock.py                                     *)
(*                                                                          *)
(* asyncio.gather puts the acquire (or release) tasks of one call into the  *)
(* event loop together, so they run one after the other up to their first   *)
(* suspension: Acquire and Release take all devices in one step.  Releasing *)
(* only wakes the first waiter; it takes the lock in a later step, Resume,  *)
(* and in between the lock looks free to everybody else.                    *)
(***************************************************************************)
EXTENDS Naturals, Sequences

CONSTANTS
  Workers,   \* worker addresses
  Devices,   \* accelerator ids
  Uses,      \* [Workers -> SUBSET Devices]: global_accelerator_ids
  Nobody     \* the address None

ASSUME UsesAssumption == Uses \in [Workers -> SUBSET Devices]
ASSUME NobodyAssumption == Nobody \notin Workers

VARIABLES
  at,       \* per worker: outside, waiting for, or inside its with block
  locked,   \* per device: _locked
  owner,    \* per device: _worker_address
  waiters,  \* per device: _waiters, the worker that waits on each future
  woken,    \* per device: the first future has its result
  asked     \* history: workers that wait, in the order of their calls

locks == <<locked, owner, waiters, woken>>
vars == <<at, locks, asked>>

Init ==
  /\ at = [w \in Workers |-> "outside"]
  /\ locked = [d \in Devices |-> FALSE]
  /\ owner = [d \in Devices |-> Nobody]
  /\ waiters = [d \in Devices |-> <<>>]
  /\ woken = [d \in Devices |-> FALSE]
  /\ asked = <<>>

-----------------------------------------------------------------------------
(* WorkerDeviceLock *)

\* Mutant: asyncio.Lock without fairness, a woken waiter can be overtaken.
FreeIfUnlocked(d) == ~locked[d]

\* Mutant: the state of the lock itself is not looked at.
FreeIfNobodyWaits(d) == waiters[d] = <<>>

\* acquire takes the lock at once only when nobody is waiting: a lock that
\* has been released for a woken waiter is not free.
Free(d) == ~locked[d] /\ waiters[d] = <<>>

\* Mutant: the newest waiter is served first.
EnqueueFirst(d, w) == <<w>> \o waiters[d]

Enqueue(d, w) == Append(waiters[d], w)

\* Mutant: the release does not wake anybody.
WakeNobody(d) == FALSE

\* _wake_up_first
WakeUpFirst(d) == waiters[d] # <<>>

-----------------------------------------------------------------------------
(* DeviceLockManager *)

\* acquire_devices: the acquire of each device up to `await fut`.
Acquire(w) ==
  LET takes == {d \in Uses[w] : owner[d] # w /\ Free(d)}
      waits == {d \in Uses[w] : owner[d] # w /\ ~Free(d)}
  IN  /\ at[w] = "outside"
      /\ at' = [at EXCEPT ![w] = "waiting"]
      /\ locked' = [d \in Devices |-> locked[d] \/ d \in takes]
      /\ owner' = [d \in Devices |-> IF d \in takes THEN w ELSE owner[d]]
      /\ waiters' = [d \in Devices |-> IF d \in waits THEN Enqueue(d, w) ELSE waiters[d]]
      /\ asked' = Append(asked, w)
      /\ UNCHANGED woken

\* acquire after `await fut`: the assertion that nobody owns the lock is
\* part of NothingRaises.
Resume(d) ==
  /\ woken[d]
  /\ woken' = [woken EXCEPT ![d] = FALSE]
  /\ waiters' = [waiters EXCEPT ![d] = Tail(@)]
  /\ locked' = [locked EXCEPT ![d] = TRUE]
  /\ owner' = [owner EXCEPT ![d] = IF @ = Nobody THEN Head(waiters[d]) ELSE @]
  /\ UNCHANGED <<at, asked>>

\* gather has all results, the call returns and the worker enters its block.
Enter(w) ==
  /\ at[w] = "waiting"
  /\ \A d \in Uses[w] : owner[d] = w
  /\ at' = [at EXCEPT ![w] = "inside"]
  /\ \E i \in DOMAIN asked :
       asked[i] = w /\ asked' = SubSeq(asked, 1, i - 1) \o SubSeq(asked, i + 1, Len(asked))
  /\ UNCHANGED locks

\* The block ends: release_devices names the devices acquire_devices named.
Release(w) ==
  /\ at[w] = "inside"
  /\ at' = [at EXCEPT ![w] = "outside"]
  /\ locked' = [d \in Devices |-> locked[d] /\ d \notin Uses[w]]
  /\ owner' = [d \in Devices |-> IF d \in Uses[w] THEN Nobody ELSE owner[d]]
  /\ woken' = [d \in Devices |-> woken[d] \/ (d \in Uses[w] /\ WakeUpFirst(d))]
  /\ UNCHANGED <<waiters, asked>>

Next ==
  \/ \E w \in Workers : Acquire(w) \/ Enter(w) \/ Release(w)
  \/ \E d \in Devices : Resume(d)

Spec == Init /\ [][Next]_vars

\* The manager's event loop runs every task that is ready; a worker that is
\* inside its block leaves it.
FairSpec ==
  /\ Spec
  /\ \A w \in Workers : WF_vars(Enter(w)) /\ WF_vars(Release(w))
  /\ \A d \in Devices : WF_vars(Resume(d))

-----------------------------------------------------------------------------
(* Properties *)

LockTypeOK ==
  /\ at \in [Workers -> {"outside", "waiting", "inside"}]
  /\ locked \in [Devices -> BOOLEAN]
  /\ owner \in [Devices -> Workers \cup {Nobody}]
  /\ waiters \in [Devices -> Seq(Workers)]
  /\ woken \in [Devices -> BOOLEAN]

\* Every variable stays within its type.
TypeOK == LockTypeOK /\ asked \in Seq(Workers)

\* "this lock ensures that only one worker can access the accelerator
\* resources at a time" (lock.py:25), whatever subsets of the accelerators
\* the workers use and whoever acquires while a woken waiter is on its way.
OneWorkerPerDevice ==
  \A v, w \in Workers :
    v # w /\ at[v] = "inside" /\ at[w] = "inside" => Uses[v] \cap Uses[w] = {}

\* No assertion and no RuntimeError of WorkerDeviceLock can be raised: a
\* waiter that resumes finds the lock unowned, and a worker that releases
\* still owns all of its locks.
NothingRaises ==
  /\ \A d \in Devices : woken[d] => owner[d] = Nobody
  /\ \A w \in Workers : at[w] = "inside" =>
       \A d \in Uses[w] : locked[d] /\ owner[d] = w

OneLock == INSTANCE ResourceLock WITH
             queue <- asked, inside <- {w \in Workers : at[w] = "inside"}

\* The locks of several devices together behave like one lock that serves
\* conflicting workers strictly in the order in which they asked.
FirstComeFirstServed == OneLock!Spec

\* Nobody waits forever, although a worker holds some of its devices while
\* it waits for others: the order of the calls is the order on every device.
EveryCallReturns ==
  \A w \in Workers : at[w] = "waiting" ~> at[w] = "inside"
=============================================================================
