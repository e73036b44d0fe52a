------------------------------ MODULE Channel ------------------------------
(***************************************************************************)
(* A Channel between workers: the puts of one producer, the ChannelWorker   *)
(* with its queue per key, and the gets of any number of consumers.         *)
(*                                                                          *)
(*   src/rlinf/scheduler/channel/channel.py          (Channel.put, get...)  *)
(*   src/rlinf/scheduler/channel/channel_worker.py   (PeekQueue,            *)
(*                                                    ChannelWorker)        *)
(*   src/rlinf/scheduler/collective/async_work.py    (AsyncChannelWork)     *)
(*                                                                          *)
(* The ChannelWorker is an asyncio actor.  `ready` is the queue of its      *)
(* event loop: Run executes the first call until it suspends or returns;    *)
(* a call that is woken, or that arrives, goes to the end.  The remote put  *)
(* does not carry its item: it receives the next item of the producer's     *)
(* stream, and the item brings its key.  How a consumer finds its own       *)
(* answer is the subject of ChannelGet.                                     *)
(***************************************************************************)
EXTENDS Integers, Sequences, FiniteSets, SequencesExt, FiniteSetsExt

CONSTANTS
  Keys,     \* keys of the channel
  Programs  \* a set of records: a maxsize and a sequence of calls

Request == [op : {"put", "get", "get_batch"}, key : Keys, weight : Nat, nowait : BOOLEAN]

ASSUME ChannelAssumption ==
  \A p \in Programs : p.maxsize \in Nat /\ p.calls \in Seq(Request)

VARIABLES
  program,   \* what the workers are going to call, and the channel's maxsize
  issued,    \* puts the producer has called
  received,  \* items the ChannelWorker has received, a prefix of those sent
  carries,   \* per put: the item its remote call received, 0 before
  state,     \* per call: new, ready, waiting, done or raised
  ready,     \* event loop: calls that can run
  queue,     \* per key: the items
  getters, putters,  \* per key: calls that wait on a future
  taken,     \* per get and get_batch: the items it took
  entered    \* history: per key, the items in the order they entered

vars == <<program, issued, received, carries, state, ready, queue, getters, putters,
          taken, entered>>

MaxSize == program.maxsize  \* 0 is unbounded
Requests == program.calls
Calls == DOMAIN Requests
Puts == {c \in Calls : Requests[c].op = "put"}
Gets == {c \in Calls : Requests[c].op = "get"}
Batches == {c \in Calls : Requests[c].op = "get_batch"}

\* An item is named by the call of Channel.put that sent it.  For a put,
\* weight is the item's; for a get_batch it is target_weight.
Key(c) == Requests[c].key
Weight(c) == Requests[c].weight
NoWait(c) == Requests[c].nowait

Init ==
  /\ program \in Programs
  /\ issued = {} /\ received = {}
  /\ carries = [p \in Puts |-> 0]
  /\ state = [c \in Calls |-> "new"]
  /\ ready = <<>>
  /\ queue = [k \in Keys |-> <<>>] /\ entered = [k \in Keys |-> <<>>]
  /\ getters = [k \in Keys |-> <<>>] /\ putters = [k \in Keys |-> <<>>]
  /\ taken = [c \in Gets \cup Batches |-> <<>>]

-----------------------------------------------------------------------------
(* The producer *)

\* The producer is at its next put; put_nowait returns before it goes on.
Issue ==
  /\ issued # Puts
  /\ \A p \in issued : NoWait(p) => state[p] = "done"
  /\ issued' = issued \cup {Min(Puts \ issued)}
  /\ UNCHANGED <<program, received, carries, state, ready, queue, getters, putters, taken, entered>>

\* Mutant: the remote calls are not chained.
MayExecuteAtOnce(p) == p \in issued

\* AsyncChannelWork: the remote call is made when the last future of the same
\* channel and key has its result.
MayExecute(p) ==
  p \in issued /\ \A q \in issued : q < p /\ Key(q) = Key(p) => state[q] = "done"

\* The remote call of c reaches the ChannelWorker.
Arrive(c) ==
  /\ state[c] = "new" /\ (c \in Puts => MayExecute(c))
  /\ state' = [state EXCEPT ![c] = "ready"]
  /\ ready' = Append(ready, c)
  /\ UNCHANGED <<program, issued, received, carries, queue, getters, putters, taken, entered>>

-----------------------------------------------------------------------------
(* PeekQueue, an asyncio.Queue *)

Full(k) == MaxSize > 0 /\ Len(queue[k]) >= MaxSize

\* Mutant: the result of the future is not set.
WokenNone(waiters, n) == <<>>

\* The first n waiters, whose futures get their result, and the others.
Woken(waiters, n) == SubSeq(waiters, 1, Min({n, Len(waiters)}))
Others(waiters, n) == SubSeq(waiters, Len(Woken(waiters, n)) + 1, Len(waiters))

\* The running call leaves the event loop in state s, the woken ones enter.
Leave(c, s, woken) ==
  /\ ready' = Tail(ready) \o woken
  /\ state' = [d \in Calls |-> IF d = c THEN s
                               ELSE IF d \in ToSet(woken) THEN "ready" ELSE state[d]]

\* The first n items of queue[k] go to call c, each wakes a putter.
Take(c, k, n) ==
  /\ queue' = [queue EXCEPT ![k] = SubSeq(@, n + 1, Len(@))]
  /\ taken' = [taken EXCEPT ![c] = @ \o SubSeq(queue[k], 1, n)]
  /\ putters' = [putters EXCEPT ![k] = Others(@, n)]

-----------------------------------------------------------------------------
(* ChannelWorker *)

\* Mutant: a put that was woken receives again.
ItemReceivedAgain(p) == IF issued = received THEN carries[p] ELSE Min(Puts \ received)

\* The item of a put: the one it holds, or the next of the stream.
Item(p) == IF carries[p] = 0 THEN Min(Puts \ received) ELSE carries[p]

Put(p) ==
  LET i == Item(p)
      k == Key(i)
  IN  /\ carries' = [carries EXCEPT ![p] = i]
      /\ received' = received \cup {i}
      /\ \/ /\ ~Full(k)
            /\ queue' = [queue EXCEPT ![k] = Append(@, i)]
            /\ entered' = [entered EXCEPT ![k] = Append(@, i)]
            /\ Leave(p, "done", Woken(getters[k], 1))
            /\ getters' = [getters EXCEPT ![k] = Others(@, 1)]
            /\ UNCHANGED putters
         \/ /\ Full(k) /\ ~NoWait(p)
            /\ Leave(p, "waiting", <<>>)
            /\ putters' = [putters EXCEPT ![k] = Append(@, p)]
            /\ UNCHANGED <<queue, entered, getters>>
         \/ /\ Full(k) /\ NoWait(p)
            /\ Leave(p, "raised", <<>>)
            /\ UNCHANGED <<queue, entered, getters, putters>>
      /\ UNCHANGED taken

Get(c) ==
  LET k == Key(c)
  IN  /\ \/ /\ queue[k] # <<>>
            /\ Leave(c, "done", Woken(putters[k], 1))
            /\ Take(c, k, 1)
            /\ UNCHANGED getters
         \/ /\ queue[k] = <<>> /\ ~NoWait(c)
            /\ Leave(c, "waiting", <<>>)
            /\ getters' = [getters EXCEPT ![k] = Append(@, c)]
            /\ UNCHANGED <<queue, taken, putters>>
         \/ /\ queue[k] = <<>> /\ NoWait(c)
            /\ Leave(c, "raised", <<>>)
            /\ UNCHANGED <<queue, taken, getters, putters>>
      /\ UNCHANGED <<carries, received, entered>>

WeightOf(items) ==
  LET sum[n \in 0..Len(items)] == IF n = 0 THEN 0 ELSE sum[n - 1] + Weight(items[n])
  IN  sum[Len(items)]

\* get_batch takes the item it peeked at if the batch may hold it.
Fits(c, batch, i) == WeightOf(batch) + Weight(i) <= Weight(c)

\* The batch has its weight.
Reached(c, batch) == batch # <<>> /\ WeightOf(batch) >= Weight(c)

\* get_batch up to the next suspension, which only peek has: an item that was
\* peeked at is still there for the get.
GetBatch(c) ==
  LET k == Key(c)
      after(n) == taken[c] \o SubSeq(queue[k], 1, n)
      more(n) == n < Len(queue[k]) /\ ~Reached(c, after(n)) /\ Fits(c, after(n), queue[k][n + 1])
      n == Min({m \in 0 .. Len(queue[k]) : ~more(m)})
      complete == n < Len(queue[k]) \/ Reached(c, after(n))
  IN  /\ Take(c, k, n)
      /\ Leave(c, IF complete THEN "done" ELSE "waiting", Woken(putters[k], n))
      /\ getters' = IF complete THEN getters ELSE [getters EXCEPT ![k] = Append(@, c)]
      /\ UNCHANGED <<carries, received, entered>>

\* The event loop runs its next call.
Run ==
  /\ ready # <<>>
  /\ LET c == Head(ready)
     IN  \/ c \in Puts /\ Put(c)
         \/ c \in Gets /\ Get(c)
         \/ c \in Batches /\ GetBatch(c)
  /\ UNCHANGED <<program, issued>>

Next == Issue \/ Run \/ \E c \in Calls : Arrive(c)

Spec == Init /\ [][Next]_vars
FairSpec == Spec /\ WF_vars(Next)

-----------------------------------------------------------------------------
(* Properties *)

TypeOK ==
  /\ issued \subseteq Puts /\ received \subseteq issued
  /\ carries \in [Puts -> Puts \cup {0}]
  /\ state \in [Calls -> {"new", "ready", "waiting", "done", "raised"}]
  /\ ToSet(ready) = {c \in Calls : state[c] = "ready"} /\ IsInjective(ready)
  /\ \A k \in Keys :
       /\ ToSet(queue[k]) \subseteq Puts /\ (MaxSize > 0 => Len(queue[k]) <= MaxSize)
       /\ ToSet(getters[k]) \cup ToSet(putters[k]) \subseteq {c \in Calls : state[c] = "waiting"}
       /\ ToSet(entered[k]) \subseteq received
  /\ \A c \in Gets \cup Batches : ToSet(taken[c]) \subseteq received

\* "A FIFO queue-like channel" (channel.py:39): per key, items enter the
\* queue, and so leave it, in the order of the producer's puts, asynchronous
\* ones included.
FifoPerKey ==
  \A k \in Keys : \A m, n \in DOMAIN entered[k] : m < n => entered[k][m] < entered[k][n]

Holders(i) ==
  {<<"put", p>> : p \in {q \in Puts : carries[q] = i /\ state[q] # "done"}}
  \cup {<<"queue", n>> : n \in {m \in DOMAIN queue[Key(i)] : queue[Key(i)][m] = i}}
  \cup UNION {{<<"taken", c, n>> : n \in {m \in DOMAIN taken[c] : taken[c][m] = i}} :
                 c \in {d \in Gets \cup Batches : Key(d) = Key(i)}}

\* Every item received is in exactly one place, and it is there for its key:
\* held by the put that received it, in the queue, or taken by one get.
ItemsConserved == \A i \in received : Cardinality(Holders(i)) = 1

\* "The semantics of these interfaces are identical to those of
\* `asyncio.Queue`" (channel.py:47): no call is left waiting, with nothing to
\* wake it, for an item that is there or for room that is there.
NobodyStranded ==
  ready = <<>> => \A k \in Keys :
    /\ getters[k] # <<>> => queue[k] = <<>>
    /\ putters[k] # <<>> => Full(k)

\* put_nowait does not wait (channel.py:434, "Raises: asyncio.QueueFull: If
\* the queue is full."): the producer gets to the end of its puts.
ProducerGoesOn == <>(issued = Puts)
=============================================================================
