----------------------------- MODULE ChannelGet -----------------------------
(***************************************************************************)
(* How the gets of one worker find their answers.  A get makes a remote     *)
(* call with a query id and posts a receive from the channel; the channel   *)
(* answers its calls in any order, all answers come over one stream, and    *)
(* the n-th receive completes with the n-th answer, whosever it is.         *)
(*                                                                          *)
(*   src/rlinf/scheduler/channel/channel.py         (get, get_nowait)       *)
(*   src/rlinf/scheduler/channel/channel_worker.py  (ChannelWorker.get)     *)
(*   src/rlinf/scheduler/collective/async_work.py   (AsyncChannelCommWork)  *)
(*                                                                          *)
(* An asynchronous get looks its answer up by query id; a synchronous get   *)
(* and get_nowait keep the thread of the worker until their receive is      *)
(* complete, and take what it brought.  Queues and waiting are the subject  *)
(* of Channel: here an item may come at any time.                           *)
(***************************************************************************)
EXTENDS Naturals, Sequences, FiniteSets, Functions

CONSTANTS
  Queries,  \* the query ids
  Modes,    \* how the gets may be called: a set of functions on Queries
  NumItems, \* how many items are put into the channel
  QueueEmpty, \* sent in place of the query id by a get that must not wait
  NoAnswer

ASSUME GetAssumption ==
  Modes \subseteq [Queries -> {"async", "sync", "nowait"}] /\ NumItems \in Nat

\* Items are numbered in the order in which they are put.
Items == 1 .. NumItems
Nothing == 0

Answers == [data : Items, id : Queries] \cup [data : {Nothing}, id : {QueueEmpty}]

ASSUME IdAssumption == QueueEmpty \notin Queries /\ NoAnswer \notin Answers

VARIABLES
  unread, put, \* the channel's queue, and how many items were put
  asked,       \* remote calls the channel has not answered
  stream,      \* answers on their way to the worker
  mode,        \* per get: get(async_op = True), get() or get_nowait()
  phase,       \* per get: idle, called, handle (it has its AsyncWork), over, raised
  receives,    \* posted receives, by the get that posted them
  got,         \* per get: the answer its receive brought
  store,       \* channel_data_store: by query id, data or Nothing (not done)
  result,      \* per get: what its caller got
  answered     \* history: the item the channel took for the get

channel == <<unread, put, asked, stream>>
worker == <<phase, receives, got, store, result>>
getVars == <<mode, channel, worker, answered>>

GetInit ==
  /\ unread = <<>> /\ put = 0 /\ asked = {} /\ stream = <<>>
  /\ mode \in Modes
  /\ phase = [q \in Queries |-> "idle"] /\ receives = <<>>
  /\ got = [q \in Queries |-> NoAnswer]
  /\ store = <<>>
  /\ result = [q \in Queries |-> Nothing]
  /\ answered = [q \in Queries |-> Nothing]

-----------------------------------------------------------------------------
(* The channel *)

PutNext ==
  /\ put < NumItems
  /\ put' = put + 1 /\ unread' = Append(unread, put + 1)
  /\ UNCHANGED <<mode, asked, stream, worker, answered>>

EmptyAnswer(q) == [data |-> Nothing, id |-> QueueEmpty]

\* ChannelWorker.get goes on with an item, or finds none and does not wait.
Answer(q) ==
  /\ q \in asked
  /\ asked' = asked \ {q}
  /\ \/ /\ unread # <<>>
        /\ unread' = Tail(unread)
        /\ answered' = [answered EXCEPT ![q] = Head(unread)]
        /\ stream' = Append(stream, [data |-> Head(unread), id |-> q])
     \/ /\ unread = <<>> /\ mode[q] = "nowait"
        /\ stream' = Append(stream, EmptyAnswer(q))
        /\ UNCHANGED <<unread, answered>>
  /\ UNCHANGED <<mode, put, worker>>

-----------------------------------------------------------------------------
(* Channel.get and get_nowait of the worker *)

\* The thread is inside a call.
Busy == \E q \in Queries : phase[q] = "called"

\* The remote call and the receive.
Call(q) ==
  /\ phase[q] = "idle" /\ ~Busy
  /\ phase' = [phase EXCEPT ![q] = "called"]
  /\ asked' = asked \cup {q}
  /\ receives' = Append(receives, q)
  /\ UNCHANGED <<mode, unread, put, stream, got, store, result, answered>>

\* channel_data_store[id] = data
WithFuture(id, data) == [x \in DOMAIN store \cup {id} |-> IF x = id THEN data ELSE store[x]]

\* Mutant: the handle always makes a future of its own.
FutureAnew(q) == Nothing

\* The future of the query, unless an earlier receive has brought its answer.
FutureOf(q) == IF q \in DOMAIN store THEN store[q] ELSE Nothing

\* AsyncChannelCommWork.__init__
MakeHandle(q) ==
  /\ phase[q] = "called" /\ mode[q] = "async"
  /\ phase' = [phase EXCEPT ![q] = "handle"]
  /\ store' = WithFuture(q, FutureOf(q))
  /\ UNCHANGED <<mode, channel, receives, got, result, answered>>

\* The first posted receive completes with the next answer.
Receive ==
  /\ stream # <<>> /\ receives # <<>>
  /\ got' = [got EXCEPT ![Head(receives)] = Head(stream)]
  /\ receives' = Tail(receives) /\ stream' = Tail(stream)
  /\ UNCHANGED <<mode, unread, put, asked, phase, store, result, answered>>

\* Mutant: the data is stored for the get that received it.
StoredForReceiver(q) == q

StoredFor(q) == got[q].id

\* _store_channel_data, the callback of the receive: it needs the handle.
Store(q) ==
  /\ mode[q] = "async" /\ phase[q] # "called" /\ got[q] # NoAnswer
  /\ got' = [got EXCEPT ![q] = NoAnswer]
  /\ store' = WithFuture(StoredFor(q), got[q].data)
  /\ UNCHANGED <<mode, channel, phase, receives, result, answered>>

\* channel_data_store.pop
WithoutFuture(q) == Restrict(store, DOMAIN store \ {q})

\* wait or async_wait of the handle.
Wait(q) ==
  /\ phase[q] = "handle" /\ store[q] # Nothing
  /\ phase' = [phase EXCEPT ![q] = "over"]
  /\ result' = [result EXCEPT ![q] = store[q]]
  /\ store' = WithoutFuture(q)
  /\ UNCHANGED <<mode, channel, receives, got, answered>>

\* A get without a handle, or get_nowait, returns what its receive brought.
Return(q) ==
  /\ phase[q] = "called" /\ mode[q] # "async" /\ got[q] # NoAnswer
  /\ phase' = [phase EXCEPT ![q] =
                 IF mode[q] = "nowait" /\ got[q].id = QueueEmpty THEN "raised" ELSE "over"]
  /\ got' = [got EXCEPT ![q] = NoAnswer]
  /\ result' = [result EXCEPT ![q] = got[q].data]
  /\ UNCHANGED <<mode, channel, receives, store, answered>>

-----------------------------------------------------------------------------
Serve == Receive \/ \E q \in Queries : Answer(q)

Continue(q) == MakeHandle(q) \/ Store(q) \/ Wait(q) \/ Return(q)

GetNext == PutNext \/ Serve \/ \E q \in Queries : Call(q) \/ Continue(q)

GetSpec == GetInit /\ [][GetNext]_getVars

\* The channel and the worker's threads go on; nobody has to put or to get.
FairGetSpec == GetSpec /\ WF_getVars(Serve) /\ \A q \in Queries : WF_getVars(Continue(q))

-----------------------------------------------------------------------------
(* Properties *)

GetTypeOK ==
  /\ put \in 0 .. NumItems /\ unread \in Seq(Items)
  /\ asked \subseteq Queries /\ stream \in Seq(Answers)
  /\ mode \in Modes
  /\ phase \in [Queries -> {"idle", "called", "handle", "over", "raised"}]
  /\ receives \in Seq(Queries)
  /\ got \in [Queries -> Answers \cup {NoAnswer}]
  /\ DOMAIN store \subseteq Queries \cup {QueueEmpty}
  /\ \A id \in DOMAIN store : store[id] \in Items \cup {Nothing}
  /\ result \in [Queries -> Items \cup {Nothing}]
  /\ answered \in [Queries -> Items \cup {Nothing}]

\* "associate the data with an identifier" (async_work.py:348): what a get
\* returns is the item the channel took for it, although any receive may
\* have brought it; and get_nowait raises only when there was none.
OwnAnswer ==
  \A q \in Queries :
    /\ phase[q] = "over" => result[q] = answered[q] /\ result[q] # Nothing
    /\ phase[q] = "raised" => answered[q] = Nothing

\* A get for which the channel has taken an item returns.
AnsweredGetReturns == \A q \in Queries : answered[q] # Nothing ~> phase[q] = "over"
=============================================================================
