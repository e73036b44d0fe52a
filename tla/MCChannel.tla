----------------------------- MODULE MCChannel -----------------------------
EXTENDS Channel

put(k, w) == [op |-> "put", key |-> k, weight |-> w, nowait |-> FALSE]
put_nowait(k) == [op |-> "put", key |-> k, weight |-> 1, nowait |-> TRUE]
get(k) == [op |-> "get", key |-> k, weight |-> 0, nowait |-> FALSE]
get_nowait(k) == [op |-> "get", key |-> k, weight |-> 0, nowait |-> TRUE]
get_batch(k, w) == [op |-> "get_batch", key |-> k, weight |-> w, nowait |-> FALSE]

\* One key, a full queue, consumers that wait and one that does not.
Bounded ==
  [maxsize |-> 1,
   calls   |-> <<put("a", 1), put("a", 1), put_nowait("a"), put("a", 1),
                 get("a"), get("a"), get_nowait("a"), get("a")>>]

\* Two keys: two batches and a get of one key, and a batch that leaves the
\* item it was woken for.
Batched ==
  [maxsize |-> 0,
   calls   |-> <<put("a", 1), put("b", 2), put("a", 1), put("b", 2), put("a", 1),
                 get_batch("a", 2), get_batch("a", 1), get("a"), get_batch("b", 3)>>]

\* A get_batch and a get that wait for the same item.
BatchAndGet ==
  [maxsize |-> 0, calls |-> <<put("a", 2), get_batch("a", 1), get("a")>>]

PutNowait ==
  [maxsize |-> 1,
   calls   |-> <<put_nowait("a"), put_nowait("a"), put("a", 1), get("a"), get("a")>>]

Sound == {Bounded, Batched}
Peeking == {BatchAndGet}
NotWaiting == {PutNowait}
=============================================================================
