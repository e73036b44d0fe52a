---------------------------- MODULE MCChannelGet ----------------------------
EXTENDS ChannelGet

CONSTANTS q1, q2, q3

AllModes == [Queries -> {"async", "sync", "nowait"}]

\* A worker that calls only get(async_op = True), or no such get at all.
Unmixed ==
  {m \in AllModes : (\A q \in Queries : m[q] = "async") \/ \A q \in Queries : m[q] # "async"}

\* An asynchronous get is pending while the worker calls another one.
Mixed == AllModes \ Unmixed
=============================================================================
