---------------------------- MODULE MCAsyncActor ----------------------------
EXTENDS AsyncActor

\* Reuse over two steps with a share of on-policy cells, no staleness at all,
\* and a store of one.
Sound == {[threshold |-> 1, share |-> 50, size |-> 2, steps |-> 2],
          [threshold |-> 0, share |-> 0, size |-> 2, steps |-> 2],
          [threshold |-> 1, share |-> 0, size |-> 1, steps |-> 3]}
=============================================================================
