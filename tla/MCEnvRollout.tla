---------------------------- MODULE MCEnvRollout ----------------------------
EXTENDS EnvRollout

Plain(e, r, n) ==
  [envs |-> e, rollouts |-> r, slots |-> n, chunks |-> 2, evalChunks |-> 2, epochs |-> 2,
   steps |-> 2, async |-> FALSE, prefetch |-> FALSE, eval |-> FALSE, autoReset |-> FALSE]

Prefetching(e, r, n) == [Plain(e, r, n) EXCEPT !.prefetch = TRUE, !.eval = TRUE]
Async(e, r, n) == [Plain(e, r, n) EXCEPT !.async = TRUE, !.epochs = 1]

\* Two ranks to one, one to two, and two to three, whose shares overlap.
Sound == {Prefetching(2, 1, 2), [Prefetching(1, 2, 2) EXCEPT !.autoReset = TRUE],
          [Plain(2, 3, 6) EXCEPT !.steps = 1, !.epochs = 1],
          Async(1, 2, 2), Async(2, 1, 2)}
=============================================================================
