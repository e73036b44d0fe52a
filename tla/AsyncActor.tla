----------------------------- MODULE AsyncActor -----------------------------
(***************************************************************************)
(* Asynchronous PPO: the actor ranks that collect trajectories while they   *)
(* train, and the control of stale samples.                                 *)
(*                                                                          *)
(*   src/rlinf/workers/actor/async_ppo_fsdp_worker.py                       *)
(*                            (AsyncPPOEmbodiedFSDPActor)                   *)
(*   src/rlinf/data/priority_store.py              (PriorityStore)          *)
(*   src/rlinf/runners/async_ppo_embodied_runner.py (run)                   *)
(*   src/rlinf/workers/rollout/hf/async_huggingface_worker.py  (_generate)  *)
(*                                                                          *)
(* wait_if_stale, which would hold a rollout back, is called nowhere.       *)
(* A trajectory is the pair of the lowest and the highest version among its *)
(* cells, half of them each: an environment may begin it with one policy    *)
(* and end it with a later one (module EnvRollout).  All actor ranks take   *)
(* from one key of one channel.                                             *)
(***************************************************************************)
EXTENDS Integers, Sequences, FiniteSets, SequencesExt, FiniteSetsExt

CONSTANTS
  Actors,      \* ranks of the actor
  Streams,     \* environment ranks with their rollout rank
  Configs,     \* a set of Config records
  MaxQueued    \* bound: trajectories in the channel, and in a rank's _recv_queue

\* threshold: staleness_threshold; share: on_policy_min_ratio in percent;
\* size: rollout_store_size_per_rank; steps: max_steps.
Config == [threshold : Nat, share : 0..100, size : Nat \ {0}, steps : Nat \ {0}]

ASSUME AsyncActorAssumption ==
  /\ Configs \subseteq Config
  /\ MaxQueued \in Nat \ {0}
  /\ IsFiniteSet(Actors) /\ Actors # {}

VARIABLES
  cfg,
  runner,     \* where the runner is and its global step
  began,      \* per stream: the version its current trajectory began with
  weights,    \* per stream: the version of the rollout worker
  channel,    \* actor_channel
  version,    \* per rank: version
  inHand,     \* per rank: what its thread has received and not yet judged
  recvQueue,  \* per rank: _recv_queue
  store,      \* per rank: rollout_store, from the lowest to the highest
  actor,      \* per rank: idle, wait, barrier or built
  batch       \* per rank: the trajectories of rollout_batch

vars == <<cfg, runner, began, weights, channel, version, inHand, recvQueue, store,
          actor, batch>>

Init ==
  /\ cfg \in Configs
  /\ runner = [pc |-> "construct", step |-> 0]
  /\ began = [s \in Streams |-> 0] /\ weights = [s \in Streams |-> 0]
  /\ channel = <<>>
  /\ version = [a \in Actors |-> 0]
  /\ inHand = [a \in Actors |-> <<>>] /\ recvQueue = [a \in Actors |-> <<>>]
  /\ store = [a \in Actors |-> <<>>]
  /\ actor = [a \in Actors |-> "wait"]
  /\ batch = [a \in Actors |-> <<>>]

-----------------------------------------------------------------------------
(* PriorityStore: the lowest version decides, then the mean *)

Lower(t, u) == t[1] < u[1] \/ (t[1] = u[1] /\ t[2] < u[2])

\* Behind the entries of the same priority, which are older.
Insert(s, t) ==
  LET n == CHOOSE m \in 0..Len(s) : \A i \in 1..Len(s) : i <= m <=> ~Lower(t, s[i])
  IN  SubSeq(s, 1, n) \o <<t>> \o SubSeq(s, n + 1, Len(s))

\* Mutant: the highest makes room.
AddForHighest(s, t) == IF Len(s) < cfg.size THEN Insert(s, t) ELSE Insert(Front(s), t)

Add(s, t) ==
  IF Len(s) < cfg.size THEN Insert(s, t)
  ELSE IF Lower(t, s[1]) THEN s
  ELSE Tail(Insert(s, t))

\* Mutant: what is in the store stays.
RemoveNone(s, v) == s

\* The store is sorted: what is below v comes first.
RemoveBelow(s, v) ==
  LET n == CHOOSE m \in 0..Len(s) : \A i \in 1..Len(s) : i <= m <=> s[i][1] < v
  IN  SubSeq(s, n + 1, Len(s))

TopN(s) == Reverse(SubSeq(s, Max({1, Len(s) - cfg.size + 1}), Len(s)))

\* The cells of version v among those of the store, in percent; none if empty.
ShareOf(s, v) ==
  LET halves(k) == Cardinality({i \in DOMAIN s : s[i][k] = v})
  IN  IF s = <<>> THEN 0 ELSE (100 * (halves(1) + halves(2))) \div (2 * Len(s))

-----------------------------------------------------------------------------
(* Environments and rollouts, seen from the actor *)

\* A round of the stream ends with its trajectory in the channel.
Produce(s) ==
  /\ Len(channel) < MaxQueued
  /\ channel' = Append(channel, <<began[s], weights[s]>>)
  /\ began' = [began EXCEPT ![s] = weights[s]]
  /\ UNCHANGED <<cfg, runner, weights, version, inHand, recvQueue, store, actor, batch>>

\* The rollout worker has received the weights of the actor.
SyncWeights(s) ==
  /\ runner.pc = "sync" /\ weights[s] # runner.step
  /\ weights' = [weights EXCEPT ![s] = runner.step]
  /\ UNCHANGED <<cfg, runner, began, channel, version, inHand, recvQueue, store, actor, batch>>

-----------------------------------------------------------------------------
(* The thread of an actor rank *)

\* input_channel.get()
Take(a) ==
  /\ inHand[a] = <<>> /\ channel # <<>> /\ Len(recvQueue[a]) < MaxQueued
  /\ inHand' = [inHand EXCEPT ![a] = <<Head(channel)>>]
  /\ channel' = Tail(channel)
  /\ UNCHANGED <<cfg, runner, began, weights, version, recvQueue, store, actor, batch>>

\* Mutant: a trajectory at the threshold is stale.
StaleAtThreshold(t, v) == t[1] <= v - cfg.threshold

Stale(t, v) == t[1] < v - cfg.threshold

\* The thread compares with the version it reads now.
Admit(a) ==
  /\ inHand[a] # <<>>
  /\ inHand' = [inHand EXCEPT ![a] = <<>>]
  /\ recvQueue' = IF Stale(inHand[a][1], version[a]) THEN recvQueue
                  ELSE [recvQueue EXCEPT ![a] = Append(@, inHand[a][1])]
  /\ UNCHANGED <<cfg, runner, began, weights, channel, version, store, actor, batch>>

-----------------------------------------------------------------------------
(* construct_rollout_batch *)

\* Mutant: a full store is enough.
ReadyWhenFull(s, v) == Len(s) >= cfg.size

Ready(s, v) == Len(s) >= cfg.size /\ (cfg.share = 0 \/ ShareOf(s, v) >= cfg.share)

\* _drain_received_trajectories: s with what is not stale of q.
Received(s, q, v) ==
  LET after[n \in 0..Len(q)] ==
        IF n = 0 THEN s
        ELSE IF Stale(q[n], v) THEN after[n - 1] ELSE Add(after[n - 1], q[n])
  IN  after[Len(q)]

\* ... and remove_below.
Drained(a) ==
  RemoveBelow(Received(store[a], recvQueue[a], version[a]), version[a] - cfg.threshold)

\* One iteration of _wait_for_rollout_store_ready.
Wait(a) ==
  /\ actor[a] = "wait"
  /\ store' = [store EXCEPT ![a] = Drained(a)]
  /\ recvQueue' = [recvQueue EXCEPT ![a] = <<>>]
  /\ actor' = [actor EXCEPT ![a] = IF Ready(Drained(a), version[a]) THEN "barrier" ELSE "wait"]
  /\ UNCHANGED <<cfg, runner, began, weights, channel, version, inHand, batch>>

\* torch.distributed.barrier() and topn.
Barrier ==
  /\ \A a \in Actors : actor[a] = "barrier"
  /\ actor' = [a \in Actors |-> "built"]
  /\ batch' = [a \in Actors |-> TopN(store[a])]
  /\ UNCHANGED <<cfg, runner, began, weights, channel, version, inHand, recvQueue, store>>

-----------------------------------------------------------------------------
(* The runner *)

\* run_training has returned; set_global_step of the actor.
Trained ==
  /\ runner.pc = "construct" /\ \A a \in Actors : actor[a] = "built"
  /\ runner' = [pc |-> "sync", step |-> runner.step + 1]
  /\ version' = [a \in Actors |-> runner.step + 1]
  /\ actor' = [a \in Actors |-> "idle"]
  /\ batch' = [a \in Actors |-> <<>>]
  /\ UNCHANGED <<cfg, began, weights, channel, inHand, recvQueue, store>>

\* update_rollout_weights has returned: the next construct_rollout_batch.
Synced ==
  /\ runner.pc = "sync" /\ \A s \in Streams : weights[s] = runner.step
  /\ LET more == runner.step < cfg.steps
     IN /\ runner' = [runner EXCEPT !.pc = IF more THEN "construct" ELSE "done"]
        /\ actor' = IF more THEN [a \in Actors |-> "wait"] ELSE actor
  /\ UNCHANGED <<cfg, began, weights, channel, version, inHand, recvQueue, store, batch>>

Next ==
  \/ \E s \in Streams : Produce(s) \/ SyncWeights(s)
  \/ \E a \in Actors : Take(a) \/ Admit(a) \/ Wait(a)
  \/ Barrier \/ Trained \/ Synced

\* Streams and ranks run.  The channel answers its waiting gets in order, so
\* no rank waits for ever while trajectories come: strong fairness of Take.
Fairness ==
  /\ \A s \in Streams : WF_vars(Produce(s)) /\ WF_vars(SyncWeights(s))
  /\ \A a \in Actors : SF_vars(Take(a)) /\ WF_vars(Admit(a)) /\ WF_vars(Wait(a))
  /\ WF_vars(Barrier) /\ WF_vars(Trained) /\ WF_vars(Synced)

Spec == Init /\ [][Next]_vars /\ Fairness

-----------------------------------------------------------------------------
(* Properties *)

Trajectory == (0..cfg.steps) \X (0..cfg.steps)

\* Type invariant.
TypeOK ==
  /\ runner \in [pc : {"construct", "sync", "done"}, step : 0..cfg.steps]
  /\ began \in [Streams -> 0..cfg.steps] /\ weights \in [Streams -> 0..cfg.steps]
  /\ version \in [Actors -> 0..cfg.steps]
  /\ actor \in [Actors -> {"idle", "wait", "barrier", "built"}]
  /\ channel \in Seq(Trajectory)
  /\ {inHand, recvQueue, store, batch} \subseteq [Actors -> Seq(Trajectory)]

\* A rank trains on as many trajectories as rollout_store_size_per_rank says,
\* none of them more than staleness_threshold behind, although the store keeps
\* the trajectories of earlier steps and the thread judges with an old version.
TrainsFresh ==
  \A a \in Actors : actor[a] = "built" =>
    Len(batch[a]) = cfg.size /\ \A i \in DOMAIN batch[a] : batch[a][i][1] >= version[a] - cfg.threshold

\* Of the cells a rank trains on, at least on_policy_min_ratio are of the
\* version that is trained.
OnPolicyShare ==
  \A a \in Actors : actor[a] = "built" => ShareOf(batch[a], version[a]) >= cfg.share

\* A store that is full before and after a step never gets worse at any place.
StoreImproves ==
  [][\A a \in Actors : Len(store[a]) = cfg.size /\ Len(store'[a]) = cfg.size =>
       \A i \in 1..cfg.size : ~Lower(store'[a][i], store[a][i])]_vars

\* Training reaches max_steps: stale trajectories, a share that is not met yet,
\* and other ranks that take from the same channel only delay it.
TrainingEnds == <>(runner.pc = "done")
=============================================================================
