----------------------------- MODULE EnvRollout -----------------------------
(***************************************************************************)
(* Environment workers and rollout workers of an embodied run: who sends    *)
(* which slots to whom, the rounds of observations and results between      *)
(* them, the bootstrap prefetched during training, evaluation between two   *)
(* rounds, and the long-running asynchronous form with its stop.            *)
(*                                                                          *)
(*   src/rlinf/workers/env/env_worker.py            (interact, evaluate,    *)
(*                                                   prefetch...)           *)
(*   src/rlinf/workers/env/async_env_worker.py      (_interact, stop)       *)
(*   src/rlinf/workers/rollout/hf/huggingface_worker.py                     *)
(*                                                  (generate, evaluate)    *)
(*   src/rlinf/workers/rollout/hf/async_huggingface_worker.py               *)
(*   src/rlinf/utils/comm_mapping.py                (CommMapper)            *)
(*   src/rlinf/runners/embodied_runner.py, async_ppo_embodied_runner.py     *)
(*                                                                          *)
(* A slot is one environment of one pipeline stage; a batch is a sequence   *)
(* of cells, one per slot.  The cell of an observation names its slot, its  *)
(* stage and its number; the cell of a result repeats them and adds the     *)
(* version of the weights that computed it.  A channel key is a FIFO queue  *)
(* (module Channel).                                                        *)
(***************************************************************************)
EXTENDS Integers, Sequences, FiniteSets, SequencesExt, FiniteSetsExt

CONSTANTS
  Configs,     \* a set of Config records
  Stages,      \* stage_num = num_pipeline_stages
  MaxVersion   \* bound: the asynchronous actor synchronises this often

ASSUME StagesAssumption == Stages \in Nat \ {0} /\ MaxVersion \in Nat

\* slots: total_num_envs \div stage_num;  chunks: n_train_chunk_steps;
\* evalChunks: n_eval_chunk_steps;  epochs: rollout_epoch, eval_rollout_epoch.
Config == [envs : Nat \ {0}, rollouts : Nat \ {0}, slots : Nat \ {0}, chunks : Nat \ {0},
           evalChunks : Nat \ {0}, epochs : Nat \ {0}, steps : Nat, async : BOOLEAN,
           prefetch : BOOLEAN, eval : BOOLEAN, autoReset : BOOLEAN]

ASSUME ConfigsAssumption ==
  \A c \in Configs : c \in Config /\ c.slots % c.envs = 0 /\ c.slots % c.rollouts = 0

VARIABLES
  cfg,      \* the configuration of this run
  runner,   \* where the runner is and its global step
  env,      \* per env rank: pc, epoch, position, results received of a batch
  rollout,  \* per rollout rank: pc, position, observations received of a batch
  version,  \* per rollout rank: the version of its weights
  results,  \* per env rank: the batches of results of the current call, in order
  prefetched, \* per env rank: _prefetched_train_bootstrap is set
  rounds,   \* per env rank: trajectories were sent an even or odd number of times
  obs, res  \* per kind and pair of ranks: the queue of one channel key

vars == <<cfg, runner, env, rollout, version, results, prefetched, rounds, obs, res>>

Envs == 0..cfg.envs - 1
Rollouts == 0..cfg.rollouts - 1
Kinds == {"train", "eval"}

-----------------------------------------------------------------------------
(* CommMapper *)

\* get_dst_ranks: the destinations of rank src of n, and how many of the slots
\* each of the m gets from it.
DstRanks(slots, n, m, src) ==
  LET end == (src + 1) * (slots \div n)
      per == slots \div m
      from[b \in 0..end] ==
        IF b = end THEN <<>>
        ELSE LET size == Min({per - (b % per), end - b})
             IN <<<<b \div per, size>>>> \o from[b + size]
  IN from[src * (slots \div n)]

Sends(slots, n, m, src, dst) == \E p \in ToSet(DstRanks(slots, n, m, src)) : p[1] = dst

\* Mutant: the sources are listed from the last to the first.
SrcRanksReversed(slots, n, m, dst) ==
  LET sources[s \in 0..n] ==
        IF s = 0 THEN <<>>
        ELSE (IF Sends(slots, n, m, s - 1, dst) THEN <<s - 1>> ELSE <<>>) \o sources[s - 1]
  IN sources[n]

\* get_src_ranks: the ranks of n that send to rank dst of m, in order.
SrcRanks(slots, n, m, dst) ==
  LET sources[s \in 0..n] ==
        IF s = 0 THEN <<>>
        ELSE sources[s - 1] \o (IF Sends(slots, n, m, s - 1, dst) THEN <<s - 1>> ELSE <<>>)
  IN sources[n]

\* The rank maps, which the workers compute once.
RankMaps ==
  [c \in Configs |->
    [envDsts     |-> [e \in 0..c.envs - 1 |-> DstRanks(c.slots, c.envs, c.rollouts, e)],
     envSrcs     |-> [e \in 0..c.envs - 1 |-> SrcRanks(c.slots, c.rollouts, c.envs, e)],
     rolloutDsts |-> [r \in 0..c.rollouts - 1 |-> DstRanks(c.slots, c.rollouts, c.envs, r)],
     rolloutSrcs |-> [r \in 0..c.rollouts - 1 |-> SrcRanks(c.slots, c.envs, c.rollouts, r)]]]

EnvDsts(e) == RankMaps[cfg].envDsts[e]
EnvSrcs(e) == RankMaps[cfg].envSrcs[e]
RolloutDsts(r) == RankMaps[cfg].rolloutDsts[r]
RolloutSrcs(r) == RankMaps[cfg].rolloutSrcs[r]

\* The queues after src has split batch over its destinations.
Split(queues, kind, src, dsts, batch) ==
  LET offset[i \in DOMAIN dsts] == IF i = 1 THEN 0 ELSE offset[i - 1] + dsts[i - 1][2]
      part(i) == SubSeq(batch, offset[i] + 1, offset[i] + dsts[i][2])
  IN [queues EXCEPT ![kind] = [pair \in DOMAIN @ |->
        LET to == {i \in DOMAIN dsts : pair = <<src, dsts[i][1]>>}
        IN IF to = {} THEN @[pair] ELSE Append(@[pair], part(CHOOSE i \in to : TRUE))]]

-----------------------------------------------------------------------------
(* Positions *)

Cells(e) == LET per == cfg.slots \div cfg.envs IN [j \in 1..per |-> e * per + j - 1]

\* Observation n of a stage, of all slots of env rank e.
Observation(kind, e, stage, n) ==
  [j \in DOMAIN Cells(e) |-> [kind |-> kind, slot |-> Cells(e)[j], stage |-> stage, n |-> n]]

\* Position i of an epoch: chunk i \div Stages of stage i % Stages.  A training
\* epoch has one chunk more than chunks, for the bootstrap values.
Positions(kind) == (IF kind = "train" THEN cfg.chunks + 1 ELSE cfg.evalChunks) * Stages
Chunk(i) == i \div Stages
Stage(i) == i % Stages
Number(kind, epoch, i) == epoch * (Positions(kind) \div Stages) + Chunk(i)

\* The queues after e has sent, for every stage, the first observation.
SendBootstrap(queues, kind, e, epoch) ==
  LET sent[s \in 0..Stages] ==
        IF s = 0 THEN queues
        ELSE Split(sent[s - 1], kind, e, EnvDsts(e), Observation(kind, e, s - 1, Number(kind, epoch, 0)))
  IN sent[Stages]

-----------------------------------------------------------------------------
(* The environment worker *)

Idle == [pc |-> "idle", kind |-> "train", epoch |-> 0, i |-> 0, got |-> <<>>]

Init ==
  /\ cfg \in Configs
  /\ runner = [pc |-> IF cfg.async THEN "run" ELSE "start", step |-> 0]
  /\ env = [e \in Envs |-> IF cfg.async THEN [Idle EXCEPT !.pc = "boot"] ELSE Idle]
  /\ rollout = [r \in Rollouts |-> IF cfg.async THEN [Idle EXCEPT !.pc = "recv"] ELSE Idle]
  /\ version = [r \in Rollouts |-> 0]
  /\ results = [e \in Envs |-> <<>>]
  /\ prefetched = [e \in Envs |-> FALSE]
  /\ rounds = [e \in Envs |-> 0]
  /\ obs = [k \in Kinds |-> [p \in Envs \X Rollouts |-> <<>>]]
  /\ res = [k \in Kinds |-> [p \in Rollouts \X Envs |-> <<>>]]

\* Mutant: the interaction does not look at the prefetched bootstrap.
UsePrefetchedNever(e) == FALSE

UsePrefetched(e) == env[e].kind = "train" /\ env[e].epoch = 0 /\ prefetched[e]

\* The evaluation keeps its environments over the epochs under auto_reset.
NeedsBootstrap(e) ==
  /\ ~UsePrefetched(e)
  /\ env[e].kind = "eval" => ~cfg.autoReset \/ env[e].epoch = 0

\* Mutant: no turn for the event loop.
TurnNever(kind, i) == "recv"

\* The event loop gets its turn before a chunk, not before the bootstrap values.
Turn(kind, i) == IF cfg.async /\ kind = "train" /\ Chunk(i) < cfg.chunks THEN "yield" ELSE "recv"

\* An epoch of the call begins.
EnvBoot(e) ==
  /\ env[e].pc = "boot"
  /\ obs' = IF NeedsBootstrap(e) THEN SendBootstrap(obs, env[e].kind, e, env[e].epoch) ELSE obs
  /\ prefetched' = [prefetched EXCEPT ![e] = @ /\ ~UsePrefetched(e)]
  /\ results' = IF env[e].epoch = 0 THEN [results EXCEPT ![e] = <<>>] ELSE results
  /\ env' = [env EXCEPT ![e].pc = Turn(env[e].kind, 0), ![e].i = 0]
  /\ UNCHANGED <<cfg, runner, rollout, version, rounds, res>>

\* await asyncio.sleep(0)
EnvYield(e) ==
  /\ env[e].pc = "yield"
  /\ env' = [env EXCEPT ![e].pc = "recv"]
  /\ UNCHANGED <<cfg, runner, rollout, version, results, prefetched, rounds, obs, res>>

\* Mutant: evaluation also sends the observation after its last step.
SendsNextAlways(kind, epoch, i) == kind = "eval" \/ Chunk(i) < cfg.chunks

\* Mutant: none is sent for the bootstrap values.
SendsNextShort(kind, epoch, i) ==
  IF kind = "train" THEN Chunk(i) < cfg.chunks - 1 ELSE Chunk(i) < cfg.evalChunks - 1

\* There is an observation to send after the step at position i.
SendsNext(kind, epoch, i) ==
  IF kind = "train" THEN Chunk(i) < cfg.chunks
  ELSE \/ Chunk(i) < cfg.evalChunks - 1
       \/ cfg.autoReset /\ epoch < cfg.epochs - 1

\* Where e goes on after position i of its epoch.
Advance(e) ==
  LET me == env[e]
      next == [me EXCEPT !.got = <<>>]
  IN CASE me.i + 1 < Positions(me.kind) ->
            [next EXCEPT !.i = me.i + 1, !.pc = Turn(me.kind, me.i + 1)]
       [] me.i + 1 = Positions(me.kind) /\ me.epoch + 1 < cfg.epochs ->
            [next EXCEPT !.epoch = me.epoch + 1, !.i = 0, !.pc = "boot"]
       [] OTHER ->
            [next EXCEPT !.epoch = 0, !.i = 0, !.pc = IF cfg.async THEN "boot" ELSE "idle"]

RoundEnds(e) ==
  env[e].kind = "train" /\ env[e].epoch + 1 = cfg.epochs /\ env[e].i + 1 = Positions("train")

\* recv_rollout_results / recv_chunk_actions: the part of the next source.
\* With the last one the results are merged, the environments step, and the
\* next observation is sent; the trajectories go out at the end of the call.
EnvRecv(e) ==
  LET me == env[e]
      key == <<EnvSrcs(e)[Len(me.got) + 1], e>>
      got == Append(me.got, Head(res[me.kind][key]))
      n == Number(me.kind, me.epoch, me.i)
  IN /\ me.pc = "recv" /\ res[me.kind][key] # <<>>
     /\ res' = [res EXCEPT ![me.kind][key] = Tail(@)]
     /\ IF Len(got) < Len(EnvSrcs(e))
        THEN /\ env' = [env EXCEPT ![e].got = got]
             /\ UNCHANGED <<results, obs, rounds>>
        ELSE /\ env' = [env EXCEPT ![e] = Advance(e)]
             /\ results' = [results EXCEPT ![e] = Append(@,
                  [kind |-> me.kind, stage |-> Stage(me.i), n |-> n, rows |-> FlattenSeq(got)])]
             /\ obs' = IF SendsNext(me.kind, me.epoch, me.i)
                       THEN Split(obs, me.kind, e, EnvDsts(e), Observation(me.kind, e, Stage(me.i), n + 1))
                       ELSE obs
             /\ rounds' = IF RoundEnds(e) THEN [rounds EXCEPT ![e] = 1 - @] ELSE rounds
     /\ UNCHANGED <<cfg, runner, rollout, version, prefetched>>

\* prefetch_train_bootstrap, called by the runner.
EnvPrefetch(e) ==
  /\ env[e].pc = "prefetch" /\ ~prefetched[e]
  /\ obs' = SendBootstrap(obs, "train", e, 0)
  /\ prefetched' = [prefetched EXCEPT ![e] = TRUE]
  /\ env' = [env EXCEPT ![e].pc = "idle"]
  /\ UNCHANGED <<cfg, runner, rollout, version, results, rounds, res>>

\* AsyncEnvWorker.stop cancels the task, which ends where it waits: its only
\* await is the sleep(0).  The task may also not have begun.
EnvStop(e) ==
  /\ runner.pc = "stopping" /\ env[e].pc = "yield"
  /\ env' = [env EXCEPT ![e].pc = "stopped"]
  /\ UNCHANGED <<cfg, runner, rollout, version, results, prefetched, rounds, obs, res>>

-----------------------------------------------------------------------------
(* The rollout worker *)

\* generate and evaluate: the batches of one call.
RolloutPositions(kind) == cfg.epochs * Positions(kind)

\* The values at the end of an epoch carry no version.
IsLabelled(kind, i) == kind = "train" /\ Chunk(i % Positions("train")) < cfg.chunks

\* recv_env_output: the observations of the next source.  With the last one
\* they are merged, the model answers, and the answer is split and sent.
RolloutRecv(r) ==
  LET me == rollout[r]
      key == <<RolloutSrcs(r)[Len(me.got) + 1], r>>
      got == Append(me.got, Head(obs[me.kind][key]))
      batch == FlattenSeq(got)
      answer == [j \in DOMAIN batch |-> [cell |-> batch[j],
                   version |-> IF IsLabelled(me.kind, me.i) THEN version[r] ELSE -1]]
      last == me.i + 1 = RolloutPositions(me.kind)
  IN /\ me.pc = "recv" /\ obs[me.kind][key] # <<>>
     /\ obs' = [obs EXCEPT ![me.kind][key] = Tail(@)]
     /\ IF Len(got) < Len(RolloutSrcs(r))
        THEN rollout' = [rollout EXCEPT ![r].got = got] /\ res' = res
        ELSE /\ res' = Split(res, me.kind, r, RolloutDsts(r), answer)
             /\ rollout' = [rollout EXCEPT ![r] =
                  [me EXCEPT !.got = <<>>, !.i = IF last THEN 0 ELSE me.i + 1,
                             !.pc = IF last /\ ~cfg.async THEN "idle" ELSE "recv"]]
     /\ UNCHANGED <<cfg, runner, env, version, results, prefetched, rounds>>

\* Mutant: the older of two synchronisations is applied last.
RolloutSyncAnyOrder(r) ==
  /\ runner.pc = "run"
  /\ \E v \in 0..MaxVersion : version' = [version EXCEPT ![r] = v]
  /\ UNCHANGED <<cfg, runner, env, rollout, results, prefetched, rounds, obs, res>>

\* sync_model_from_actor, between two awaits of _generate.  The runner waits
\* for every rollout rank before it synchronises again.
RolloutSync(r) ==
  /\ runner.pc = "run" /\ version[r] < MaxVersion /\ \A q \in Rollouts : version[r] <= version[q]
  /\ version' = [version EXCEPT ![r] = @ + 1]
  /\ UNCHANGED <<cfg, runner, env, rollout, results, prefetched, rounds, obs, res>>

\* AsyncMultiStepRolloutWorker.stop
RolloutStop(r) ==
  /\ runner.pc = "stopping" /\ \A e \in Envs : env[e].pc = "stopped"
  /\ rollout[r].pc = "recv"
  /\ rollout' = [rollout EXCEPT ![r].pc = "stopped"]
  /\ UNCHANGED <<cfg, runner, env, version, results, prefetched, rounds, obs, res>>

-----------------------------------------------------------------------------
(* The runner *)

\* The envs and the rollouts get a call of a kind.
Call(kind) ==
  /\ env' = [e \in Envs |-> [Idle EXCEPT !.pc = "boot", !.kind = kind]]
  /\ rollout' = [r \in Rollouts |-> [Idle EXCEPT !.pc = "recv", !.kind = kind]]

AllIdle == (\A e \in Envs : env[e].pc = "idle") /\ (\A r \in Rollouts : rollout[r].pc = "idle")

\* update_rollout_weights, interact and generate.
StartStep ==
  /\ runner.pc = "start" /\ runner.step < cfg.steps
  /\ runner' = [runner EXCEPT !.pc = "rollouts"]
  /\ version' = [r \in Rollouts |-> runner.step]
  /\ Call("train")
  /\ UNCHANGED <<cfg, results, prefetched, rounds, obs, res>>

Prefetches == cfg.prefetch /\ runner.step + 1 < cfg.steps

\* The trajectories are there and generate has returned: training begins, and
\* the envs may prepare the next step meanwhile.
Train ==
  /\ runner.pc = "rollouts" /\ AllIdle
  /\ runner' = [runner EXCEPT !.pc = "train"]
  /\ env' = IF Prefetches THEN [e \in Envs |-> [env[e] EXCEPT !.pc = "prefetch"]] ELSE env
  /\ UNCHANGED <<cfg, rollout, version, results, prefetched, rounds, obs, res>>

\* Training and the prefetch have returned; evaluation if it is due.
Trained ==
  /\ runner.pc = "train" /\ AllIdle
  /\ runner' = [pc |-> IF cfg.eval THEN "eval" ELSE "start", step |-> runner.step + 1]
  /\ IF cfg.eval
     THEN Call("eval") /\ version' = [r \in Rollouts |-> runner.step + 1]
     ELSE UNCHANGED <<env, rollout, version>>
  /\ UNCHANGED <<cfg, results, prefetched, rounds, obs, res>>

Evaluated ==
  /\ runner.pc = "eval" /\ AllIdle
  /\ runner' = [runner EXCEPT !.pc = "start"]
  /\ UNCHANGED <<cfg, env, rollout, version, results, prefetched, rounds, obs, res>>

\* The asynchronous runner has reached max_steps: env.stop().wait().
Stop ==
  /\ runner.pc = "run"
  /\ runner' = [runner EXCEPT !.pc = "stopping"]
  /\ UNCHANGED <<cfg, env, rollout, version, results, prefetched, rounds, obs, res>>

\* rollout.stop().wait() and the handles of interact and generate.
Finish ==
  /\ \/ runner.pc = "start" /\ runner.step = cfg.steps
     \/ /\ runner.pc = "stopping"
        /\ \A e \in Envs : env[e].pc = "stopped"
        /\ \A r \in Rollouts : rollout[r].pc = "stopped"
  /\ runner' = [runner EXCEPT !.pc = "done"]
  /\ UNCHANGED <<cfg, env, rollout, version, results, prefetched, rounds, obs, res>>

Runner == StartStep \/ Train \/ Trained \/ Evaluated \/ Finish

EnvStep(e) == EnvBoot(e) \/ EnvYield(e) \/ EnvRecv(e) \/ EnvPrefetch(e)

Next ==
  \/ \E e \in Envs : EnvStep(e) \/ EnvStop(e)
  \/ \E r \in Rollouts : RolloutRecv(r) \/ RolloutSync(r) \/ RolloutStop(r)
  \/ Runner \/ Stop

Ranks == 0..Max({c.envs : c \in Configs} \cup {c.rollouts : c \in Configs}) - 1

\* Every worker runs; a call to stop is served at a yield in the end, because
\* the event loop serves its ready tasks in order.  Nothing obliges the actor
\* to synchronise or the runner to stop.
Fairness ==
  /\ \A e \in Ranks : WF_vars(e \in Envs /\ EnvStep(e)) /\ SF_vars(e \in Envs /\ EnvStop(e))
  /\ \A r \in Ranks : WF_vars(r \in Rollouts /\ RolloutRecv(r)) /\ WF_vars(r \in Rollouts /\ RolloutStop(r))
  /\ WF_vars(Runner)

Spec == Init /\ [][Next]_vars /\ Fairness

-----------------------------------------------------------------------------
(* Properties *)

\* Every row an env worker takes as the answer to an observation of one of its
\* slots answers that observation: of this slot and stage, the latest, and of
\* training or evaluation, whatever was split, merged, prefetched or left over.
\* (recv_rollout_results concatenates by source rank and checks sizes only.)
ResultsMatchObs ==
  \A e \in Envs : \A k \in DOMAIN results[e] :
    LET b == results[e][k]
        asked == Observation(b.kind, e, b.stage, b.n)
    IN /\ Len(b.rows) = Len(asked)
       /\ \A j \in DOMAIN asked : b.rows[j].cell = asked[j]

\* The versions that label the steps of one slot never go down along its
\* trajectory, and of a synchronous run a trajectory has only one: the weights
\* a slot meets are those of the same rollout worker, in order.
PolicyInOrder ==
  \A e \in Envs : \A k, l \in DOMAIN results[e] : \A j \in DOMAIN Cells(e) :
    LET a == results[e][k].rows[j].version
        b == results[e][l].rows[j].version
    IN k < l /\ a >= 0 /\ b >= 0 => IF cfg.async THEN a <= b ELSE a = b

\* Two workers never have more than one batch per stage on the way between
\* them: a slow rollout worker holds the environments back, though the channels
\* have no maxsize.
OneBatchPerStage ==
  \A k \in Kinds, e \in Envs, r \in Rollouts :
    Len(obs[k][<<e, r>>]) + Len(res[k][<<r, e>>]) <= Stages

\* When all workers of a synchronous run are between two calls, nothing is in
\* the channels but the bootstrap of the next step, if it was prefetched; and
\* a run that has ended leaves nothing.
CleanHandover ==
  ~cfg.async /\ AllIdle =>
    /\ \A k \in Kinds, e \in Envs, r \in Rollouts :
         /\ res[k][<<r, e>>] = <<>>
         /\ Len(obs[k][<<e, r>>]) =
              IF k = "train" /\ prefetched[e] /\ e \in ToSet(RolloutSrcs(r)) THEN Stages ELSE 0
    /\ runner.pc = "done" => \A e \in Envs : ~prefetched[e]

\* A synchronous run ends, and of an asynchronous one every env worker ends
\* its round while the runner does not stop it: nobody waits for an observation
\* or a result that nobody sends.
RoundsEnd ==
  /\ ~cfg.async => <>(runner.pc = "done")
  /\ \A e \in Ranks : \A b \in {0, 1} :
       (e \in Envs /\ cfg.async /\ rounds[e] = b)
         ~> ((e \in Envs => rounds[e] # b) \/ runner.pc \in {"stopping", "done"})

\* The calls to stop return, where every rollout rank serves one env rank.
\* (With two, the worker that is still in its synchronous get waits for a
\* rollout that waits for the one that has stopped: see hazards.)
StopReturns ==
  (runner.pc = "stopping" /\ \A r \in Rollouts : Len(RolloutSrcs(r)) = 1) ~> (runner.pc = "done")
=============================================================================
