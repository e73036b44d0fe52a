---------------------------- MODULE DynScheduler ----------------------------
(***************************************************************************)
(* The dynamic (AUTO placement) GPU scheduler of RLinf: the SchedulerWorker *)
(* and its RolloutManager, InferenceManager and ActorManager, which keep a  *)
(* ledger of GPU counts, and the workers they steer: rollout instances that *)
(* occupy GPUs until they report Offloaded, an inference worker that        *)
(* occupies its GPUs until it is done, and a Megatron trainer that grows    *)
(* over ranks 0 .. world_size-1 when the scheduler tells it to.             *)
(*                                                                          *)
(*   src/rlinf/scheduler/dynamic_scheduler/{manager,scheduler_worker,utils} *)
(*   src/rlinf/workers/megatron_worker.py      (trainer side)               *)
(*   src/rlinf/utils/placement.py              (which GPUs belong to whom)  *)
(*                                                                          *)
(* A worker's own GPUs are modelled physically (held, infHeld, actorWorld), *)
(* beside what the managers believe (mgr, seen, available): the two meet    *)
(* only through messages.  How one rollout instance migrates its sequences  *)
(* is the subject of RolloutMigration; here the rollout is the total number *)
(* of sequences still generating (gen) and not yet delivered (left).        *)
(***************************************************************************)
EXTENDS Integers, Sequences

CONSTANTS
  ActorMP,             \* GPUs of one actor replica (tp * pp * cp)
  ActorDp,             \* initial number of actor replicas
  RolloutMP,           \* GPUs of one rollout instance
  RolloutDp,           \* rollout instances on the rollout's own GPUs
  BorrowedDp,          \* rollout instances that fit on the actor's GPUs
  InferenceMP,
  InferenceDp,         \* 0: the component is not configured
  ValidDpSizes,        \* get_valid_dp_sizes(cfg, total_gpus, ActorMP)
  NMinibatches,        \* algorithm.n_minibatches, the trainer's iterations
  TotalTasks,          \* group_size * rollout_batch_size
  MaxRunningRequests,  \* rollout.max_running_requests
  SchedUsePre,         \* use_pre_process_policy as the SchedulerWorker reads it
  WorkerUsePre,        \* the same key as placement and trainers read it
  UseWait              \* use_wait_before_last_iter_policy

Components == {"actor", "rollout", "inference"}
MP == [actor |-> ActorMP, rollout |-> RolloutMP, inference |-> InferenceMP]

HasInference == InferenceDp > 0
ActorGpus == ActorDp * ActorMP
TotalGpus == ActorGpus + RolloutDp * RolloutMP + InferenceDp * InferenceMP

\* With the pre-process policy the placement prepends the actor's GPUs to
\* the rollout's; instance ids count from the lowest GPU.
RolloutBase == IF WorkerUsePre THEN 0 ELSE ActorGpus
InitInst == [actor     |-> ActorDp,
             rollout   |-> RolloutDp + (IF WorkerUsePre THEN BorrowedDp ELSE 0),
             inference |-> InferenceDp]
Instances == 0 .. InitInst["rollout"] - 1

ASSUME SizesAssumption ==
  /\ ActorMP \in Nat \ {0} /\ ActorDp \in Nat \ {0}
  /\ RolloutMP \in Nat \ {0} /\ RolloutDp \in Nat \ {0}
  /\ InferenceMP \in Nat \ {0} /\ InferenceDp \in Nat
  /\ BorrowedDp \in Nat \ {0} /\ BorrowedDp * RolloutMP = ActorGpus
  /\ NMinibatches \in Nat \ {0} /\ MaxRunningRequests \in Nat \ {0}
  /\ TotalTasks \in Nat /\ TotalTasks > 1
  /\ SchedUsePre \in BOOLEAN /\ WorkerUsePre \in BOOLEAN /\ UseWait \in BOOLEAN

\* init_trainer_resharding asserts that the largest valid size spans the
\* cluster and applies the initial one as a strategy.
ASSUME ValidDpAssumption ==
  /\ ValidDpSizes \subseteq Nat \ {0}
  /\ ActorDp \in ValidDpSizes
  /\ \E top \in ValidDpSizes :
       /\ top * ActorMP = TotalGpus
       /\ \A d \in ValidDpSizes : d <= top

VARIABLES
  \* SchedulerWorker and its managers
  pc,         \* where SchedulerWorker.schedule stands
  iter,       \* train_iter of main_loop; -1 during pre_process
  mgr,        \* per component: current_instance_num, gpu_num, instance_offset
  seen,       \* _DynamicSchedulerState.components_instance_num
  available,  \* _DynamicSchedulerState.available_gpu_num
  high,       \* gen when the last Report was scattered
  complete,   \* started when the last Report was scattered
  finishing,  \* how many of the lowest alive instances were told to finish
  \* rollout, inference and trainer workers
  started,    \* every rollout instance has registered its sequences
  gen, left,  \* sequences still generating / not yet delivered
  held,       \* rollout instances whose engine occupies its GPUs
  infLeft,    \* sequences the inference worker has not processed
  infHeld,    \* the inference worker occupies its GPUs
  apc,        \* where the trainer's run_training_pipeline stands
  actorIter, actorWorld,
  actorLoaded,  \* weights are on the GPUs 0 .. actorWorld-1
  \* the channel between ActorManager and the trainer's rank 0
  actorReq,   \* scheduler_request_queue: None or a world size
  actorResp   \* scheduler_response_queue: number of pending messages

ledger == <<mgr, seen, available>>
report == <<high, complete>>
sched == <<pc, iter, ledger, report, finishing>>
rollout == <<started, gen, left, held>>
inference == <<infLeft, infHeld>>
trainer == <<apc, actorIter, actorWorld, actorLoaded>>
vars == <<sched, rollout, inference, trainer, actorReq, actorResp>>

-----------------------------------------------------------------------------
(* ComponentManager *)

\* reset
Fresh(c) == [inst |-> InitInst[c], gpu |-> InitInst[c] * MP[c], offset |-> 0]

\* Mutant: current_gpu_num is not updated.
ReleaseKeepsGpus(c, n) ==
  [inst |-> mgr[c].inst - n, gpu |-> mgr[c].gpu, offset |-> mgr[c].offset + n]

\* update(released_instance_num = n)
Release(c, n) ==
  [inst   |-> mgr[c].inst - n,
   gpu    |-> mgr[c].gpu - n * MP[c],
   offset |-> mgr[c].offset + n]

\* update(incremental_instance_num = n)
Increment(c, n) ==
  [inst   |-> mgr[c].inst + n,
   gpu    |-> (mgr[c].inst + n) * MP[c],
   offset |-> mgr[c].offset - n]

\* schedule() ends with an exception when an assertion of it fails.
AssertThen(ok, next) == pc' = IF ok THEN next ELSE "failed"

CeilDiv(a, b) == (a + b - 1) \div b

\* Mutant: the sizes are not compared with the GPUs at hand.
BestFitUnbounded(cur, gpus) ==
  {d \in ValidDpSizes \cup {cur} : d >= cur /\ \A e \in ValidDpSizes : e <= d}

\* The largest valid size reachable from cur with at most gpus more GPUs;
\* cur itself when there is none.
BestFit(cur, gpus) ==
  LET fits == {d \in ValidDpSizes : d > cur /\ (d - cur) * ActorMP <= gpus}
  IN  {d \in fits \cup {cur} : \A e \in fits : e <= d}

\* The message Python sends as None: the go-ahead of pre_process and "no
\* change" of scale are the same message.
None == 0

Pop(q) == /\ q # <<>>
          /\ q' = Tail(q)

-----------------------------------------------------------------------------
(* A global step begins: the runner has synchronised the weights, onloaded *)
(* every engine and called schedule(), rollout(), run_training().          *)

FirstTrainerStep == IF WorkerUsePre THEN "pre" ELSE "train"

Init ==
  /\ pc = "begin" /\ iter = -1
  /\ mgr = [c \in Components |-> Fresh(c)]
  /\ seen = InitInst
  /\ available = 0 /\ finishing = 0
  /\ high = 0 /\ complete = FALSE
  /\ started = FALSE
  /\ gen = TotalTasks /\ left = TotalTasks /\ held = Instances
  /\ infLeft = TotalTasks /\ infHeld = HasInference
  /\ apc = FirstTrainerStep /\ actorIter = 0
  /\ actorWorld = ActorGpus /\ actorLoaded = ~WorkerUsePre
  /\ actorReq = <<>> /\ actorResp = 0

\* The runner waits for the trainer's and the scheduler's handles.
NextGlobalStep ==
  /\ pc = "done" /\ apc = "done"
  /\ pc' = "begin" /\ iter' = -1
  /\ high' = 0 /\ complete' = FALSE /\ finishing' = 0
  /\ started' = FALSE
  /\ gen' = TotalTasks /\ left' = TotalTasks /\ held' = Instances
  /\ infLeft' = TotalTasks /\ infHeld' = HasInference
  /\ apc' = FirstTrainerStep /\ actorIter' = 0
  /\ actorLoaded' = ~WorkerUsePre
  /\ UNCHANGED <<ledger, actorWorld, actorReq, actorResp>>

-----------------------------------------------------------------------------
(* SchedulerWorker.pre_process *)

RolloutPreProcess ==
  /\ pc = "begin"
  /\ mgr' = [mgr EXCEPT !["rollout"] = Fresh("rollout")]
  /\ pc' = IF SchedUsePre THEN "preReport" ELSE "preOthers"
  /\ UNCHANGED <<iter, seen, available, report, finishing,
                 rollout, inference, trainer, actorReq, actorResp>>

\* RolloutManager.report, first half: the requests are in the channels.
ScatterReport(from, to) ==
  /\ pc = from
  /\ pc' = to
  /\ high' = gen /\ complete' = started
  /\ UNCHANGED <<iter, ledger, finishing,
                 rollout, inference, trainer, actorReq, actorResp>>

PreReport == ScatterReport("preReport", "preGather")

\* The sums that report() can compute: instances answer one by one while
\* sequences finish, and one that has not started yet reports nothing.
Reported == IF complete THEN gen .. high ELSE 0 .. high

\* The lowest n alive instances are told to finish, by finish() or at the
\* end of migrate(n).
StartFinish(n, ok) ==
  /\ AssertThen(ok, "finish")
  /\ finishing' = IF ok THEN n ELSE 0
  /\ UNCHANGED <<iter, ledger, report,
                 rollout, inference, trainer, actorReq, actorResp>>

\* migrate(n) asserts that one alive instance remains.
MigrateAsserts(n) == n < mgr["rollout"].inst

\* Mutant: the default -1 of running_tasks_threshold is taken literally.
ThresholdSentinel == -1

RunningTasksThreshold == TotalTasks \div 2

\* The loop of pre_process_impl: half of the sequences are done, and every
\* instance has registered its own; otherwise it asks again.
PreGather ==
  /\ pc = "preGather"
  /\ \E r \in Reported, all \in {complete, started} :
       \/ /\ all /\ r <= RunningTasksThreshold
          /\ StartFinish(BorrowedDp, MigrateAsserts(BorrowedDp))
       \/ /\ ~all \/ r > RunningTasksThreshold
          /\ pc' = "preReport"
          /\ UNCHANGED <<iter, ledger, report, finishing,
                         rollout, inference, trainer, actorReq, actorResp>>

\* The other managers' pre_process, then scheduler_state.reset().
PreOthers ==
  /\ pc = "preOthers"
  /\ pc' = "waitActor" /\ iter' = 0
  /\ mgr' = [mgr EXCEPT !["actor"] = Fresh("actor"),
                        !["inference"] = Fresh("inference")]
  /\ available' = 0
  /\ seen' = [InitInst EXCEPT !["rollout"] = mgr["rollout"].inst]
  /\ actorReq' = IF SchedUsePre THEN Append(actorReq, None) ELSE actorReq
  /\ UNCHANGED <<report, finishing, rollout, inference, trainer, actorResp>>

-----------------------------------------------------------------------------
(* SchedulerWorker.main_loop *)

WaitForActorUpdate ==
  /\ pc = "waitActor"
  /\ actorResp > 0
  /\ actorResp' = actorResp - 1
  /\ pc' = "rollout"
  /\ UNCHANGED <<iter, ledger, report, finishing,
                 rollout, inference, trainer, actorReq>>

\* scheduler_state.update(c, released, incremental) with manager state m.
StateUpdate(c, m, released, incremental) ==
  /\ mgr' = [mgr EXCEPT ![c] = m]
  /\ seen' = [seen EXCEPT ![c] = m.inst]
  /\ available' = available + released - incremental

LastIter == iter = NMinibatches - 1

\* Mutant: off by one.
BeforeLastIterLate == iter = NMinibatches - 1

BeforeLastIter == iter = NMinibatches - 2

\* release_or_allocate("rollout") up to the first await.
RolloutRelease ==
  /\ pc = "rollout"
  /\ \/ /\ mgr["rollout"].inst = 0
        /\ pc' = "inference"
        /\ StateUpdate("rollout", mgr["rollout"], 0, 0)
        /\ UNCHANGED <<iter, report, finishing,
                       rollout, inference, trainer, actorReq, actorResp>>
     \/ /\ mgr["rollout"].inst > 0 /\ LastIter        \* main_loop_finalize
        /\ StartFinish(mgr["rollout"].inst, TRUE)
     \/ /\ mgr["rollout"].inst > 0 /\ ~LastIter
        /\ ScatterReport("rollout", "gather")

\* migrate_policy: how many instances may go while r sequences run.
ReleasedMax(r) ==
  LET spare == mgr["rollout"].inst - CeilDiv(r, MaxRunningRequests)
  IN  IF mgr["rollout"].inst <= 1 \/ spare < 0 THEN 0 ELSE spare

\* find_release_instance_num_needed, and its assertions.
ReleaseNeeded(most) ==
  IF most = 0 THEN {0}
  ELSE {CeilDiv((d - seen["actor"]) * ActorMP, RolloutMP) :
          d \in BestFit(seen["actor"], most * RolloutMP)}

PolicyAsserts(most, n) ==
  most > 0 => seen["actor"] \in ValidDpSizes /\ n <= most

\* release_resource after the reports have been gathered.
RolloutGather ==
  /\ pc = "gather"
  /\ \E r \in Reported :
       \/ /\ r = 0 \/ (UseWait /\ BeforeLastIter)
          /\ StartFinish(mgr["rollout"].inst, TRUE)
       \/ /\ r > 0 /\ ~(UseWait /\ BeforeLastIter)
          /\ \E n \in ReleaseNeeded(ReleasedMax(r)) :
               \/ /\ n = 0
                  /\ AssertThen(PolicyAsserts(ReleasedMax(r), n), "inference")
                  /\ StateUpdate("rollout", mgr["rollout"], 0, 0)
                  /\ UNCHANGED <<iter, report, finishing, rollout,
                                 inference, trainer, actorReq, actorResp>>
               \/ /\ n > 0
                  /\ StartFinish(n, /\ PolicyAsserts(ReleasedMax(r), n)
                                    /\ MigrateAsserts(n))

\* Mutant: the last instance addressed is not waited for.
FinishingButOne == mgr["rollout"].offset .. mgr["rollout"].offset + finishing - 2

Finishing == mgr["rollout"].offset .. mgr["rollout"].offset + finishing - 1

\* finish() has gathered Offloaded from every instance it addressed.  Only
\* a release in the middle of main_loop reaches scheduler_state.update with
\* a non-zero count: main_loop_finalize returns (0, 0) and pre_process is
\* followed by scheduler_state.reset().
FinishGathered ==
  /\ pc = "finish"
  /\ Finishing \cap held = {}
  /\ LET m == Release("rollout", finishing)
     IN  IF iter = -1
         THEN /\ pc' = "preOthers"
              /\ mgr' = [mgr EXCEPT !["rollout"] = m]
              /\ UNCHANGED <<seen, available>>
         ELSE /\ pc' = "inference"
              /\ StateUpdate("rollout", m,
                             IF LastIter THEN 0 ELSE finishing * RolloutMP, 0)
  /\ finishing' = 0
  /\ UNCHANGED <<iter, report, rollout, inference, trainer, actorReq, actorResp>>

\* release_or_allocate("inference").  main_loop_finished_handler is done
\* once the worker has offloaded (~infHeld).
InferenceMustWait == UseWait /\ (BeforeLastIter \/ seen["rollout"] = 0)

InferenceRelease ==
  /\ pc = "inference"
  /\ pc' = "actor"
  /\ \/ /\ ~HasInference                           \* no manager: warning only
        /\ UNCHANGED ledger
     \/ /\ HasInference /\ LastIter                \* main_loop_finalize
        /\ ~infHeld
        /\ StateUpdate("inference", mgr["inference"], 0, 0)
     \/ /\ HasInference /\ ~LastIter
        /\ mgr["inference"].inst > 0 /\ ~infHeld
        /\ ~UseWait \/ InferenceMustWait
        /\ StateUpdate("inference", Release("inference", mgr["inference"].inst),
                       mgr["inference"].inst * InferenceMP, 0)
     \/ /\ HasInference /\ ~LastIter
        /\ mgr["inference"].inst = 0 \/ (IF UseWait THEN ~InferenceMustWait
                                                 ELSE infHeld)
        /\ StateUpdate("inference", mgr["inference"], 0, 0)
  /\ UNCHANGED <<iter, report, finishing,
                 rollout, inference, trainer, actorReq, actorResp>>

\* Mutants: the increment is sent; a smaller size is not worth a message.
ScaleMessageIncrement(w) == IF w >= mgr["actor"].gpu THEN w - mgr["actor"].gpu ELSE w
ScaleMessageGrowOnly(w) == IF w <= mgr["actor"].gpu THEN None ELSE w

\* ActorManager.scale(w) sends None when nothing changes.
ScaleMessage(w) == IF w = mgr["actor"].gpu THEN None ELSE w

\* try_allocate asserts this before it looks for a larger size.
AllocateAsserts ==
  available >= ActorMP =>
    /\ mgr["actor"].inst \in ValidDpSizes
    /\ \E d \in ValidDpSizes : d > mgr["actor"].inst

\* allocate_resource for a train_iter that is not the last one.
ActorAllocate ==
  /\ pc = "actor" /\ ~LastIter
  /\ AssertThen(AllocateAsserts, "waitActor")
  /\ IF AllocateAsserts
     THEN \E d \in BestFit(mgr["actor"].inst, available) :
            LET n == d - mgr["actor"].inst
            IN  /\ actorReq' = Append(actorReq, ScaleMessage(d * ActorMP))
                /\ StateUpdate("actor",
                               IF n = 0 THEN mgr["actor"] ELSE Increment("actor", n),
                               0, n * ActorMP)
                /\ iter' = iter + 1
     ELSE UNCHANGED <<iter, ledger, actorReq>>
  /\ UNCHANGED <<report, finishing, rollout, inference, trainer, actorResp>>

\* main_loop_finalize: scale(init_gpu_num).
ActorFinalize ==
  /\ pc = "actor" /\ LastIter
  /\ actorReq' = Append(actorReq, ScaleMessage(ActorGpus))
  /\ StateUpdate("actor",
                 IF mgr["actor"].inst >= ActorDp
                 THEN Release("actor", mgr["actor"].inst - ActorDp)
                 ELSE Increment("actor", ActorDp - mgr["actor"].inst), 0, 0)
  /\ pc' = "done"
  /\ UNCHANGED <<iter, report, finishing, rollout, inference, trainer, actorResp>>

-----------------------------------------------------------------------------
(* Rollout workers *)

AllStarted ==
  /\ ~started
  /\ started' = TRUE
  /\ UNCHANGED <<sched, gen, left, held, inference, trainer, actorReq, actorResp>>

\* One sequence stops generating.  An instance that has not started yet
\* still owes at least one.
SequenceDone ==
  /\ gen > 0 /\ (started \/ gen > 1)
  /\ gen' = gen - 1
  /\ UNCHANGED <<sched, started, left, held, inference, trainer, actorReq, actorResp>>

\* Its result is put into the output channel.
Deliver ==
  /\ left > gen
  /\ left' = left - 1
  /\ UNCHANGED <<sched, started, gen, held, inference, trainer, actorReq, actorResp>>

\* A finishing instance has no sequence left (they were delivered, or they
\* migrated to an instance that still holds its GPUs) and offloads.
Offload(i) ==
  /\ pc = "finish" /\ i \in Finishing \cap held
  /\ held = {i} => left = 0
  /\ held' = held \ {i}
  /\ UNCHANGED <<sched, started, gen, left, inference, trainer, actorReq, actorResp>>

(* Inference worker *)

Infer ==
  /\ HasInference /\ infLeft > left
  /\ infLeft' = infLeft - 1
  /\ UNCHANGED <<sched, rollout, infHeld, trainer, actorReq, actorResp>>

\* scheduler_offload_sync: offload, then tell the scheduler.
InferenceOffload ==
  /\ infHeld /\ infLeft = 0
  /\ infHeld' = FALSE
  /\ UNCHANGED <<sched, rollout, infLeft, trainer, actorReq, actorResp>>

(* Trainer: run_training_pipeline *)

\* scheduler_pre_process, then _load_weight_and_optimizer.
ActorPreProcess ==
  /\ apc = "pre"
  /\ Pop(actorReq)
  /\ apc' = "train" /\ actorLoaded' = TRUE
  /\ UNCHANGED <<sched, rollout, inference, actorIter, actorWorld, actorResp>>

\* One training_step: it needs the first actorIter + 1 minibatches.  Then
\* scheduler_scale_sync announces it.
TrainStep ==
  /\ apc = "train"
  /\ LET ready == TotalTasks - (IF HasInference THEN infLeft ELSE left)
     IN  NMinibatches * ready >= (actorIter + 1) * TotalTasks
  /\ apc' = "sync"
  /\ actorResp' = actorResp + 1
  /\ UNCHANGED <<sched, rollout, inference, actorIter, actorWorld,
                 actorLoaded, actorReq>>

\* get_scheduler_response returns and apply_parallel_strategy is called.
ScaleSync ==
  /\ apc = "sync"
  /\ Pop(actorReq)
  /\ actorWorld' = IF Head(actorReq) = None THEN actorWorld ELSE Head(actorReq)
  /\ actorIter' = actorIter + 1
  /\ apc' = IF actorIter + 1 = NMinibatches THEN "done" ELSE "train"
  /\ UNCHANGED <<sched, rollout, inference, actorLoaded, actorResp>>

-----------------------------------------------------------------------------
Scheduler ==
  \/ RolloutPreProcess \/ PreReport \/ PreGather \/ PreOthers
  \/ WaitForActorUpdate \/ RolloutRelease \/ RolloutGather
  \/ InferenceRelease \/ ActorAllocate \/ ActorFinalize
RolloutWorkers == AllStarted \/ SequenceDone \/ Deliver
InferenceWorker == Infer \/ InferenceOffload
Trainer == ActorPreProcess \/ TrainStep \/ ScaleSync

Next ==
  \/ NextGlobalStep \/ Scheduler \/ FinishGathered
  \/ RolloutWorkers \/ \E i \in Instances : Offload(i)
  \/ InferenceWorker \/ Trainer

Spec == Init /\ [][Next]_vars

\* Every coroutine and every worker process keeps running.
FairSpec ==
  /\ Spec
  /\ WF_vars(NextGlobalStep) /\ WF_vars(Scheduler) /\ WF_vars(FinishGathered)
  /\ WF_vars(AllStarted) /\ WF_vars(SequenceDone) /\ WF_vars(Deliver)
  /\ \A i \in Instances : WF_vars(Offload(i))
  /\ WF_vars(Infer) /\ WF_vars(InferenceOffload) /\ WF_vars(Trainer)

-----------------------------------------------------------------------------
(* Properties *)

\* Every variable stays within its type.
TypeOK ==
  /\ pc \in {"begin", "preReport", "preGather", "preOthers", "waitActor",
             "rollout", "gather", "finish", "inference", "actor", "done",
             "failed"}
  /\ iter \in -1 .. NMinibatches - 1
  /\ mgr \in [Components -> [inst : Nat, gpu : Nat, offset : Int]]
  /\ seen \in [Components -> Nat]
  /\ available \in Nat
  /\ high \in 0 .. TotalTasks /\ complete \in BOOLEAN
  /\ finishing \in 0 .. InitInst["rollout"]
  /\ started \in BOOLEAN
  /\ gen \in 0 .. TotalTasks /\ left \in gen .. TotalTasks
  /\ held \subseteq Instances
  /\ infLeft \in 0 .. TotalTasks /\ infHeld \in BOOLEAN
  /\ apc \in {"pre", "train", "sync", "done"}
  /\ actorIter \in 0 .. NMinibatches
  /\ actorWorld \in Nat /\ actorLoaded \in BOOLEAN
  /\ actorReq \in Seq(Nat)
  /\ actorResp \in Nat

\* The GPUs each worker really occupies.
ActorHolds == IF actorLoaded THEN 0 .. actorWorld - 1 ELSE {}
InstanceHolds(i) == RolloutBase + i * RolloutMP .. RolloutBase + (i + 1) * RolloutMP - 1
InferenceHolds == IF infHeld THEN TotalGpus - InferenceDp * InferenceMP .. TotalGpus - 1
                             ELSE {}

\* No GPU is ever occupied by the trainer and by a rollout engine or the
\* inference worker at once, although the trainer is resized from counts
\* the managers keep and never from the GPUs themselves.
GpusExclusive ==
  /\ \A i \in held : ActorHolds \cap InstanceHolds(i) = {}
  /\ ActorHolds \cap InferenceHolds = {}

\* Between two components' turns the ledger neither loses nor invents a
\* GPU: what the managers hold and what is available add up to the cluster.
InMainLoop == iter >= 0 /\ ~LastIter /\ pc \in {"waitActor", "rollout", "gather",
                                    "finish", "inference", "actor"}
GpusConserved ==
  InMainLoop => available + mgr["actor"].gpu + mgr["rollout"].gpu + mgr["inference"].gpu
                  = TotalGpus

\* No assertion of the scheduler can fail: migrate keeps an instance,
\* try_allocate is never entered with the actor already at its largest size
\* and GPUs to spare, the release policy stays within its own maximum.
NoAssertionFails == pc # "failed"

\* While the trainer computes, its world size is the one the ActorManager
\* believes in: a resize is never lost, duplicated or applied one round late.
TrainerAgrees ==
  (apc = "train" /\ pc = "waitActor") => actorWorld = mgr["actor"].gpu

\* When a global step is over the trainer is back on its initial GPUs
\* ("GPU resources of actor should be scale-down to init_gpu_num",
\* manager.py:893).
ScaledDownAtEnd == (pc = "done" /\ apc = "done") => actorWorld = ActorGpus

\* With the wait policy the last training iteration runs on every GPU of the
\* cluster (dynamic_scheduling.rst: "the actor takes all resources for an
\* expanded final step").
LastIterOnAllGpus ==
  (UseWait /\ NMinibatches > 1 /\ apc = "train" /\ actorIter = NMinibatches - 1)
    => actorWorld = TotalGpus

\* Who uses which GPU.
Owner == [g \in 0 .. TotalGpus - 1 |->
            IF g \in ActorHolds THEN "actor"
            ELSE IF g \in InferenceHolds THEN "inference"
            ELSE IF \E i \in held : g \in InstanceHolds(i) THEN "rollout"
            ELSE "none"]

StartOwner == [g \in 0 .. TotalGpus - 1 |->
                 IF g < RolloutBase THEN "actor"
                 ELSE IF g < TotalGpus - InferenceDp * InferenceMP THEN "rollout"
                 ELSE "inference"]

Pool == INSTANCE GpuPool WITH Gpus <- 0 .. TotalGpus - 1,
                              Home <- 0 .. ActorGpus - 1,
                              Start <- StartOwner,
                              owner <- Owner

\* Managers, messages and workers together are a GpuPool: rollout and
\* inference give GPUs back, the trainer grows into free GPUs only, and the
\* next global step finds every GPU where it belongs.
ImplementsPool == Pool!Spec

\* Every global step completes: nobody waits on somebody who waits on them.
StepsComplete == []<>(pc = "done" /\ apc = "done")
=============================================================================
