# TLA+ models of RLinf's distributed layer

RLinf runs reinforcement learning for large models on a cluster: rollout engines
generate sequences or drive simulated robots, an optional inference component
evaluates them, a trainer learns from them. Most of its 180 000 lines of Python are
numerical; what makes them one system is how the workers share accelerators, how work
moves while it is running, how workers hand data to each other, and how a policy gets
from the trainer to those who generate with it. This directory models that. Paths below
are relative to `src/rlinf/`.

    tlc -workers 2 -config DynWaitPre.cfg MCDynScheduler     one run
    tlapm DynSchedulerProofs.tla                             one module of proofs

`PROJECT.json` lists the components, the runs, the map from definitions to source
lines, the hazards each property is aimed at, the findings and the theorems. An
operator commented "Mutant:" is a plausible bug: put in place of the definition
that follows it, it makes TLC report the property that `PROJECT.json` names.

## 1. Inventory

| Component | State | Operations | Hard part | Module |
|---|---|---|---|---|
| Dynamic scheduler: `scheduler/dynamic_scheduler/` with the trainer's side in `workers/megatron_worker.py` | per component instances, GPUs and offset; available GPUs; pending scale messages | pre-process, report, release, allocate, scale, finalize, reset | three managers, three kinds of workers, decisions from old reports; the trainer is resized by count | `DynScheduler`, `GpuPool` |
| Rollout migration: `RolloutManager`, `RolloutScalingScheduler`, `workers/rollout/sglang`, `workers/rollout/utils.py` | running and aborted groups of each instance, an event, groups on the way | report, migrate out, migrate in, finish, generate, abort, resume | coroutines of one event loop share lists and an event; groups end while they are aborted | `RolloutMigration` |
| Device lock: `scheduler/manager/lock_manager.py`, `scheduler/worker/lock.py` | owner, waiters, woken future of each accelerator | acquire and release of several devices | a released lock is free for a moment; hold-and-wait | `DeviceLock`, `ResourceLock` |
| Channel: `scheduler/channel/channel_worker.py` with the put side of `channel.py` and `async_work.py` | queue, getters and putters per key; stream from the producer; chain of remote calls | put, put_nowait, get, get_nowait, get_batch | bounded queue, wakeups, peeking, items that do not travel with their call | `Channel` |
| Gets of one worker: `channel.py`, `AsyncChannelCommWork` | pending receives, store by query id | get, async get, get_nowait, wait | answers and receives pair up by arrival, not by query | `ChannelGet` |
| Collective groups: `scheduler/collective/`, `worker.py` | work queues, process groups and the roles in them, streams, memory shared by IPC | send, recv, send_tensor, recv_tensor, broadcast | both ends choose a route from what they know of devices; messages are matched by order alone | `Collective`, `CollectiveInv` |
| Environment and rollout workers: `workers/env`, `workers/rollout/hf`, `utils/comm_mapping.py` with `embodied_runner.py`, `async_ppo_embodied_runner.py` | observations and results per pair of ranks, position in a round, prefetched bootstrap | interact, evaluate, prefetch, generate, stop | batches are split and merged over ranks; who still sends is decided on both sides | `EnvRollout`, `EnvRolloutInv` |
| Asynchronous PPO actor: `workers/actor/async_ppo_fsdp_worker.py`, `data/priority_store.py` | receive queue, priority store, version | receive, drain, construct a batch, train, synchronise | a thread judges staleness with a version that moves on; ranks share one key and a barrier | `AsyncActor` |
| Weight synchronisation: `hybrid_engines/weight_syncer`, `sync_model_to_rollout`, `sync_model_from_actor`, `request_actor_sync_model` | buckets and patches, the sender's snapshot, a flush thread, requested flags, versions | synchronise and wait, request in the background, train meanwhile | coroutines yield between two messages of one synchronisation while training goes on | `WeightSync`, `WeightSyncInv` |
| Port lock (`lock_manager.py`) | port owners | acquire, clean-up thread | stale liveness check | later |
| Worker, groups, managers: `scheduler/worker/`, `scheduler/manager/` | registries of addresses, groups, nodes | register, look up, call all ranks | start-up order | later |
| Placement, cluster, hardware | none (pure) | ranks from configuration | arithmetic at boundaries | later, as operators |
| Replay buffer (`data/replay_buffer.py`) | episodes and cache | add, sample, evict | cache and store disagree | candidate |
| Other runners and workers, agents, algorithms, environments, models, utilities | | | sequential loops, numerical work, services | not modelled |

How they interact. There are two kinds of run.

A *reasoning* run: the runner starts a global step, synchronises the weights,
puts one request per rollout instance into a channel, and calls `rollout()`,
`run_inference()`, `run_training()` and `schedule()`. `SchedulerWorker.schedule`
runs the pre-process and then one iteration of its main loop for each training
step. In each iteration it waits for the trainer's message, asks the
`RolloutManager`, the `InferenceManager` and the `ActorManager` in this order, and passes
the available GPUs along. Managers and workers talk through channels, one request
and one response queue per instance. Every worker wraps its use of accelerators
in its device lock, which the `DeviceLockManager` actor grants.

An *embodied* run: environment workers send observations to rollout workers and get
actions back, over a channel with one key per pair of ranks, and put finished
trajectories into the actor's channel. The actor trains and sends its weights to the rollout
workers. In the synchronous form the runner calls these one after the other; in the
asynchronous forms environments and rollouts run until they are stopped, and the
actor collects trajectories and synchronises while they run.

Channels and weight synchronisation both rest on the sends, receives and broadcasts of
collective groups, which choose a route (gloo, the accelerators' CCL, or IPC between workers on
one device) for each tensor.

The properties that make each part correct:

- *dynamic scheduler*: no two components on one GPU; GPUs neither lost nor invented;
  trainer and manager agree on the trainer's size; no assertion fails; a global
  step ends, with the trainer on its own GPUs; the last iteration has the cluster.
- *rollout migration*: a group is in exactly one place and delivered once; an
  instance stays until it is told to leave; no wakeup is lost; every group is
  delivered in the end.
- *device lock*: exclusion per device over subsets; no exception; service in the
  order of the calls; no deadlock.
- *channel*: FIFO per key; items neither lost nor doubled nor misrouted; nobody
  sleeps over an item or over room.
- *gets*: everybody gets the answer to its own query, whoever received it.
- *collective groups*: everything arrives whole, in order and in its place; shared memory stays
  valid until it is copied; no CCL collective with two ranks on a device; every call returns.
- *environment and rollout*: an environment acts on the answer to its own latest observation;
  a trajectory's policies are in order; rounds end and leave nothing behind; stop returns.
- *asynchronous actor*: nothing too stale is trained on, with the share of on-policy cells that
  is asked for; training ends.
- *weight synchronisation*: all rollouts have the same weights, those the snapshot says;
  samples are labelled with the policy that made them; every synchronisation ends.

## 2. The models

### DynScheduler

`pc` walks through `SchedulerWorker.schedule`; a step is what runs between two
awaits. `mgr` holds each manager's `current_instance_num`, `current_gpu_num` and
`current_instance_offset` (`Release`, `Increment` are `ComponentManager.update`), `seen` and
`available` are `_DynamicSchedulerState`. Beside what the managers believe stand the
GPUs that workers really occupy: `held` (rollout instances that have not offloaded),
`infHeld`, and the trainer's `actorWorld` and `actorLoaded`. The two meet only through
messages: `actorReq`, `actorResp`, and the responses that `FinishGathered` waits for.

Data is abstracted to numbers of tasks. `gen` tasks are being generated, `left` are not
delivered, `infLeft` are not evaluated. A report is any sum that instances answering one
by one could add up to (`Reported`), so that decisions are taken on old numbers, as
in the code. `ReleaseNeeded` is `migrate_policy` with
`find_release_instance_num_needed`, `BestFit` the search of `try_allocate` for a
data-parallel size, and the assertions on the way are steps into `pc = "failed"`.

`GpuPool` is the abstract specification: one owner per GPU, rollout and inference
only give back, the trainer takes free GPUs only, and a global step begins when
everything is back home. `ImplementsPool` checks that the scheduler with its workers
is one, under the mapping `Owner` from `held`, `infHeld` and `actorWorld`.

Not in the model: time (the intervals at which the manager polls), the validity
checks of the configuration, and trainer ranks other than 0, which get the message by
broadcast. A group's way through a migration is `RolloutMigration`'s: here an
instance that finishes has delivered its sequences or passed them on.

### RolloutMigration

`mpc` is the `RolloutManager`, `req` and `resp` are the queues of each instance. Inside an
instance one event loop interleaves `rollout()` (`rpc`), the `main_loop()` of its
`RolloutScalingScheduler` (`lpc`) and one task per group, and these share
`RunningStatusManager`: `running`, `aborted` and the event `exit_rollout_iter`. A step is
what runs between two awaits, so that between `put` of a result and `mark_done`, or between
`abort_generation` and the drained set, everything else may happen. A group carries
its `SeqGroupInfo`: how many sequences are `completed`, how many were `cut`.

An abort reaches any subset of the sequences in the engine. Returned groups are
handled in any order. `Assign` computes the shares of `_assign_sequences_sequential`
with its running sums. How many instances are migrated and when is left open, so that the
model covers every policy. One assumption is made on the environment: `Migrate`
waits until every alive instance has begun its `rollout()`. With the pre-process policy
the manager checks this (`total_tasks == rollout_total_tasks`); without it, a whole
training iteration lies in between.

### DeviceLock and ResourceLock

`asyncio.gather` starts the acquires of one call back to back, so `Acquire` and
`Release` treat all devices of a call in one step. A release only completes the first
waiter's future (`woken`); the waiter takes the lock in a later step (`Resume`), and
between the two the lock looks unlocked. The history variable `asked` records the
order of the calls. `ResourceLock` is the abstract specification: a worker enters
when no one inside, and no one who asked earlier, wants one of its devices.

### Channel

`ready` is the event loop of the ChannelWorker: `Run` executes the first call until it
returns or sleeps on a future, and a woken call goes to the end. `getters` and `putters` are
those of `asyncio.Queue`; `peek` waits among the getters (`GetBatch`). The
producer's puts run through `AsyncChannelWork`: a remote call is made when the last
one of the same key has returned (`MayExecute`). The remote call does not carry its
item: `Put` receives the next item of the stream, whatever call that was sent for. The
calls of a behaviour are a `program`, chosen at the start from `Programs`; they arrive in
any order the chaining allows.

### ChannelGet

A get is a remote call with a query id and a posted receive. The channel answers its
calls in any order, the n-th receive completes with the n-th answer, and each asynchronous
get looks its own query id up in `channel_data_store`. `Store` (the callback) and
`MakeHandle` (the constructor) run in different threads: either may come first.
Synchronous gets and `get_nowait` keep the worker's thread (`Busy`) and return what their
receive brought.

### EnvRollout

The runner calls the workers of a step (`prefetch`, `interact` with `generate`, `evaluate`), or, in
the asynchronous form, starts them once and stops them at any time. `env` and `rollout` say
where each rank stands: which stage, chunk and epoch, and how many partial batches of the
current one have arrived. `obs` and `res` are the channel's queues, one for each kind (train,
eval) and pair of ranks, FIFO as `Channel` has shown. `DstRanks` and `SrcRanks`
are `CommMapper`: to which peers a rank sends shares of its batch (`Split`), and in which order it
merges what it gets (`SrcRanks`, from `Sends`). A cell of an observation names its slot, its stage and its number, so that an answer says
what it answers. `prefetched` is the bootstrap that `interact` finds done. Asynchronous rollouts take new weights
between two rounds only.

### AsyncActor

Each actor rank has a receiving thread (`Take`, `Admit`) and the coroutine that constructs a
batch (`Wait`, which drains what the thread has queued, and `Barrier`). A trajectory is the pair of the lowest and the
highest version among its cells. The thread reads `version` when it judges, before the
queue and the store; the drain throws out what has become stale. `store` is the
`PriorityStore`, ordered by version, of bounded size. All ranks take from one channel key.

### WeightSync

A mode says which syncer is used (buckets, loaded as they come or together; patches, with
the init bootstrap or without), whether the runner waits, and whether the actor may train
before the first synchronisation has ended. `sender` is `sync_model_to_rollout`; `task[r]` is
`sync_model_from_actor` of rollout rank `r`, counting the messages it has loaded; between any two
steps the actor may change `weights` and the rollout may generate. Of a parameter one sees
whether it changed: a patch is the function of the changed ones. `flush` is what a thread
still has to write to `snapshot`. `requested` is the flag in which background requests are
coalesced. `policies` is a history variable.

### Collective

A worker's call is a list of operations (`todo`), computed from what the rank knows: the devices
of both workers, the kind and the tensors; a receiver learns the latter from the messages
it takes. Operations post to and take from process groups (`wire`, `count`), which match the
n-th operation of each member; an operation on the CCL is put on a stream and lands later; a
tensor shared by IPC is read in the sender's memory (`mem`) when it is cloned. Asynchronous
calls go through the thread of a work queue (`queue`, `running`), synchronous ones on the main
thread once the queue is empty. `joined` is the rendezvous of a group. `NoCcl` is when accelerator tensors go over
gloo: two models in a group, no accelerator, or one whose type has no CCL (its models are not in `CclModels`). The workers
of a group are in one order; the code sorts a pair by the workers' names and the sub-groups of a broadcast by address,
which is the same below ten ranks, so that only there a sub-group of two is the pair's own group. A scene fixes the workers,
their devices and what each calls; TLC takes every interleaving. `CollectiveInv` has what a scene
must satisfy for the theorems (`Placed`, `Ordered`) and the inductive invariant.

## 3. The runs

| Run | Question | Result |
|---|---|---|
| `wait_pre` | both policies, six GPUs, three iterations: exclusivity, conservation, agreement, scale-down, last iteration, refinement of `GpuPool`, progress | holds |
| `no_wait_overlap` | inference and no wait policy: exclusivity | violated |
| `device_lock` | five workers, overlapping sets of five devices: exclusion, no exception, first come first served, no starvation | holds |
| `migration` | three instances, four groups, endless global steps: nothing lost, assertions, nobody leaves early | holds |
| `migration_group` | two instances, three groups of two sequences, which an abort may cut in the middle: no lost wakeup, and every group is delivered | holds |
| `channel` | bounded queue with one key; weighted items, two keys and competing batches: order, conservation, wakeups | holds |
| `get_unmixed` | three gets, all asynchronous or none: own answer, every answered get returns | holds |
| `env_rollout` | five layouts of environment and rollout ranks, synchronous with prefetch and evaluation, asynchronous with stop: answers match observations, policies in order, backpressure, clean handover, rounds end, stop returns | holds |
| `async_actor` | two ranks, two streams, three configurations: freshness, on-policy share, the store, training ends | holds |
| `weight_sync` | buckets and patches, waiting and in the background: alignment, labels, matching messages, every synchronisation ends | holds |
| `collective` | thirteen scenes of two to four workers: delivery, handles, device sharing, every call returns | holds |
| `collective_in_place` | an in-place receive from a worker on the same device whose device is not certain: delivery | violated |

Two runs violate a property that the repository's text or tests state:

- `no_wait_overlap` (`manager.py:762`). Without the wait policy, inference gives its
  GPUs away when it is done. If it becomes done after the rollout's report and before its own
  turn, its GPUs are counted as available, and the trainer grows over the lowest GPUs,
  where rollout engines are still loaded.
- `collective_in_place` (`collective_group.py:1851`). `recv_tensor` over an uncertain route unpacks
  the object it received into a function and its arguments; what it received is a pair of that
  object and the piggyback payload, so it raises.

### The same modules under other constants

What follows shows in these modules, with constants that no configuration here uses; each
is listed as a hazard with its line, most with a note.

- `DynScheduler`, `SchedUsePre = TRUE`, `WorkerUsePre = FALSE`, which is how the code reads an absent
  `use_pre_process_policy` (`scheduler_worker.py:57`, `megatron_worker.py:200`): violates
  `ScaledDownAtEnd`; the go-ahead is read as a scale message and every later message comes a round late.
  With both policies off and no inference everything holds.
- `RolloutMigration`, `Share <- OneShareEmpty`: violates `LeavesWhenTold`; the loop that waits for a
  notification is entered only with running groups (`sglang_worker.py:430`).
- `Channel`, `Programs <- Peeking`: violates `NobodyStranded`; a peek uses up the one wakeup of a put, and
  when it leaves the item the next getter sleeps on (`channel_worker.py:47`). `Programs <- NotWaiting`:
  the producer's future is never completed after a `put_nowait` that raised
  (`async_work.py:302`). A bounded channel with puts to two keys: violates `FifoPerKey`; the remote
  put of one key receives an item of the other.
- `ChannelGet`, `Modes <- Mixed`: violates `OwnAnswer`; blocking calls keep what their receive brought,
  which may be another query's answer (`channel.py:555`, also 513 and 610).
- `Collective`, `Scenes <- BothWays`: violates `Delivered`; two workers that may share a device and send to
  each other at once use one process group for both directions (`collective_group.py:1943`). Two
  more scenes are not configured here: three workers, all on one device, where the first
  broadcasts and sends to the second, both asynchronously, violate `HandlesLive`: the hand-over inside a
  broadcast uses the pair's own group (`collective_group.py:1472`) from another work queue, and the receivers
  take each other's messages. A broadcast to two workers that both have devices 2 and 3 and are both on 2
  violates `NoSharedAccelerator`: only workers with a single device are grouped (`collective_group.py:1443`).
- `WeightSync`, `Modes <- Instant`: violates `LabelledPolicy`; buckets that are loaded as they come leave a
  mixture of two policies for a while. `Modes <- InitEarly`: violates `AlignedAtRest`; what is
  trained between the buckets of the init bootstrap is in no patch (`patch_syncer.py:741`).
- `EnvRollout`, two environment ranks to one rollout rank in the asynchronous form: `stop` need not
  return (`async_env_worker.py:86`), which is why `StopReturns` names its condition.

### Bounds

- `DynScheduler`: six GPUs, three iterations, six tasks. Sizes are chosen so that some sums of
  released GPUs reach a valid size and some do not, and so that the trainer can grow in every
  iteration and in none. A task stands for several sequences. The theorems of section 4
  have no bound. 15 000 states.
- `RolloutMigration`: three instances are the fewest in which a group can move twice and in
  which groups are shared over more than one instance; four groups are the fewest with which an
  instance can get two others' groups. Groups of two sequences, of which an abort can cut
  one, are in the smaller run, with the liveness. A global step follows the other without end.
  2 million and 179 000 states.
- `DeviceLock`: the queues are bounded by the number of workers, the state space is finite
  without a bound of ours.
- `Channel`: a program of eight or nine calls; room for one item is full after one.
- `ChannelGet`: three gets, the fewest in which an answer passes two others.
- `EnvRollout`: two stages, two chunks and two epochs are the fewest of each that have a first and a
  last; the ratios of ranks are two to one, one to two and two to three, the last with shares that
  overlap. `MaxVersion = 1`: one change of policy in the middle of a round.
- `AsyncActor`: `MaxQueued = 1` trajectory in the channel and in a rank's queue; the store of two is the
  smallest in which one is kept and one replaced. Two ranks are enough to take from each other.
- `WeightSync`: two parameters (one bucket is followed by another; a patch has both, one or
  none), two rollout ranks, two values, two global steps where the runner waits. A background run has no
  bound: it goes on for ever.
- `Collective`: each scene is a few calls, chosen so that together they take every route, each kind
  of payload, and every pattern of devices (same, apart, overlapping) with up to four workers.

Deadlock is an error in the runs of `DynScheduler`, `DeviceLock`, `RolloutMigration` and `Collective`.
`CHECK_DEADLOCK FALSE` is set for the others (and `collective_in_place`), since
their programs end: the calls of a channel's program, the steps of an embodied run, the
global steps of the bound.

### Fairness

- `DynScheduler`: weak fairness of the scheduler, of each worker's steps and of the
  runner: every coroutine and process runs when it can. Generation ends because lengths
  are limited.
- `RolloutMigration`: weak fairness of each instance's two coroutines, of each group's task
  and of the manager's steps that answer something. None of the manager's choices:
  groups are delivered even if it never asks for anything, or migrates for ever.
- `DeviceLock`: the manager's event loop runs what is ready, and a worker inside its block
  leaves it. Nobody has to ask.
- `ChannelGet`: the channel serves and the worker's threads go on; nobody has to put or
  to get.
- `EnvRollout`: weak fairness of each worker and of the runner where a call has returned. Whether a
  synchronisation or a stop comes is left open. Strong fairness of the arrival of a stop at an
  environment worker: it reaches the worker at any await, and between two awaits cannot.
- `AsyncActor`: weak fairness of threads and coroutines; strong fairness of a rank's `Take`: the
  channel answers waiting gets in their order, so that
  a rank is not passed over for ever.
- `WeightSync`: weak fairness of the event loops, of the flush thread, and of the rollout's return to the top
  of `_generate`, which `RoundsEnd` of `EnvRollout` shows. Training need not happen.
- `Collective`: weak fairness of `Next` as a whole. No operation is ever repeated, so that a step of
  anybody is progress, and nothing is assumed of who goes first.

## 4. The proofs

`DynSchedulerProofs` proves for every number and size of components, every set of valid
data-parallel sizes and every number of iterations and tasks: `Typed`, `Exclusive`
(`GpusExclusive`), `Conserved` (`GpusConserved`), `Agreement` (`TrainerAgrees`), `ScaledDown`
(`ScaledDownAtEnd`). They rest on the named assumptions on the constants, which state what the placement
and `init_trainer_resharding` assert, and on `Policies`: scheduler and
workers read the same pre-process policy, and if there is an inference component the
wait policy is on. Without either part a theorem fails, as the runs and section 3 show.

The argument. `GpusExclusive` alone is not inductive: when the trainer grows, nothing
in the step looks at a GPU. `IInv` (module `DynSchedulerInv`) says why it need not.

1. *Ledger.* GPU counts are instance counts times a size; alive rollout instances are the ones
   from the offset on (`LedgerShape`), and only those occupy GPUs (`HeldInv`). So what the
   rollout gave back is a prefix of its GPUs.
2. *Reach.* The GPUs from 0 to `Reach` are given back, because inference is released
   only when the rollout is gone and its own worker is off (`InferenceInv`, `SeenInv`). What is available
   and what the trainer has add up to `Reach` in the main loop (`ReachInv`).
3. *Lockstep.* At most one message is in flight, and after reading it the trainer has the
   size in the ledger (`Lockstep`). So its GPUs are below `Reach` at every moment.

`InitIInv` and `NextIInv` (one lemma per action) give `Invariance`; the theorems follow from
`IInv` state by state.

It adds `AssertionsHold` (`NoAssertionFails`) and `LastIterExpanded`
(`LastIterOnAllGpus`), from `EInv`, which is inductive together with `IInv`: the trainer is at a
valid data-parallel size and the manager has seen it, so that the search of `try_allocate` finds a
larger one whenever GPUs are available and the release policy stays within its maximum (`SizeInv`);
rollout and inference leave in the last iteration (`LeaveInv`), and with the wait policy in
the one before (`WaitInv`), so that what the trainer takes is everything.

Its last part proves `Refinement`: `ImplementsPool`, that scheduler and workers together are a
`GpuPool`. The instances of rollout and inference cut the GPUs above a component's offset into
blocks, each GPU is in one of them, and `IInv` says that a GPU has one user, so `Owner` is
what each user's own variable says; then each action is a move of some GPUs, a new step, or a stutter.

`DeviceLockProofs` proves `LockInvariance`, `Exclusion` and `NoErrors` for any workers,
devices and assignment. The core of `LockInv` is that a woken lock is unlocked and has waiters:
nobody else can take it, because acquire looks at the waiters too, and so the
waiter that resumes finds it unowned. `OrderInvariance` says that many queues are ordered as one: each device's
waiters are ordered like `asked`, its owner, while it still waits for other devices, has asked before
all of them, and who waits and does not own a device is in its queue. So a worker that enters has nobody
before it in `asked` with a device in common, which is what `InOrderOfCalls` needs: `FirstComeFirstServed`, the refinement
of `ResourceLock`. `Typed` is the type invariant.

`WeightSyncProofs` proves for any numbers of parameters, values, rollout ranks and
global steps: `ReceiversInStep` (`InStep`, in every mode), `Alignment` (`AlignedAtRest`, if in patch mode nothing is
trained before the first synchronisation: `ReadyFirst`) and `Labelled` (`LabelledPolicy`, if moreover a rollout that
is waited for does not load buckets as they come: `BufferedOrNoWait`). Without these assumptions the last two fail
(`Modes <- InitEarly`, `Modes <- Instant`, section 3). `WeightSyncInv` has the invariant, in three layers.

1. *Steps*: each rank is at rest, asked to synchronise, or has joined and is about to read the next message in its
   channel; a rank's version is that of the sender's snapshot, so both sides agree whether the init bootstrap comes.
2. *Agree* and *Content*: `Received` is a rank's model with its buffer and the held message applied. Loading does not
   change it, and a broadcast changes it in the same way for all. In patch mode it is the snapshot as it
   will be once flushed; with waiting it is the actor's weights, except for the message to come.
3. *PolicyInv* ties the weights with which a waiting rank generates to the recorded policy of its version.

`RolloutMigrationProofs` proves for any numbers of instances, groups and sequences, if every instance starts with
groups of its own (`EverybodyHasWork`; with `Share <- OneShareEmpty` the second is false):
`NeverSleepsOverGroups` (`NoLostWakeup`) and `LeavesOnlyWhenTold` (`LeavesWhenTold`). The difficulty is that one
`asyncio.Event` tells rollout() two things: groups were migrated in, or you may go. `InstInv` has three parts.

1. *Talk*: for each point of the manager's loop, what may be in the queues of an instance. Groups that were
   sent may still be unread when the next request arrives, so a request is preceded by at most one of them.
2. *MeansGroups*: until `NotifyFinish`, a set event goes with running tasks that nobody has looked at,
   so that rollout() finds work when it wakes and does not take the groups for its leave.
3. *Loop*: whoever waits for a notification while tasks run has the event set.

An instance without groups of its own never enters the loop that waits, which is why each must have some.

From there `GroupInvariance` gives `NothingIsLost` (`NothingLost`) and `AssertionsAreTrue` (`AssertionsHold`). A group
may be in an instance's share, with its task, in the list of aborted groups, or in a message on the way, and a step
moves whole sets of them between these. `GroupInv` says:

1. *Whole*, *Apart* and *Kept*: every group is held by exactly one instance, the manager, or is done, and in an instance
   it is in one of the places. `Hold` is one set for an instance, so that a step of one instance that only shuffles
   its own groups leaves the first two alone.
2. *Listed*, *Answer*, *Manages*: when an instance may have a list of aborted groups, which answer the manager is
   waiting for, that what it holds it is migrating, and that somebody stays to receive it.
3. *Progress* and *Counts*: the number of a group's completed and cut sequences, by where the group is. This is what
   the assertions read.

What a message in a queue does when it is read depends on what is behind it, hence on `Talk`: `GroupInv` is inductive
only together with `InstInv`. Two facts about data are proved by induction, what a concatenation of lists contains
(`Flatten`), and that the shares that `Assign` computes with a running sum are a partition (`AssignGives`).

`ChannelProofs` proves for every program and any size of the queue: `Typed`, `Conserved` (`ItemsConserved`) and
`PutsNotStranded`, that when the event loop is idle a put waits only at a full queue. `IInv` has: `Loop`, that the ready
list is the set of the calls that can run; `Waiters`, that a call waits once and at its own key; `Stream`, that the
items received are the first of the stream, each carried by one put; `Places`, where an item is, by what its
carrier does; and `RoomIsKnown`, that for all the room that puts wait for there is a woken put, which is where the
difficulty is: a woken put has not yet entered, and the room may be gone when it does. Two more theorems have
a hypothesis on the programs, because without it they are false:

- `Ordered` (`FifoPerKey`) if the queue is unbounded or the puts have one key (`OrderedPrograms`). The remote call does not carry
  its item; with two keys in a bounded queue a put of one key receives an item of the other.
- `NoneStranded` (`NobodyStranded`) if a batch is the only consumer of its key or always takes what it peeked at (`NoItemIsLeft`;
  `Programs <- Peeking` violates it). Nothing under `src/rlinf` calls `get_batch`, it is there for users.

Its second part is about `ChannelGet`, and proves for any number of gets and items, if a worker's gets are all asynchronous or none (`Unmixing`; with
`Modes <- Mixed` it is false): `EverybodyGetsItsOwn` (`OwnAnswer`) and `GetTyped`. Two quite different reasons
make it so, and `GetInv` has both. `AsyncInv`: whatever is on the stream, received or stored carries the name of
the get whose item it is, and no item is taken for a get twice (`CallInv`). `BlockingInv`: one call at a time is `Pending`,
and its question or answer is the only thing on its way.

`AsyncActorProofs` proves for any numbers of ranks and streams and all configurations: `Typed`, `Freshness` (`TrainsFresh`),
`OnPolicy` (`OnPolicyShare`) and `NeverWorse` (`StoreImproves`). `Invariance` is what they rest on, `IInv` (types and
`StoreInv`), and with it `VersionInv`: the ranks are at the runner's step and the streams at most one behind, only while
the weights are on their way; nothing in the channel, a hand, a queue or a store is of a version the actor has not
reached; and what a store keeps from one global step to the next was fresh in the last. `StoreInv` says that a store is sorted and within
its size, and that what left the wait is still `Chosen` when the ranks pass the barrier and train: full, fresh, with its
share. A rank that is early waits there for the others, and in that time neither its store nor its version may move;
what its thread receives meanwhile stays in the queue. The thread's own judgement of staleness is not used at all: it
is the drain that makes the batch fresh, because `remove_below` cuts a sorted store in one place. So the work is in the
lemmas about the store: an insertion keeps it sorted, a drain of any queue keeps it within its size and, place by place,
no worse (`Better`, `Received`, by induction over the queue), and the share of on-policy cells is that of the batch
though `topn` turns the order round.

`EnvRolloutProofs` proves for every set of layouts (any numbers of env and rollout ranks that divide the slots), any number
of stages, chunks, epochs and steps: `WellTyped`, `AnswersMatch` (`ResultsMatchObs`), `PoliciesInOrder` (`PolicyInOrder`),
`HeldBack` (`OneBatchPerStage`) and `HandedOverClean` (`CleanHandover`). The only assumption is that the slots divide evenly,
which `CommMapper` asserts. The proof has two halves.

1. *The rank maps.* `DstRanksAre` and `SrcRanksAre`: what `get_dst_ranks` and `get_src_ranks` compute, by loops,
   is which intervals of slots meet and in how many. `PeerParting`: the slots of a rank are cut among its peers
   without gap or overlap. Hence `SplitIs` (a split sends every peer its part) and `ObsMerged`, `ResMerged` (parts merged in
   the order of the sources are the whole again), though the sender and the receiver cut at different places.
2. *The line between two workers* (`Inv` in module `EnvRolloutInv`). No property speaks of a single message, but what
   makes them true does: for two workers that share slots, the answers the env worker has not used, in its
   hands or in the queue, and then the observations the rollout worker has not answered are consecutive batches, from the env
   worker's position to what it has sent (`Linked`), and the rollout worker stands where the answers end (`IsAt`). What
   an env worker has sent is a function of where it is (`SentOf`): a batch per stage ahead, less at the
   end of an epoch or, with `auto_reset`, of a call; and between two calls only the bootstrap if it was prefetched
   (`PrefetchIs`). An early `stop` does not disturb the line, it only stops moving.

`VInv` adds the versions: along the line, and before it in the results of the current call, they do not go down,
and the weights of the rollout worker are at least as new. That needs the first half: that a slot's rows always come from
the same rollout worker (`IsRowOf`).

`CollectiveProofs` proves for any scene, hence any number of workers, accelerators, models and calls, that `IInv` holds
(`IInvHolds`), and from it `HandlesLiveHolds` (`HandlesLive`, if the scene is `Ordered`) and `NoSharedAcceleratorHolds`
(`NoSharedAccelerator`, if it is `Placed`). Both hypotheses are about what the callers do, the code
checks neither, and all scenes of the run `collective` satisfy them.

- `Ordered`: two calls that may run at once, because the first is asynchronous and they are on different work queues, are not
  broadcasts, and not the two directions of a pair that may share a device, in which both use one process
  group. For broadcasts it is needed (section 3). For the two directions the proof needs it: `BothWays` does not violate
  `HandlesLive`, only `Delivered`.
- `Placed`: a worker is on one of its accelerators, if it has any, and is of another model than these if it has none; who
  receives in place from a worker it may share a device with does so on its current device; and of
  the receivers of a broadcast that are apart from the source, two are on one device only if neither has another,
  which is what `_group_ranks_by_device` can see. Without the last it is false (section 3).

What makes it hard is that a call is a list of operations that grows as the receiver learns what is being sent, and that
messages are matched by their order alone. `IInv` says:

1. *Plans* (`TodoInv`): whatever a call has left to do is made of operations it may do (`MayPost`, `MayTake`: to whom, in which
   lane, with which words), and handles are followed by a wait, the zero and a wait (`Guarded`). Every operator that
   builds a part of a call, from `SendList` to the ring and the hybrid broadcast, is shown to build a plan, whatever the
   tensors; a concatenation of plans is a plan. This is half of the module.
2. *Threads* (`ThreadInv`, `MainInv`, `ResultInv`): a thread runs its own calls in order, a synchronous call runs only when
   its queue is empty, and a call with a result is over. So of the calls that can post to a pair, or take
   from it, one is under way at a time, if the scene is `Ordered`.
3. *Sharing* (`SharingInv`, `CopyInv`): handles that the reader has not passed have a sender that stands before its zero, or
   waits for it; and a copy under way is of the handles that were taken last. When a message is taken, by
   a call that may take it, it was posted by one that may post it (`WireInv`). `HandlesLive` follows.
4. *Devices* (`UsedInv`): an operation on the CCL uses a device that fits its worker's role (`Fits`): the source of a pair
   sends what is not on the receiver's device, the receiver takes it to its own; a member of a collective
   is the source, apart from all others, or the only one on its device. Two workers that fit are on different
   devices. The work is in `_group_ranks_by_device`: the first of each group of one device, and those that stand alone.

For the proof `Collective` filters sequences with `Keep`, a recursive function over a set, and
`IInv` was checked with TLC over all scenes, `BothWays` and `InPlace` included.

Induction over data. The provers cannot instantiate a theorem that takes an operator, but induction can be said with
a set: `LeastNumber` (from the library's well-foundedness of `<`), `Induction` and `Recursion`, at the top of the modules that
use them. What remains out of reach is an operator declared `RECURSIVE`, and no module here has one.

Model-checked only: liveness (`StepsComplete`, `EveryCallReturns`, `EveryGroupDelivered`, `AnsweredGetReturns`,
`RoundsEnd`, `StopReturns`, `TrainingEnds`, `SyncReturns`, `EverybodyReturns`), which the prover does not
reach; and one invariant, `Delivered` of `Collective`. What a call returns depends on every message of it, so that
a proof needs, besides `IInv`, that both sides of a pair, and all ranks of a broadcast, are at corresponding places of
corresponding plans; and it holds only of scenes whose calls match.

## 5. Not modelled

- *The vLLM rollout worker*: the protocol of the SGLang worker with another abort path; its
  hazard at `vllm_worker.py:425` is listed.
- *Crashes*: nothing in the scheduler restarts a worker, a failed actor ends the job. The one
  mechanism that outlives a worker, the port lock's clean-up, is planned.
- *Transport*: a process group matches operations in their order and loses nothing, which is
  torch.distributed's promise. How a group is registered and its ports are found
  (`CollectiveManager`, `PortLockManager`) is not in `Collective`, nor are two user threads of a worker
  in one pair (its work queues are), the logging of a failed broadcast (`multi_channel_pg.py:458`) and profiling.
- *Channel routing*: `ensure_key_replica`, the caches of key to replica, `LocalChannel`, `put_via_ray`.
- *In `EnvRollout`*: the reward worker's channel, what is inside a trajectory, resets of environments.
- *In `AsyncActor`*: advantages and the update. `wait_if_stale` of the asynchronous rollout worker
  (`async_huggingface_worker.py:86`) is called nowhere; the documentation says that stale-sample
  control throttles a rollout that gets ahead, and in the code nothing does: stale
  trajectories are thrown away by the actor.
- *In `WeightSync`*: the encoding of a patch and the rounding to a smaller dtype, and the actor ranks
  other than the one that sends: a parameter has changed or has not. The synchronisation of the
  reasoning runs is a bucket mode in which the runner waits.
- *Cancellation* of a waiting acquire: no caller cancels.
- *Numerical code, configuration parsing, environments, models, agents*: no protocol. They are by far the
  larger part of the source, and the share of its lines that the map names is small for that reason.

## 6. Plan

Done: the modules of section 2, in the order of that section, and the proofs of section 4.

Next, extending the model:

1. `PortLock`: port registry, clean-up thread with its two looks at the table, workers that die
   and names that come back; with it the rendezvous in `CollectiveManager`.
2. `ChannelRouting`: `ensure_key_replica` and the caches of key to replica, and
   `LocalChannel`.
3. Composition of `DeviceLock` with `RolloutMigration`'s start and offload: a rollout worker whose
   event loop blocks on the lock.
4. Composition of `WeightSync` with `AsyncActor`: the version that labels a sample and the staleness
   it is judged by.
5. Pure algorithms against reference definitions over bounded inputs: the shares of
   `_assign_sequences_sequential`, the packed placement, `get_valid_dp_sizes`.
6. The replay buffer.

Then, proving: `Delivered` of `Collective`, with a relation between the plans of the calls that meet.
