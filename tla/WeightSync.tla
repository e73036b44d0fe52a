----------------------------- MODULE WeightSync -----------------------------
(***************************************************************************)
(* Weight synchronisation from the actor to its rollout workers, while the  *)
(* rollout workers generate and, without waiting, while the actor trains.   *)
(*                                                                          *)
(*   src/rlinf/hybrid_engines/weight_syncer/bucket_syncer.py, patch_syncer.py *)
(*   src/rlinf/workers/actor/fsdp_actor_worker.py  (sync_model_to_rollout)  *)
(*   src/rlinf/workers/actor/async_fsdp_sac_policy_worker.py (run_training) *)
(*   src/rlinf/workers/rollout/hf/huggingface_worker.py                     *)
(*                                                (sync_model_from_actor)   *)
(*   src/rlinf/workers/rollout/hf/async_huggingface_worker.py               *)
(*                                                (request_actor_sync_model) *)
(*   src/rlinf/runners/async_embodied_runner.py, async_ppo_embodied_runner.py *)
(*                                                (update_rollout_weights)  *)
(*                                                                          *)
(* The sender and the receivers are coroutines of event loops: between two  *)
(* of their steps the actor may train and a rollout worker may generate.  A *)
(* broadcast ends at the sender when every receiver has posted its receive. *)
(* Each parameter is a bucket; of a parameter one sees whether it changed.  *)
(***************************************************************************)
EXTENDS Integers, Sequences, FiniteSets

CONSTANTS
  Last,      \* the parameters are 1..Last, in the order of the state dict
  Values,    \* values of a parameter after an update
  Rollouts,  \* ranks of the rollout worker, from 0
  Modes,     \* a set of Mode records
  MaxSteps   \* bound: global steps when the runner waits

\* instant and buffered: bucket mode with load_instant and without; patch with
\* patch.init_sync.enabled or without.  early: the replay buffer is ready for
\* training before the first synchronisation has ended.
Mode == [syncer : {"instant", "buffered", "patch", "patch_init"}, noWait : BOOLEAN,
         early : BOOLEAN]

ASSUME WeightSyncAssumption ==
  /\ Last \in Nat \ {0} /\ MaxSteps \in Nat /\ Modes \subseteq Mode
  /\ 0 \in Rollouts /\ 0 \in Values

VARIABLES
  mode,
  runner,    \* where the runner is, and its global step
  weights,   \* parameters of the actor
  policies,  \* history: those at every synchronisation that was waited for
  sender,    \* sync_model_to_rollout: where it is and what it sends
  snapshot,  \* the sender's snapshot, <<>> before it is made
  flush,     \* changes of the snapshot that the flush thread has to write
  call,      \* per rollout rank: a remote call is on its way to it
  requested, \* per rollout rank: _weight_sync_requested
  task,      \* per rollout rank: sync_model_from_actor
  model,     \* per rollout rank: the parameters it generates with
  version    \* per rollout rank: the version it labels its samples with

vars == <<mode, runner, weights, policies, sender, snapshot, flush, call, requested, task,
          model, version>>

Params == 1..Last
None == [p \in {} |-> 0]
IsPatch == mode.syncer \in {"patch", "patch_init"}

\* w with the parameters of d replaced.
Override(w, d) == [p \in Params |-> IF p \in DOMAIN d THEN d[p] ELSE w[p]]

NoTask == [pc |-> "none", k |-> 0, got |-> None, label |-> 0, buffer |-> None]
Quiet == [pc |-> "idle", kind |-> "bucket", k |-> 0, data |-> None]

\* The modules a rollout builds for itself (value -1) come with the first
\* synchronisation, but for the patch mode without init, which relies on the
\* same checkpoint on both sides.
Init ==
  /\ mode \in Modes
  /\ runner = [pc |-> "sync", step |-> 0]
  /\ weights = [p \in Params |-> 0] /\ policies = <<>>
  /\ sender = Quiet
  /\ snapshot = <<>> /\ flush = None
  /\ call = [r \in Rollouts |-> FALSE] /\ requested = [r \in Rollouts |-> FALSE]
  /\ task = [r \in Rollouts |-> NoTask]
  /\ model = [r \in Rollouts |-> [p \in Params |-> IF mode.syncer = "patch" THEN 0 ELSE -1]]
  /\ version = [r \in Rollouts |-> -1]

-----------------------------------------------------------------------------
(* The sender: sync_model_to_rollout *)

\* A bucket is filled from the live parameters when its turn comes.
Bucket(kind, k) == [pc |-> "send", kind |-> kind, k |-> k, data |-> [p \in {k} |-> weights[k]]]

\* _wait_pending_snapshot_flush
Flushed == flush = None

Changed(old) == {p \in Params : weights[p] # old[p]}

\* create_patch: what changed since old; the thread writes it to the snapshot.
SendPatch(old) ==
  LET patch == [p \in Changed(old) |-> weights[p]]
  IN /\ sender' = [pc |-> "send", kind |-> "patch", k |-> 0, data |-> patch]
     /\ flush' = patch

\* init_sender ends with the snapshot, and sync begins without a pause.
SnapshotAndSync ==
  /\ snapshot' = weights
  /\ SendPatch(weights)

SenderStart ==
  /\ sender.pc = "called"
  /\ CASE ~IsPatch -> sender' = Bucket("bucket", 1) /\ UNCHANGED <<snapshot, flush>>
       [] IsPatch /\ snapshot = <<>> ->
            sender' = [sender EXCEPT !.pc = "meta"] /\ UNCHANGED <<snapshot, flush>>
       [] OTHER -> Flushed /\ SendPatch(snapshot) /\ UNCHANGED snapshot
  /\ UNCHANGED <<mode, runner, weights, policies, call, requested, task, model, version>>

\* The metadata of rollout rank 0 arrive.
Metadata ==
  /\ sender.pc = "meta" /\ task[0].pc = "meta"
  /\ task' = [task EXCEPT ![0].pc = "recv"]
  /\ IF mode.syncer = "patch_init"
     THEN sender' = Bucket("init", 1) /\ UNCHANGED <<snapshot, flush>>
     ELSE SnapshotAndSync
  /\ UNCHANGED <<mode, runner, weights, policies, call, requested, model, version>>

\* A broadcast: every receiver has posted its receive.
Broadcast ==
  /\ sender.pc = "send" /\ \A r \in Rollouts : task[r].pc = "recv"
  /\ sender' = [sender EXCEPT !.pc = "sent"]
  /\ task' = [r \in Rollouts |->
                [task[r] EXCEPT !.pc = "load", !.got = sender.data, !.label = runner.step]]
  /\ UNCHANGED <<mode, runner, weights, policies, snapshot, flush, call, requested, model, version>>

SenderResume ==
  /\ sender.pc = "sent"
  /\ CASE sender.kind # "patch" /\ sender.k < Last ->
            sender' = Bucket(sender.kind, sender.k + 1) /\ UNCHANGED <<snapshot, flush>>
       [] sender.kind = "init" /\ sender.k = Last -> SnapshotAndSync
       [] OTHER -> sender' = Quiet /\ UNCHANGED <<snapshot, flush>>
  /\ UNCHANGED <<mode, runner, weights, policies, call, requested, task, model, version>>

\* Mutant: the thread writes what the parameters are by then.
FlushLate ==
  /\ flush # None
  /\ snapshot' = Override(snapshot, [p \in DOMAIN flush |-> weights[p]]) /\ flush' = None
  /\ UNCHANGED <<mode, runner, weights, policies, sender, call, requested, task, model, version>>

\* The flush thread.
Flush ==
  /\ flush # None
  /\ snapshot' = Override(snapshot, flush) /\ flush' = None
  /\ UNCHANGED <<mode, runner, weights, policies, sender, call, requested, task, model, version>>

-----------------------------------------------------------------------------
(* A receiver: sync_model_from_actor *)

\* Mutant: the receiver does not count on the init bootstrap.
BeginWithoutInit(r) ==
  [NoTask EXCEPT !.pc = IF IsPatch /\ version[r] = -1 /\ r = 0 THEN "meta" ELSE "recv"]

\* Rank 0 sends its metadata before the first patch; k = 0 is the patch or,
\* in bucket mode, counts the buckets loaded.
Begin(r) ==
  LET first == IsPatch /\ version[r] = -1
  IN [NoTask EXCEPT !.pc = IF first /\ r = 0 THEN "meta" ELSE "recv",
                    !.k = IF first /\ mode.syncer = "patch_init" THEN -Last ELSE 0]

\* Mutant: the buffer is loaded with every bucket.
LoadsAlways(r) == TRUE

\* The model changes with this message: an instant bucket, a bucket of the
\* init bootstrap, a patch, or the last of the buffered buckets.
Loads(r) == mode.syncer # "buffered" \/ task[r].k + 1 = Last

\* apply: one message is loaded.  With the last one version is set.
Load(r) ==
  LET t == task[r]
      data == IF mode.syncer = "buffered"
              THEN [p \in DOMAIN t.buffer \cup DOMAIN t.got |->
                      IF p \in DOMAIN t.got THEN t.got[p] ELSE t.buffer[p]]
              ELSE t.got
      ends == IF IsPatch THEN t.k = 0 ELSE t.k + 1 = Last
  IN /\ t.pc = "load"
     /\ model' = IF Loads(r) THEN [model EXCEPT ![r] = Override(@, data)] ELSE model
     /\ IF ends
        THEN /\ task' = [task EXCEPT ![r] = [NoTask EXCEPT !.pc = "done"]]
             /\ version' = [version EXCEPT ![r] = t.label]
        ELSE /\ task' = [task EXCEPT ![r] =
                  [t EXCEPT !.pc = "recv", !.k = t.k + 1, !.got = None,
                            !.buffer = IF mode.syncer = "buffered" THEN data ELSE None]]
             /\ UNCHANGED version
     /\ UNCHANGED <<mode, runner, weights, policies, sender, snapshot, flush, call, requested>>

\* The remote call arrives: sync_model_from_actor, or request_actor_sync_model,
\* which starts the task if the last one has been cleared away.
Serve(r) ==
  /\ call[r] /\ call' = [call EXCEPT ![r] = FALSE]
  /\ IF task[r].pc = "none"
     THEN task' = [task EXCEPT ![r] = Begin(r)] /\ UNCHANGED requested
     ELSE mode.noWait /\ requested' = [requested EXCEPT ![r] = TRUE] /\ UNCHANGED task
  /\ UNCHANGED <<mode, runner, weights, policies, sender, snapshot, flush, model, version>>

\* Mutant: a request that waits is forgotten with the task.
PollForgets(r) ==
  /\ mode.noWait /\ task[r].pc = "done"
  /\ task' = [task EXCEPT ![r] = NoTask] /\ requested' = [requested EXCEPT ![r] = FALSE]
  /\ UNCHANGED <<mode, runner, weights, policies, sender, snapshot, flush, call, model, version>>

\* _poll_background_weight_sync, once per round of _generate: the task that is
\* done is cleared away, and the next one starts if it is requested.
Poll(r) ==
  /\ mode.noWait /\ task[r].pc = "done"
  /\ task' = [task EXCEPT ![r] = IF requested[r] THEN Begin(r) ELSE NoTask]
  /\ requested' = [requested EXCEPT ![r] = FALSE]
  /\ UNCHANGED <<mode, runner, weights, policies, sender, snapshot, flush, call, model, version>>

-----------------------------------------------------------------------------
(* The runner and the training *)

\* The rollouts are called, then the actor.
Synchronise ==
  /\ call' = [r \in Rollouts |-> TRUE]
  /\ sender' = [Quiet EXCEPT !.pc = "called"]

Handled == sender.pc = "idle" /\ \A r \in Rollouts : ~call[r]

\* update_rollout_weights, waiting: the call, and its return.
UpdateWeights ==
  /\ ~mode.noWait /\ runner.pc = "sync"
  /\ Synchronise
  /\ runner' = [runner EXCEPT !.pc = "syncing"]
  /\ policies' = Append(policies, weights)
  /\ UNCHANGED <<mode, weights, snapshot, flush, requested, task, model, version>>

UpdateReturns ==
  /\ runner.pc = "syncing" /\ Handled /\ \A r \in Rollouts : task[r].pc = "done"
  /\ task' = [r \in Rollouts |-> NoTask]
  /\ runner' = [runner EXCEPT !.pc = "train"]
  /\ UNCHANGED <<mode, weights, policies, sender, snapshot, flush, call, requested, model, version>>

\* run_training while the rollouts generate, and set_global_step.
Train ==
  /\ ~mode.noWait /\ runner.pc = "train" /\ runner.step < MaxSteps
  /\ weights' \in [Params -> Values]
  /\ runner' = [pc |-> "sync", step |-> runner.step + 1]
  /\ UNCHANGED <<mode, policies, sender, snapshot, flush, call, requested, task, model, version>>

\* update_rollout_weights(no_wait): nothing if the last one is not over.
RequestWeights ==
  /\ mode.noWait /\ runner.pc = "sync"
  /\ IF Handled THEN Synchronise ELSE UNCHANGED <<call, sender>>
  /\ runner' = [runner EXCEPT !.pc = "train"]
  /\ UNCHANGED <<mode, weights, policies, snapshot, flush, requested, task, model, version>>

ReplayBufferReady == mode.early \/ \A r \in Rollouts : version[r] >= 0

\* An update epoch of run_training; before each the event loop has its turn.
\* This runner does not call set_global_step.
UpdateEpoch ==
  /\ mode.noWait /\ runner.pc = "train" /\ ReplayBufferReady
  /\ weights' \in [Params -> Values]
  /\ UNCHANGED <<mode, runner, policies, sender, snapshot, flush, call, requested, task, model, version>>

TrainingReturns ==
  /\ mode.noWait /\ runner.pc = "train" /\ ReplayBufferReady
  /\ runner' = [runner EXCEPT !.pc = "sync"]
  /\ UNCHANGED <<mode, weights, policies, sender, snapshot, flush, call, requested, task, model, version>>

Sender == SenderStart \/ Metadata \/ Broadcast \/ SenderResume

Next ==
  \/ Sender \/ Flush
  \/ \E r \in Rollouts : Load(r) \/ Serve(r) \/ Poll(r)
  \/ UpdateWeights \/ UpdateReturns \/ Train
  \/ RequestWeights \/ UpdateEpoch \/ TrainingReturns

\* The event loops run their coroutines, the thread flushes, and the rollout
\* comes to the top of _generate after each round (module EnvRollout).
Fairness ==
  /\ WF_vars(Sender) /\ WF_vars(Flush)
  /\ \A r \in Rollouts : WF_vars(Load(r)) /\ WF_vars(Serve(r)) /\ WF_vars(Poll(r))
  /\ WF_vars(UpdateWeights) /\ WF_vars(UpdateReturns)

Spec == Init /\ [][Next]_vars /\ Fairness

-----------------------------------------------------------------------------
(* Properties *)

AtRest == Handled /\ \A r \in Rollouts : task[r].pc \in {"none", "done"} /\ ~requested[r]

\* Between two synchronisations all rollouts have the same model.  In patch mode
\* it is the sender's snapshot, against which the next patch is made; when the
\* runner has waited it is the actor's, under the version of the actor.
AlignedAtRest ==
  AtRest /\ (\A r \in Rollouts : version[r] >= 0) =>
    \A r \in Rollouts :
      /\ model[r] = model[0]
      /\ IsPatch => model[r] = Override(snapshot, flush)
      /\ runner.pc = "train" /\ ~mode.noWait => model[r] = weights /\ version[r] = runner.step

\* At every moment a rollout worker generates with exactly the policy its
\* samples are labelled with, also in the middle of a synchronisation.
LabelledPolicy ==
  ~mode.noWait => \A r \in Rollouts : version[r] >= 0 => model[r] = policies[version[r] + 1]

\* A receiver waits for the kind and the number of the message that is sent.
InStep ==
  sender.pc = "send" => \A r \in Rollouts : task[r].pc = "recv" =>
    CASE sender.kind = "patch"  -> task[r].k = 0
      [] sender.kind = "init"   -> task[r].k = sender.k - Last - 1
      [] sender.kind = "bucket" -> task[r].k = sender.k - 1

\* A synchronisation that the actor has begun ends: every rollout takes part in
\* it, though requests meet tasks that have ended and are not cleared away.
SyncReturns == (sender.pc # "idle") ~> (sender.pc = "idle")
=============================================================================
