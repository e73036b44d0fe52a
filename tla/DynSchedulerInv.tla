-------------------------- MODULE DynSchedulerInv ---------------------------
(***************************************************************************)
(* The inductive invariant behind the safety of DynScheduler.  The managers *)
(* never look at a GPU: exclusivity follows from the ledger's arithmetic,   *)
(* from the lockstep of scheduler and trainer, and from the fact that a     *)
(* worker's GPUs are released in the ledger only after it reported that it  *)
(* is off them.                                                             *)
(***************************************************************************)
EXTENDS DynScheduler

\* Inference GPUs may be given away only when nothing is left to do for the
\* rollout: with the wait policy, or without an inference component.  The
\* workers and the scheduler must read the same use_pre_process_policy.
Policies == SchedUsePre = WorkerUsePre /\ (UseWait \/ InferenceDp = 0)

\* A manager's GPU count is its instance count; the rollout instances are
\* the alive ones, from the offset on, and the released ones below it.
LedgerShape ==
  /\ \A c \in Components : mgr[c].gpu = mgr[c].inst * MP[c]
  /\ mgr["rollout"].offset \in Nat
  /\ mgr["rollout"].inst + mgr["rollout"].offset = InitInst["rollout"]
  /\ mgr["actor"].inst >= ActorDp
  /\ iter = -1 => mgr["actor"].inst = ActorDp
  /\ mgr["inference"].inst \in {0, InferenceDp}

PreProcessing == {"begin", "preReport", "preGather", "preOthers"}
Turn == {"rollout", "gather", "inference", "actor"}

PhaseInv ==
  /\ pc \in PreProcessing => iter = -1
  /\ pc \in Turn \cup {"waitActor", "done"} => iter >= 0
  /\ pc = "done" => LastIter /\ mgr["actor"].inst = ActorDp
  /\ pc = "gather" => ~LastIter
  /\ pc \in {"preReport", "preGather"} => SchedUsePre /\ mgr["rollout"].offset = 0
  /\ pc = "preOthers" =>
       mgr["rollout"].offset = IF SchedUsePre THEN BorrowedDp ELSE 0

FinishInv ==
  pc = "finish" =>
    /\ finishing <= mgr["rollout"].inst
    /\ iter = -1 => /\ SchedUsePre
                    /\ finishing = BorrowedDp /\ mgr["rollout"].offset = 0
    /\ (iter >= 0 /\ UseWait /\ BeforeLastIter) => finishing = mgr["rollout"].inst

\* Only instances that are alive in the ledger occupy GPUs.
HeldInv ==
  pc # "begin" => held \subseteq mgr["rollout"].offset .. InitInst["rollout"] - 1

SeenInv ==
  /\ pc \in Turn \cup {"waitActor"} => seen["rollout"] = mgr["rollout"].inst
  /\ (pc = "inference" /\ UseWait /\ BeforeLastIter) => mgr["rollout"].inst = 0

\* The inference worker is released last, and off its GPUs by then.
InferenceInv ==
  /\ InferenceDp = 0 => ~infHeld
  /\ iter >= 0 => \/ mgr["inference"].inst = InferenceDp
                  \/ /\ mgr["inference"].inst = 0
                     /\ mgr["rollout"].inst = 0
                     /\ ~infHeld

\* What the trainer will be on once it has read a message.
NewWorld(m) == IF m = None THEN actorWorld ELSE m

Idle == actorReq = <<>> /\ actorResp = 0

\* Scheduler and trainer alternate, one message in flight at most.
Lockstep ==
  /\ iter = -1 =>
       /\ actorReq = <<>> /\ actorIter = 0 /\ actorWorld = ActorGpus
       /\ WorkerUsePre => apc = "pre" /\ ~actorLoaded /\ actorResp = 0
       /\ ~WorkerUsePre => \/ apc = "train" /\ actorResp = 0
                           \/ apc = "sync" /\ actorResp = 1
  /\ (iter >= 0 /\ pc \notin {"waitActor", "done"}) =>
       Idle /\ apc = "sync" /\ actorIter = iter /\ actorWorld = mgr["actor"].gpu
  /\ pc = "waitActor" =>
       \/ /\ apc = "pre" /\ iter = 0 /\ actorIter = 0
          /\ actorReq = <<None>> /\ actorResp = 0
          /\ actorWorld = mgr["actor"].gpu
       \/ /\ apc = "sync" /\ iter >= 1 /\ actorIter = iter - 1
          /\ \E m \in {None, mgr["actor"].gpu} : actorReq = <<m>> /\ NewWorld(m) = mgr["actor"].gpu
          /\ actorResp = 0
       \/ /\ apc = "train" /\ actorIter = iter /\ Idle
          /\ actorWorld = mgr["actor"].gpu
       \/ /\ apc = "sync" /\ actorIter = iter
          /\ actorReq = <<>> /\ actorResp = 1
          /\ actorWorld = mgr["actor"].gpu
  /\ pc = "done" =>
       \/ /\ apc = "sync" /\ actorIter = iter /\ actorResp = 0
          /\ \E m \in {None, mgr["actor"].gpu} : actorReq = <<m>> /\ NewWorld(m) = mgr["actor"].gpu
       \/ /\ apc = "done" /\ Idle /\ actorWorld = mgr["actor"].gpu

\* The GPUs from 0 on that rollout and inference have given up.
Reach == RolloutBase + mgr["rollout"].offset * RolloutMP
           + (InferenceDp - mgr["inference"].inst) * InferenceMP

\* The trainer is within that prefix, and what is missing is available.
ReachInv ==
  /\ iter >= 0 => mgr["actor"].gpu <= Reach /\ actorWorld <= Reach
  /\ InMainLoop => available + mgr["actor"].gpu = Reach

IInv ==
  /\ TypeOK /\ LedgerShape /\ PhaseInv /\ FinishInv /\ HeldInv /\ SeenInv
  /\ InferenceInv /\ Lockstep /\ ReachInv

-----------------------------------------------------------------------------
(* How a global step ends.  The invariant EInv stands on IInv.              *)

\* No assertion has failed, because the actor is at a valid size.
SizeInv ==
  /\ pc # "failed"
  /\ mgr["actor"].inst \in ValidDpSizes /\ seen["actor"] = mgr["actor"].inst

\* In the last iteration rollout and inference leave their GPUs.
LeaveInv ==
  LastIter =>
    /\ pc = "finish" => finishing = mgr["rollout"].inst
    /\ pc \in {"inference", "actor", "done"} => mgr["rollout"].inst = 0
    /\ pc \in {"actor", "done"} => ~infHeld

\* With the wait policy they have left in the iteration before, and the
\* trainer takes everything.
WaitInv ==
  UseWait =>
    /\ (BeforeLastIter /\ pc = "actor") => mgr["rollout"].inst = 0 /\ mgr["inference"].inst = 0
    /\ (NMinibatches > 1 /\ LastIter /\ pc # "done") => mgr["actor"].gpu = TotalGpus

LoadedInv == actorLoaded <=> apc # "pre"

EInv == SizeInv /\ LeaveInv /\ WaitInv /\ LoadedInv
=============================================================================
