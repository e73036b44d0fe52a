------------------------- MODULE DynSchedulerProofs -------------------------
(***************************************************************************)
(* IInv (DynSchedulerInv) is an inductive invariant of DynScheduler under   *)
(* Policies, for all sizes of the components, all valid data-parallel sizes *)
(* and all numbers of minibatches and sequences; the safety properties      *)
(* follow from it.  One lemma per action; WorkerFrame, TrainerFrame,        *)
(* SchedulerFrame, FinishFrame, RolloutKeeps, InferenceKeeps and            *)
(* ActorResized collect what several actions have in common.                *)
(***************************************************************************)
EXTENDS DynSchedulerInv, TLAPS

(* Arithmetic of products: the solver needs it one fact at a time. *)

\* Products distribute over sums and differences.
LEMMA Distribute == ASSUME NEW a \in Int, NEW b \in Int, NEW c \in Int
                    PROVE  /\ (a + b) * c = a * c + b * c
                           /\ (a - b) * c = a * c - b * c
                           /\ a * c \in Int
OBVIOUS

\* Multiplying by a natural number keeps the order.
LEMMA Monotone == ASSUME NEW a \in Int, NEW b \in Int, NEW c \in Nat, a <= b
                  PROVE  a * c <= b * c
OBVIOUS

\* Products of naturals are naturals.
LEMMA ProductNat == ASSUME NEW a \in Nat, NEW b \in Nat PROVE a * b \in Nat
OBVIOUS

\* Products of positive numbers are positive.
LEMMA ProductPositive ==
  ASSUME NEW a \in Nat \ {0}, NEW b \in Nat \ {0} PROVE a * b \in Nat \ {0}
<1>1. a * b \in Nat
  BY ProductNat
<1>2. a * b # 0
  OBVIOUS
<1> QED BY <1>1, <1>2

\* The sizes that the constants determine, all at once.
LEMMA Sizes ==
  /\ InitInst["rollout"] \in Nat /\ InitInst["inference"] \in Nat
  /\ InitInst["actor"] \in Nat
  /\ InitInst["rollout"] > 0
  /\ ActorGpus \in Nat \ {0} /\ RolloutBase \in Nat /\ TotalGpus \in Nat
  /\ MP["actor"] = ActorMP /\ MP["rollout"] = RolloutMP
  /\ MP["inference"] = InferenceMP
  /\ InitInst["actor"] = ActorDp /\ InitInst["inference"] = InferenceDp
  /\ TotalGpus = RolloutBase + InitInst["rollout"] * RolloutMP
                   + InferenceDp * InferenceMP
  /\ WorkerUsePre => RolloutBase = 0
  /\ ~WorkerUsePre => RolloutBase = ActorGpus
  /\ ActorGpus = BorrowedDp * RolloutMP
  /\ WorkerUsePre => BorrowedDp < InitInst["rollout"]
<1>1. /\ MP["actor"] = ActorMP /\ MP["rollout"] = RolloutMP
      /\ MP["inference"] = InferenceMP
  BY DEF MP
<1>2. /\ InitInst["actor"] = ActorDp /\ InitInst["inference"] = InferenceDp
      /\ InitInst["rollout"] = RolloutDp + (IF WorkerUsePre THEN BorrowedDp ELSE 0)
  BY DEF InitInst
<1>3. /\ InitInst["rollout"] \in Nat /\ InitInst["inference"] \in Nat
      /\ InitInst["actor"] \in Nat /\ InitInst["rollout"] > 0
  BY <1>2, SizesAssumption
<1>4. /\ ActorDp * ActorMP \in Nat \ {0} /\ RolloutDp * RolloutMP \in Nat
      /\ InferenceDp * InferenceMP \in Nat
  <2>1. ActorDp * ActorMP \in Nat
    BY ProductNat, SizesAssumption
  <2>2. ActorDp * ActorMP # 0
    BY SizesAssumption
  <2> QED BY <2>1, <2>2, ProductNat, SizesAssumption
<1>5. ActorGpus = BorrowedDp * RolloutMP
  BY SizesAssumption
<1>6. (RolloutDp + BorrowedDp) * RolloutMP
        = RolloutDp * RolloutMP + BorrowedDp * RolloutMP
  BY Distribute, SizesAssumption
<1>7. TotalGpus = RolloutBase + InitInst["rollout"] * RolloutMP
                   + InferenceDp * InferenceMP
  <2>1. CASE WorkerUsePre
    BY <2>1, <1>2, <1>4, <1>5, <1>6, SizesAssumption DEF TotalGpus, RolloutBase, ActorGpus
  <2>2. CASE ~WorkerUsePre
    BY <2>2, <1>2, <1>4, <1>5, SizesAssumption DEF TotalGpus, RolloutBase, ActorGpus
  <2> QED BY <2>1, <2>2
<1>8. ActorGpus \in Nat \ {0} /\ RolloutBase \in Nat /\ TotalGpus \in Nat
  BY <1>4 DEF ActorGpus, RolloutBase, TotalGpus
<1>9. WorkerUsePre => BorrowedDp < InitInst["rollout"]
  BY <1>2, SizesAssumption
<1> QED BY <1>1, <1>2, <1>3, <1>5, <1>7, <1>8, <1>9 DEF RolloutBase

\* The Boolean variables that Init derives from constants.
LEMMA InitBooleans ==
  ASSUME infHeld = (InferenceDp > 0), actorLoaded = ~WorkerUsePre
  PROVE  /\ infHeld \in BOOLEAN /\ actorLoaded \in BOOLEAN
         /\ infHeld => InferenceDp > 0
         /\ WorkerUsePre => ~actorLoaded
<1>1. infHeld \in BOOLEAN
  OBVIOUS
<1>2. actorLoaded \in BOOLEAN
  OBVIOUS
<1>3. infHeld => InferenceDp > 0
  OBVIOUS
<1>4. WorkerUsePre => ~actorLoaded
  OBVIOUS
<1> QED BY <1>1, <1>2, <1>3, <1>4

(* The initial states. *)

\* The invariant holds when the first global step begins.
LEMMA InitIInv == ASSUME Policies, Init PROVE IInv
<1> USE Sizes, SizesAssumption
<1>a. /\ infHeld \in BOOLEAN /\ actorLoaded \in BOOLEAN
      /\ infHeld => InferenceDp > 0
      /\ WorkerUsePre => ~actorLoaded
  <2>1. infHeld = (InferenceDp > 0) /\ actorLoaded = ~WorkerUsePre
    BY Zenon DEF Init, HasInference
  <2> QED BY <2>1, InitBooleans, Zenon
<1>b. /\ pc = "begin" /\ iter = -1
      /\ mgr = [c \in Components |-> Fresh(c)]
      /\ seen = InitInst
      /\ available = 0 /\ finishing = 0
      /\ high = 0 /\ complete = FALSE
      /\ started = FALSE
      /\ gen = TotalTasks /\ left = TotalTasks /\ held = Instances
      /\ infLeft = TotalTasks
      /\ apc = FirstTrainerStep /\ actorIter = 0
      /\ actorWorld = ActorGpus
      /\ actorReq = <<>> /\ actorResp = 0
  BY Zenon DEF Init
<1>1. TypeOK
  <2>1. mgr \in [Components -> [inst : Nat, gpu : Nat, offset : Int]]
    <3>1. \A c \in Components : InitInst[c] \in Nat /\ InitInst[c] * MP[c] \in Nat
      BY ProductNat DEF Components
    <3> QED BY <3>1, <1>b DEF Fresh
  <2>2. seen \in [Components -> Nat]
    BY <1>b, SizesAssumption DEF Components, InitInst
  <2>3. /\ high \in 0 .. TotalTasks /\ complete \in BOOLEAN
        /\ finishing \in 0 .. InitInst["rollout"] /\ started \in BOOLEAN
        /\ gen \in 0 .. TotalTasks /\ left \in gen .. TotalTasks
        /\ held \subseteq Instances /\ infLeft \in 0 .. TotalTasks
    <3>1. high \in 0 .. TotalTasks BY <1>b
    <3>2. complete \in BOOLEAN BY <1>b
    <3>3. finishing \in 0 .. InitInst["rollout"] BY <1>b
    <3>4. started \in BOOLEAN BY <1>b
    <3>5. gen \in 0 .. TotalTasks BY <1>b
    <3>6. left \in gen .. TotalTasks BY <1>b
    <3>7. held \subseteq Instances BY <1>b
    <3>8. infLeft \in 0 .. TotalTasks BY <1>b
    <3> QED BY <3>1, <3>2, <3>3, <3>4, <3>5, <3>6, <3>7, <3>8
  <2>4. /\ apc \in {"pre", "train", "sync", "done"}
        /\ actorIter \in 0 .. NMinibatches /\ actorWorld \in Nat
        /\ actorReq \in Seq(Nat) /\ actorResp \in Nat
        /\ iter \in -1 .. NMinibatches - 1 /\ available \in Nat
    BY <1>b DEF FirstTrainerStep
  <2> QED BY <2>1, <2>2, <2>3, <2>4, <1>a, <1>b DEF TypeOK
<1>2. LedgerShape
  <2>1. \A c \in Components : /\ mgr[c].gpu = mgr[c].inst * MP[c]
                              /\ mgr[c].inst = InitInst[c] /\ mgr[c].offset = 0
    BY <1>b DEF Fresh
  <2> QED BY <2>1, <1>b, SMTT(30) DEF LedgerShape, Components
<1>3. PhaseInv /\ FinishInv /\ HeldInv /\ SeenInv
  BY <1>b DEF PhaseInv, FinishInv, HeldInv, SeenInv, Turn
<1>4. InferenceInv
  BY <1>a, <1>b DEF InferenceInv
<1>5. Lockstep
  BY <1>a, <1>b DEF Lockstep, FirstTrainerStep
<1>6. ReachInv
  BY <1>b DEF ReachInv, InMainLoop
<1> QED BY <1>1, <1>2, <1>3, <1>4, <1>5, <1>6 DEF IInv

\* The workers that only move towards the end of their work.
LEMMA WorkerFrame ==
  ASSUME IInv, TypeOK',
         UNCHANGED <<sched, trainer, actorReq, actorResp>>,
         held' \subseteq held, infHeld' => infHeld
  PROVE  IInv'
<1> USE DEF sched, ledger, report, trainer, IInv
<1>1. LedgerShape' /\ PhaseInv' /\ FinishInv' /\ SeenInv'
  BY DEF LedgerShape, PhaseInv, FinishInv, SeenInv, LastIter, BeforeLastIter
<1>2. HeldInv'
  BY DEF HeldInv
<1>3. InferenceInv'
  BY DEF InferenceInv
<1>4. Lockstep'
  BY DEF Lockstep, Idle, NewWorld
<1>5. ReachInv'
  BY DEF ReachInv, Reach, InMainLoop, LastIter
<1> QED BY <1>1, <1>2, <1>3, <1>4, <1>5

\* Every step of a rollout instance or of the inference worker keeps it.
LEMMA WorkerStep ==
  ASSUME IInv, RolloutWorkers \/ InferenceWorker \/ \E i \in Instances : Offload(i)
  PROVE  IInv'
<1> USE SizesAssumption DEF IInv, TypeOK, sched, ledger, report, rollout, inference, trainer
<1>1. CASE AllStarted
  <2> USE <1>1 DEF AllStarted
  <2>1. TypeOK' /\ held' \subseteq held /\ (infHeld' => infHeld)
    OBVIOUS
  <2> QED BY <2>1, WorkerFrame
<1>2. CASE SequenceDone
  <2> USE <1>2 DEF SequenceDone
  <2>1. TypeOK' /\ held' \subseteq held /\ (infHeld' => infHeld)
    OBVIOUS
  <2> QED BY <2>1, WorkerFrame
<1>3. CASE Deliver
  <2> USE <1>3 DEF Deliver
  <2>1. TypeOK' /\ held' \subseteq held /\ (infHeld' => infHeld)
    OBVIOUS
  <2> QED BY <2>1, WorkerFrame
<1>4. ASSUME NEW i \in Instances, Offload(i) PROVE IInv'
  <2> USE <1>4 DEF Offload
  <2>1. TypeOK' /\ held' \subseteq held /\ (infHeld' => infHeld)
    OBVIOUS
  <2> QED BY <2>1, WorkerFrame
<1>5. CASE Infer
  <2> USE <1>5 DEF Infer
  <2>1. TypeOK' /\ held' \subseteq held /\ (infHeld' => infHeld)
    OBVIOUS
  <2> QED BY <2>1, WorkerFrame
<1>6. CASE InferenceOffload
  <2> USE <1>6 DEF InferenceOffload
  <2>1. TypeOK' /\ held' \subseteq held /\ (infHeld' => infHeld)
    OBVIOUS
  <2> QED BY <2>1, WorkerFrame
<1> QED BY <1>1, <1>2, <1>3, <1>4, <1>5, <1>6 DEF RolloutWorkers, InferenceWorker

\* The trainer: it consumes and produces the messages of the lockstep.
LEMMA TrainerFrame ==
  ASSUME IInv, TypeOK', Lockstep', ReachInv',
         UNCHANGED <<sched, rollout, inference>>
  PROVE  IInv'
<1> USE DEF sched, ledger, report, rollout, inference, IInv
<1>1. LedgerShape' /\ PhaseInv' /\ FinishInv' /\ SeenInv'
  BY DEF LedgerShape, PhaseInv, FinishInv, SeenInv, LastIter, BeforeLastIter
<1>2. HeldInv' /\ InferenceInv'
  BY DEF HeldInv, InferenceInv
<1> QED BY <1>1, <1>2

\* Reading a scale message makes the trainer's world the ledger's.
LEMMA TrainerStep == ASSUME IInv, Trainer PROVE IInv'
<1> USE SizesAssumption DEF IInv
<1>1. CASE ActorPreProcess
  <2> USE <1>1 DEF ActorPreProcess, Pop
  <2>1. /\ UNCHANGED <<sched, rollout, inference, actorIter, actorWorld, actorResp>>
        /\ apc = "pre" /\ apc' = "train" /\ actorLoaded' = TRUE
        /\ actorReq # <<>> /\ actorReq' = Tail(actorReq)
    OBVIOUS
  <2>2. /\ pc = "waitActor" /\ iter = 0 /\ actorIter = 0 /\ actorResp = 0
        /\ actorReq = <<None>> /\ actorWorld = mgr["actor"].gpu
    BY <2>1 DEF Lockstep, TypeOK, Idle
  <2>3. actorReq' = <<>>
    BY <2>1, <2>2
  <2> HIDE <1>1 DEF ActorPreProcess
  <2>4. TypeOK'
    BY <2>1, <2>3 DEF TypeOK, sched, ledger, report, rollout, inference
  <2>5. Lockstep'
    BY <2>1, <2>2, <2>3 DEF Lockstep, Idle, sched, ledger
  <2>6. ReachInv'
    BY <2>1 DEF ReachInv, Reach, InMainLoop, LastIter, sched, ledger
  <2> QED BY <2>1, <2>4, <2>5, <2>6, TrainerFrame
<1>2. CASE TrainStep
  <2>1. /\ UNCHANGED <<sched, rollout, inference, actorIter, actorWorld,
                       actorLoaded, actorReq>>
        /\ apc = "train" /\ apc' = "sync" /\ actorResp' = actorResp + 1
    BY <1>2 DEF TrainStep
  <2>2. TypeOK'
    BY <2>1 DEF TypeOK, sched, ledger, report, rollout, inference
  <2>3. Lockstep'
    BY <2>1 DEF TypeOK, Lockstep, Idle, sched, ledger
  <2>4. ReachInv'
    BY <2>1 DEF ReachInv, Reach, InMainLoop, LastIter, sched, ledger
  <2> QED BY <2>1, <2>2, <2>3, <2>4, TrainerFrame
<1>3. CASE ScaleSync
  <2>1. /\ UNCHANGED <<sched, rollout, inference, actorLoaded, actorResp>>
        /\ apc = "sync" /\ actorReq # <<>>
        /\ actorWorld' = NewWorld(Head(actorReq)) /\ actorReq' = Tail(actorReq)
        /\ actorIter' = actorIter + 1
        /\ apc' = IF actorIter + 1 = NMinibatches THEN "done" ELSE "train"
    BY <1>3 DEF ScaleSync, Pop, NewWorld
  <2>2. /\ pc \in {"waitActor", "done"} /\ iter >= 0 /\ actorResp = 0
        /\ pc = "waitActor" => actorIter + 1 = iter
        /\ pc = "done" => actorIter = iter
    BY <2>1 DEF Lockstep, TypeOK, Idle, PhaseInv
  <2>3. PICK m \in {None, mgr["actor"].gpu} :
          actorReq = <<m>> /\ NewWorld(m) = mgr["actor"].gpu
    BY <2>1, <2>2 DEF Lockstep, TypeOK, Idle
  <2>4. actorReq' = <<>> /\ actorWorld' = mgr["actor"].gpu
    BY <2>1, <2>3
  <2>5. TypeOK'
    BY <2>1, <2>2, <2>4, SMTT(30)
       DEF TypeOK, sched, ledger, report, rollout, inference, Components
  <2>6. Lockstep'
    BY <2>1, <2>2, <2>4 DEF Lockstep, Idle, sched, ledger, TypeOK, PhaseInv, LastIter
  <2>7. ReachInv'
    BY <2>1, <2>2, <2>4 DEF ReachInv, Reach, InMainLoop, LastIter, sched, ledger
  <2> QED BY <2>1, <2>5, <2>6, <2>7, TrainerFrame
<1> QED BY <1>1, <1>2, <1>3 DEF Trainer

\* The managers: their steps leave the workers alone.
LEMMA Begin == ASSUME IInv, RolloutPreProcess PROVE IInv'
<1> USE Sizes, SizesAssumption DEF IInv
<1>1. /\ pc = "begin" /\ pc' = IF SchedUsePre THEN "preReport" ELSE "preOthers"
      /\ mgr' = [mgr EXCEPT !["rollout"] = Fresh("rollout")]
      /\ UNCHANGED <<iter, seen, available, report, finishing,
                     rollout, inference, trainer, actorReq, actorResp>>
  BY DEF RolloutPreProcess
<1>2. /\ iter = -1 /\ iter' = -1
      /\ pc' \in {"preReport", "preOthers"}
      /\ pc' = "preReport" => SchedUsePre
      /\ pc' = "preOthers" => ~SchedUsePre
  BY <1>1 DEF PhaseInv, PreProcessing
<1>3. /\ mgr'["rollout"] = [inst |-> InitInst["rollout"],
                            gpu |-> InitInst["rollout"] * RolloutMP, offset |-> 0]
      /\ mgr'["actor"] = mgr["actor"] /\ mgr'["inference"] = mgr["inference"]
  BY <1>1 DEF TypeOK, Fresh, Components
<1>4. TypeOK'
  <2>1. mgr' \in [Components -> [inst : Nat, gpu : Nat, offset : Int]]
    <3>1. InitInst["rollout"] * RolloutMP \in Nat
      BY ProductNat
    <3>2. Fresh("rollout") \in [inst : Nat, gpu : Nat, offset : Int]
      BY <3>1 DEF Fresh
    <3> QED BY <1>1, <3>2 DEF TypeOK
  <2> QED BY <1>1, <1>2, <2>1 DEF TypeOK, report, rollout, inference, trainer
<1>5. LedgerShape'
  BY <1>2, <1>3 DEF LedgerShape, Components
<1>6. PhaseInv' /\ FinishInv' /\ SeenInv'
  BY <1>2, <1>3 DEF PhaseInv, FinishInv, SeenInv, Turn
<1>7. HeldInv'
  BY <1>1, <1>3 DEF HeldInv, TypeOK, Instances, rollout
<1>8. InferenceInv'
  BY <1>1, <1>2 DEF InferenceInv, inference
<1>9. Lockstep'
  BY <1>1, <1>2 DEF Lockstep, trainer
<1>10. ReachInv'
  BY <1>2 DEF ReachInv, InMainLoop
<1> QED BY <1>4, <1>5, <1>6, <1>7, <1>8, <1>9, <1>10

\* A step of the scheduler that changes neither the ledger nor a worker.
LEMMA SchedulerFrame ==
  ASSUME IInv,
         UNCHANGED <<iter, mgr, available, rollout, inference, trainer, actorReq>>,
         TypeOK', PhaseInv', FinishInv', SeenInv', Lockstep',
         pc # "begin", InMainLoop' => InMainLoop
  PROVE  IInv'
<1> USE DEF rollout, inference, trainer, IInv
<1>1. LedgerShape' /\ HeldInv' /\ InferenceInv'
  BY DEF LedgerShape, HeldInv, InferenceInv
<1>2. ReachInv'
  BY DEF ReachInv, Reach
<1> QED BY <1>1, <1>2

\* RolloutManager asks for a report before the main loop.
LEMMA PreReportStep == ASSUME IInv, PreReport PROVE IInv'
<1> USE DEF IInv
<1>1. /\ pc = "preReport" /\ pc' = "preGather" /\ high' = gen /\ complete' = started
      /\ UNCHANGED <<iter, mgr, seen, available, finishing,
                     rollout, inference, trainer, actorReq, actorResp>>
  BY DEF PreReport, ScatterReport, ledger
<1>2. TypeOK'
  BY <1>1 DEF TypeOK, rollout, inference, trainer
<1>3. PhaseInv' /\ FinishInv' /\ SeenInv'
  BY <1>1 DEF PhaseInv, FinishInv, SeenInv, Turn, PreProcessing
<1>4. Lockstep'
  BY <1>1, <1>3 DEF Lockstep, PhaseInv, PreProcessing, trainer
<1> QED BY <1>1, <1>2, <1>3, <1>4, SchedulerFrame DEF InMainLoop

\* The rollout's instances, alive and released.
LEMMA RolloutCount ==
  ASSUME IInv
  PROVE  /\ mgr["rollout"].inst \in Nat /\ mgr["rollout"].offset \in Nat
         /\ mgr["rollout"].inst <= InitInst["rollout"]
         /\ mgr["rollout"].inst + mgr["rollout"].offset = InitInst["rollout"]
<1>1. mgr["rollout"] \in [inst : Nat, gpu : Nat, offset : Int]
  BY DEF IInv, TypeOK, Components
<1>2. /\ mgr["rollout"].offset \in Nat
      /\ mgr["rollout"].inst + mgr["rollout"].offset = InitInst["rollout"]
  BY DEF IInv, LedgerShape
<1> QED BY <1>1, <1>2

\* finish() and the end of migrate().
LEMMA FinishFrame ==
  ASSUME IInv, NEW n \in Int,
         pc \in {"preGather", "rollout", "gather"},
         \/ pc' = "finish" /\ finishing' = n
         \/ pc' = "failed" /\ finishing' = 0,
         UNCHANGED <<iter, mgr, seen, available, report,
                     rollout, inference, trainer, actorReq, actorResp>>,
         0 <= n, pc' = "finish" => n <= mgr["rollout"].inst,
         pc' = "finish" /\ pc = "preGather" => n = BorrowedDp,
         pc' = "finish" /\ pc # "preGather" /\ UseWait /\ BeforeLastIter
            => n = mgr["rollout"].inst
  PROVE  IInv'
<1> USE Sizes, SizesAssumption DEF IInv
<1>1. TypeOK'
  <2>1. finishing' \in 0 .. InitInst["rollout"]
    BY RolloutCount
  <2>2. pc' \in {"finish", "failed"}
    OBVIOUS
  <2> QED BY <2>1, <2>2 DEF TypeOK, report, rollout, inference, trainer
<1>2. PhaseInv' /\ SeenInv'
  BY DEF PhaseInv, SeenInv, Turn, PreProcessing
<1>3. FinishInv'
  BY SMTT(30) DEF FinishInv, PhaseInv, Turn, PreProcessing, BeforeLastIter, TypeOK
<1>4. Lockstep'
  BY DEF Lockstep, Idle, trainer
<1>5. InMainLoop' => InMainLoop
  BY DEF InMainLoop, LastIter, PhaseInv, PreProcessing
<1> QED BY <1>1, <1>2, <1>3, <1>4, <1>5, SchedulerFrame

\* pre_process_impl: borrowed instances are told to finish, or it asks again.
LEMMA PreGatherStep == ASSUME Policies, IInv, PreGather PROVE IInv'
<1> USE Sizes, SizesAssumption DEF IInv
<1>1. CASE StartFinish(BorrowedDp, MigrateAsserts(BorrowedDp)) /\ pc = "preGather"
  <2>1. /\ \/ pc' = "finish" /\ finishing' = BorrowedDp
           \/ pc' = "failed" /\ finishing' = 0
        /\ pc' = "finish" => BorrowedDp < mgr["rollout"].inst
        /\ UNCHANGED <<iter, mgr, seen, available, report,
                       rollout, inference, trainer, actorReq, actorResp>>
    BY <1>1 DEF StartFinish, AssertThen, MigrateAsserts, ledger
  <2>2. BorrowedDp < InitInst["rollout"]
    <3>1. SchedUsePre /\ WorkerUsePre
      BY <1>1 DEF PhaseInv, Policies
    <3> QED BY <3>1
  <2> QED BY <1>1, <2>1, <2>2, RolloutCount, FinishFrame
<1>2. CASE /\ pc = "preGather" /\ pc' = "preReport"
           /\ UNCHANGED <<iter, ledger, report, finishing,
                          rollout, inference, trainer, actorReq, actorResp>>
  <2> USE <1>2 DEF ledger
  <2>1. TypeOK'
    BY DEF TypeOK, report, rollout, inference, trainer
  <2>2. PhaseInv' /\ FinishInv' /\ SeenInv'
    BY DEF PhaseInv, FinishInv, SeenInv, Turn, PreProcessing
  <2>3. Lockstep'
    BY <2>2 DEF Lockstep, PhaseInv, PreProcessing, trainer
  <2> QED BY <2>1, <2>2, <2>3, SchedulerFrame DEF InMainLoop
<1> QED BY <1>1, <1>2 DEF PreGather

\* The main loop starts with the state that pre_process left.
LEMMA PreOthersStep == ASSUME Policies, IInv, PreOthers PROVE IInv'
<1> USE Sizes, SizesAssumption DEF IInv
<1>1. /\ pc = "preOthers" /\ pc' = "waitActor" /\ iter' = 0
      /\ available' = 0
      /\ actorReq' = IF SchedUsePre THEN Append(actorReq, None) ELSE actorReq
      /\ UNCHANGED <<report, finishing, rollout, inference, trainer, actorResp>>
  BY DEF PreOthers
<1>m. /\ mgr' = [mgr EXCEPT !["actor"] = Fresh("actor"),
                            !["inference"] = Fresh("inference")]
      /\ seen' = [InitInst EXCEPT !["rollout"] = mgr["rollout"].inst]
  BY DEF PreOthers
<1>2. iter = -1 /\ actorReq = <<>> /\ mgr["rollout"].offset = (IF SchedUsePre THEN BorrowedDp ELSE 0)
  BY <1>1 DEF PhaseInv, PreProcessing, Lockstep
<1>3. /\ mgr'["rollout"] = mgr["rollout"]
      /\ mgr'["actor"] = [inst |-> ActorDp, gpu |-> ActorDp * ActorMP, offset |-> 0]
      /\ mgr'["inference"] = [inst |-> InferenceDp,
                              gpu |-> InferenceDp * InferenceMP, offset |-> 0]
  BY <1>m DEF TypeOK, Fresh, Components
<1>4. /\ mgr'["rollout"].offset = mgr["rollout"].offset
      /\ mgr'["rollout"].inst = mgr["rollout"].inst
      /\ mgr'["rollout"].gpu = mgr["rollout"].gpu
      /\ mgr'["actor"].inst = ActorDp /\ mgr'["inference"].inst = InferenceDp
      /\ mgr'["actor"].gpu = ActorDp * ActorMP
      /\ mgr'["inference"].gpu = InferenceDp * InferenceMP
  BY <1>3
<1>5. actorReq' = IF SchedUsePre THEN <<None>> ELSE <<>>
  BY <1>1, <1>2
<1>6. TypeOK'
  <2>1. mgr' \in [Components -> [inst : Nat, gpu : Nat, offset : Int]]
    <3>1. /\ Fresh("actor") \in [inst : Nat, gpu : Nat, offset : Int]
          /\ Fresh("inference") \in [inst : Nat, gpu : Nat, offset : Int]
      BY ProductNat DEF Fresh
    <3> QED BY <1>m, <3>1 DEF TypeOK
  <2>2. seen' \in [Components -> Nat]
    <3>1. InitInst \in [Components -> Nat]
      BY DEF InitInst, Components
    <3>2. mgr["rollout"].inst \in Nat
      BY DEF TypeOK, Components
    <3> QED BY <1>m, <3>1, <3>2
  <2>3. actorReq' \in Seq(Nat)
    BY <1>5 DEF None
  <2>4. pc' = "waitActor" /\ iter' = 0 /\ available' = 0
    BY <1>1
  <2> QED BY <1>1, <2>1, <2>2, <2>3, <2>4 DEF TypeOK, report, rollout, inference, trainer
<1>7. LedgerShape'
  <2>1. mgr["rollout"].gpu = mgr["rollout"].inst * RolloutMP
    BY DEF LedgerShape, Components
  <2> QED BY <1>1, <1>4, <2>1, SMTT(30) DEF LedgerShape, Components
<1>8. PhaseInv' /\ FinishInv'
  BY <1>1 DEF PhaseInv, FinishInv, PreProcessing, Turn
<1>8a. HeldInv'
  BY <1>1, <1>4 DEF HeldInv, rollout
<1>9. SeenInv'
  <2>1. seen'["rollout"] = mgr["rollout"].inst
    BY <1>m DEF InitInst
  <2> QED BY <1>1, <1>4, <2>1 DEF SeenInv, Turn
<1>10. InferenceInv'
  BY <1>1, <1>4 DEF InferenceInv, inference
<1>11. ActorGpus = ActorDp * ActorMP
  BY DEF ActorGpus
<1>12. Lockstep'
  BY <1>1, <1>2, <1>4, <1>5, <1>11 DEF Lockstep, Idle, Policies, trainer
<1>13. Reach' = ActorGpus
  <2>1. (InferenceDp - InferenceDp) * InferenceMP = 0
    OBVIOUS
  <2> QED BY <1>2, <1>4, <2>1 DEF Reach, Policies
<1>14. ReachInv'
  <2>1. actorWorld' = ActorGpus
    BY <1>1, <1>2 DEF Lockstep, trainer
  <2>2. mgr'["actor"].gpu = ActorGpus
    BY <1>4, <1>11
  <2>3. available' = 0
    BY <1>1
  <2> QED BY <1>13, <2>1, <2>2, <2>3 DEF ReachInv
<1> QED BY <1>6, <1>7, <1>8, <1>8a, <1>9, <1>10, <1>12, <1>14

\* The scheduler picks up the announcement of the trainer.
LEMMA WaitForActorUpdateStep == ASSUME IInv, WaitForActorUpdate PROVE IInv'
<1> USE DEF IInv
<1>1. /\ pc = "waitActor" /\ pc' = "rollout"
      /\ actorResp > 0 /\ actorResp' = actorResp - 1
      /\ UNCHANGED <<iter, mgr, seen, available, report, finishing,
                     rollout, inference, trainer, actorReq>>
  BY DEF WaitForActorUpdate, ledger
<1>2. TypeOK'
  BY <1>1 DEF TypeOK, report, rollout, inference, trainer
<1>3. PhaseInv' /\ FinishInv' /\ SeenInv'
  BY <1>1 DEF PhaseInv, FinishInv, SeenInv, Turn, PreProcessing
<1>4. Lockstep'
  <2>1. /\ apc = "sync" /\ actorIter = iter /\ actorReq = <<>> /\ actorResp = 1
        /\ actorWorld = mgr["actor"].gpu /\ iter >= 0
    BY <1>1 DEF Lockstep, Idle, PhaseInv, TypeOK
  <2> QED BY <1>1, <2>1 DEF Lockstep, Idle, trainer
<1>5. InMainLoop' => InMainLoop
  BY <1>1 DEF InMainLoop, LastIter
<1> QED BY <1>1, <1>2, <1>3, <1>4, <1>5, SchedulerFrame

\* scheduler_state.update with nothing released and nothing allocated.
LEMMA NoUpdate ==
  ASSUME TypeOK, NEW c \in Components, StateUpdate(c, mgr[c], 0, 0)
  PROVE  /\ UNCHANGED <<mgr, available>>
         /\ seen' \in [Components -> Nat]
         /\ seen'[c] = mgr[c].inst
         /\ \A d \in Components \ {c} : seen'[d] = seen[d]
BY DEF StateUpdate, TypeOK

\* The rollout's turn ends without a release.
LEMMA RolloutKeeps ==
  ASSUME IInv, pc \in {"rollout", "gather"}, pc' \in {"inference", "failed"},
         StateUpdate("rollout", mgr["rollout"], 0, 0),
         UNCHANGED <<iter, report, finishing, rollout,
                     inference, trainer, actorReq, actorResp>>,
         mgr["rollout"].inst = 0 \/ ~(UseWait /\ BeforeLastIter)
  PROVE  IInv'
<1> USE DEF IInv
<1>1. /\ UNCHANGED <<mgr, available>> /\ seen' \in [Components -> Nat]
      /\ seen'["rollout"] = mgr["rollout"].inst
  BY NoUpdate DEF Components
<1>2. TypeOK'
  BY <1>1 DEF TypeOK, report, rollout, inference, trainer
<1>3. PhaseInv' /\ FinishInv'
  BY <1>1 DEF PhaseInv, FinishInv, Turn, PreProcessing
<1>4. SeenInv'
  BY <1>1 DEF SeenInv, Turn, BeforeLastIter
<1>5. Lockstep'
  BY <1>1 DEF Lockstep, Idle, trainer
<1>6. InMainLoop' => InMainLoop
  BY DEF InMainLoop, LastIter
<1> QED BY <1>1, <1>2, <1>3, <1>4, <1>5, <1>6, SchedulerFrame

\* release_or_allocate of the rollout up to its first await.
LEMMA RolloutReleaseStep == ASSUME IInv, RolloutRelease PROVE IInv'
<1> USE Sizes DEF IInv
<1>1. CASE /\ pc = "rollout" /\ mgr["rollout"].inst = 0
           /\ pc' = "inference"
           /\ StateUpdate("rollout", mgr["rollout"], 0, 0)
           /\ UNCHANGED <<iter, report, finishing,
                          rollout, inference, trainer, actorReq, actorResp>>
  BY <1>1, RolloutKeeps
<1>2. CASE pc = "rollout" /\ LastIter /\ StartFinish(mgr["rollout"].inst, TRUE)
  <2>1. /\ pc' = "finish" /\ finishing' = mgr["rollout"].inst
        /\ UNCHANGED <<iter, mgr, seen, available, report,
                       rollout, inference, trainer, actorReq, actorResp>>
    BY <1>2 DEF StartFinish, AssertThen, ledger
  <2> QED BY <1>2, <2>1, RolloutCount, FinishFrame
<1>3. CASE pc = "rollout" /\ ~LastIter /\ ScatterReport("rollout", "gather")
  <2>1. /\ pc = "rollout" /\ pc' = "gather" /\ high' = gen /\ complete' = started
        /\ UNCHANGED <<iter, mgr, seen, available, finishing,
                       rollout, inference, trainer, actorReq, actorResp>>
    BY <1>3 DEF ScatterReport, ledger
  <2>2. TypeOK'
    BY <2>1 DEF TypeOK, rollout, inference, trainer
  <2>3. PhaseInv' /\ FinishInv' /\ SeenInv'
    BY <1>3, <2>1 DEF PhaseInv, FinishInv, SeenInv, Turn, PreProcessing, LastIter
  <2>4. Lockstep'
    BY <2>1 DEF Lockstep, Idle, trainer
  <2>5. InMainLoop' => InMainLoop
    BY <2>1 DEF InMainLoop, LastIter
  <2> QED BY <2>1, <2>2, <2>3, <2>4, <2>5, SchedulerFrame
<1> QED BY <1>1, <1>2, <1>3 DEF RolloutRelease

\* BestFit returns the current size or a larger one that fits.
LEMMA BestFitNat ==
  ASSUME NEW cur \in Nat, NEW gpus \in Int, NEW d \in BestFit(cur, gpus)
  PROVE  d \in Nat /\ (d = cur \/ (d > cur /\ (d - cur) * ActorMP <= gpus))
BY ValidDpAssumption DEF BestFit

\* find_release_instance_num_needed returns an integer.
LEMMA ReleaseNeededInt ==
  ASSUME TypeOK, NEW most, NEW n \in ReleaseNeeded(most)
  PROVE  n \in Int
<1>1. CASE most = 0
  BY <1>1 DEF ReleaseNeeded
<1>2. CASE most # 0
  <2>1. PICK d \in BestFit(seen["actor"], most * RolloutMP) :
          n = CeilDiv((d - seen["actor"]) * ActorMP, RolloutMP)
    BY <1>2 DEF ReleaseNeeded
  <2>2. seen["actor"] \in Nat
    BY DEF TypeOK, Components
  <2>3. d \in Nat
    BY <2>1, <2>2, ValidDpAssumption DEF BestFit
  <2>4. (d - seen["actor"]) * ActorMP \in Int
    BY <2>2, <2>3, SizesAssumption, Distribute
  <2> QED BY <2>1, <2>4, SizesAssumption DEF CeilDiv
<1> QED BY <1>1, <1>2

\* release_resource decides how many instances go.
LEMMA RolloutGatherStep == ASSUME IInv, RolloutGather PROVE IInv'
<1> USE Sizes DEF IInv
<1>1. CASE pc = "gather" /\ StartFinish(mgr["rollout"].inst, TRUE)
  <2>1. /\ pc' = "finish" /\ finishing' = mgr["rollout"].inst
        /\ UNCHANGED <<iter, mgr, seen, available, report,
                       rollout, inference, trainer, actorReq, actorResp>>
    BY <1>1 DEF StartFinish, AssertThen, ledger
  <2> QED BY <1>1, <2>1, RolloutCount, FinishFrame
<1>2. ASSUME NEW n, pc = "gather", ~(UseWait /\ BeforeLastIter),
             n = 0, pc' \in {"inference", "failed"},
             StateUpdate("rollout", mgr["rollout"], 0, 0),
             UNCHANGED <<iter, report, finishing, rollout,
                         inference, trainer, actorReq, actorResp>>
      PROVE  IInv'
  BY <1>2, RolloutKeeps
<1>3. ASSUME NEW r, NEW n, pc = "gather", ~(UseWait /\ BeforeLastIter),
             n \in ReleaseNeeded(ReleasedMax(r)), n > 0,
             StartFinish(n, PolicyAsserts(ReleasedMax(r), n) /\ MigrateAsserts(n))
      PROVE  IInv'
  <2>1. /\ \/ pc' = "finish" /\ finishing' = n
           \/ pc' = "failed" /\ finishing' = 0
        /\ pc' = "finish" => n < mgr["rollout"].inst
        /\ UNCHANGED <<iter, mgr, seen, available, report,
                       rollout, inference, trainer, actorReq, actorResp>>
    BY <1>3 DEF StartFinish, AssertThen, MigrateAsserts, ledger
  <2>2. n \in Int
    BY <1>3, ReleaseNeededInt
  <2> QED BY <1>3, <2>1, <2>2, RolloutCount, FinishFrame
<1> QED BY <1>1, <1>2, <1>3 DEF RolloutGather, AssertThen

\* Every instance that was told to finish has reported Offloaded.
LEMMA FinishGatheredStep == ASSUME Policies, IInv, FinishGathered PROVE IInv'
<1> USE Sizes, SizesAssumption DEF IInv
<1> DEFINE n == finishing
<1>1. /\ pc = "finish" /\ Finishing \cap held = {} /\ finishing' = 0
      /\ UNCHANGED <<iter, report, rollout, inference, trainer, actorReq, actorResp>>
  BY DEF FinishGathered
<1>2. mgr' = [mgr EXCEPT !["rollout"] = Release("rollout", n)]
  BY DEF FinishGathered, StateUpdate
<1>3. /\ iter = -1 => /\ pc' = "preOthers" /\ UNCHANGED <<seen, available>>
      /\ iter # -1 => /\ pc' = "inference"
                      /\ seen' = [seen EXCEPT !["rollout"] = mgr["rollout"].inst - n]
                      /\ available' = available
                           + (IF LastIter THEN 0 ELSE n * RolloutMP)
  BY DEF FinishGathered, StateUpdate, Release, TypeOK
<1>4. /\ n \in Nat /\ n <= mgr["rollout"].inst
      /\ iter = -1 => SchedUsePre /\ n = BorrowedDp /\ mgr["rollout"].offset = 0
      /\ iter >= 0 /\ UseWait /\ BeforeLastIter => n = mgr["rollout"].inst
  BY <1>1 DEF FinishInv, TypeOK
<1>5. /\ mgr'["rollout"].inst = mgr["rollout"].inst - n
      /\ mgr'["rollout"].offset = mgr["rollout"].offset + n
      /\ mgr'["rollout"].gpu = mgr["rollout"].gpu - n * RolloutMP
      /\ mgr'["actor"] = mgr["actor"] /\ mgr'["inference"] = mgr["inference"]
  BY <1>2 DEF Release, TypeOK, Components
<1>6. mgr["rollout"].gpu = mgr["rollout"].inst * RolloutMP
  BY DEF LedgerShape, Components
<1>7. mgr'["rollout"].gpu = mgr'["rollout"].inst * RolloutMP
  BY <1>4, <1>5, <1>6, RolloutCount, Distribute
<1>i. iter = -1 \/ (iter \in Nat /\ iter # -1)
  BY DEF TypeOK
<1>r. mgr["rollout"].inst - n \in Nat
  BY <1>4, RolloutCount
<1>8. TypeOK'
  <2>1. Release("rollout", n) \in [inst : Nat, gpu : Nat, offset : Int]
    <3>1. (mgr["rollout"].inst - n) * RolloutMP \in Nat
      BY <1>r, ProductNat
    <3> QED BY <1>4, <1>5, <1>7, <1>r, <3>1, RolloutCount DEF Release
  <2>2. mgr' \in [Components -> [inst : Nat, gpu : Nat, offset : Int]]
    BY <1>2, <2>1 DEF TypeOK
  <2>3. seen' \in [Components -> Nat]
    <3>1. seen \in [Components -> Nat]
      BY DEF TypeOK
    <3> QED BY <1>3, <1>i, <1>r, <3>1
  <2>4. available' \in Nat
    <3>1. n * RolloutMP \in Nat /\ available \in Nat
      BY <1>4, ProductNat DEF TypeOK
    <3>2. available' = available \/ available' = available + n * RolloutMP
      BY <1>3, <1>i, <3>1
    <3> QED BY <3>1, <3>2
  <2>5. pc' \in {"preOthers", "inference"} /\ finishing' = 0
    BY <1>1, <1>3
  <2> QED BY <1>1, <2>2, <2>3, <2>4, <2>5, SMTT(30)
          DEF TypeOK, report, rollout, inference, trainer
<1>9. LedgerShape'
  <2>1. mgr'["rollout"].offset \in Nat
        /\ mgr'["rollout"].inst + mgr'["rollout"].offset = InitInst["rollout"]
    BY <1>4, <1>5, RolloutCount
  <2> QED BY <1>1, <1>5, <1>7, <2>1 DEF LedgerShape, Components
<1>10. PhaseInv'
  <2>1. CASE iter = -1
    BY <2>1, <1>1, <1>3, <1>4, <1>5 DEF PhaseInv, PreProcessing, Turn
  <2>2. CASE iter \in Nat /\ iter # -1
    BY <2>2, <1>1, <1>3 DEF PhaseInv, PreProcessing, Turn
  <2> QED BY <1>i, <2>1, <2>2
<1>11. FinishInv'
  BY <1>3 DEF FinishInv
<1>12. HeldInv'
  BY <1>1, <1>4, <1>5, RolloutCount DEF HeldInv, Finishing, rollout
<1>13. SeenInv'
  <2>1. CASE iter = -1
    BY <2>1, <1>3 DEF SeenInv, Turn
  <2>2. CASE iter \in Nat /\ iter # -1
    <3>1. seen' = [seen EXCEPT !["rollout"] = mgr["rollout"].inst - n]
      BY <1>3, <2>2
    <3>2. seen'["rollout"] = mgr'["rollout"].inst
      BY <1>5, <3>1 DEF TypeOK, Components
    <3>3. UseWait /\ BeforeLastIter => mgr'["rollout"].inst = 0
      BY <1>4, <1>5, <2>2, RolloutCount
    <3> QED BY <1>1, <3>2, <3>3 DEF SeenInv, BeforeLastIter
  <2> QED BY <1>i, <2>1, <2>2
<1>14. InferenceInv'
  BY <1>1, <1>4, <1>5, RolloutCount DEF InferenceInv, inference
<1>15. Lockstep'
  BY <1>1, <1>3, <1>5 DEF Lockstep, Idle, trainer, TypeOK
<1>16. Reach' = Reach + n * RolloutMP /\ Reach \in Int /\ n * RolloutMP \in Nat
  <2> DEFINE infFree == (InferenceDp - mgr["inference"].inst) * InferenceMP
  <2>1. (mgr["rollout"].offset + n) * RolloutMP
          = mgr["rollout"].offset * RolloutMP + n * RolloutMP
    BY <1>4, RolloutCount, Distribute
  <2>2. mgr["inference"].inst \in Nat
    BY DEF TypeOK, Components
  <2>3. infFree \in Int
    BY <2>2, Distribute
  <2>4. mgr["rollout"].offset * RolloutMP \in Nat /\ n * RolloutMP \in Nat
    BY <1>4, RolloutCount, ProductNat
  <2>5. Reach' = RolloutBase + (mgr["rollout"].offset + n) * RolloutMP + infFree
    BY <1>5 DEF Reach
  <2>6. Reach = RolloutBase + mgr["rollout"].offset * RolloutMP + infFree
    BY DEF Reach
  <2> HIDE DEF infFree
  <2> QED BY <2>1, <2>3, <2>4, <2>5, <2>6
<1>17. ReachInv'
  <2>1. mgr["actor"].gpu \in Nat /\ actorWorld \in Nat /\ available \in Nat
    BY DEF TypeOK, Components
  <2>2. iter' = iter /\ actorWorld' = actorWorld /\ mgr'["actor"].gpu = mgr["actor"].gpu
    BY <1>1, <1>5 DEF trainer
  <2>3. iter >= 0 => mgr["actor"].gpu <= Reach' /\ actorWorld <= Reach'
    BY <1>16, <2>1 DEF ReachInv
  <2>4. InMainLoop' => available' + mgr["actor"].gpu = Reach'
    <3>1. SUFFICES ASSUME InMainLoop'
                   PROVE  available' + mgr["actor"].gpu = Reach'
      OBVIOUS
    <3>2. InMainLoop /\ ~LastIter /\ iter # -1
      BY <1>1, <1>i, <2>2, <3>1 DEF InMainLoop, LastIter
    <3>3. available' = available + n * RolloutMP
      BY <1>3, <3>2
    <3> QED BY <1>16, <2>1, <3>2, <3>3 DEF ReachInv
  <2> QED BY <2>2, <2>3, <2>4 DEF ReachInv
<1> QED BY <1>8, <1>9, <1>10, <1>11, <1>12, <1>13, <1>14, <1>15, <1>17

\* The inference component's turn ends without a release.
LEMMA InferenceKeeps ==
  ASSUME IInv, pc = "inference", pc' = "actor",
         UNCHANGED <<mgr, available, iter, report, finishing,
                     rollout, inference, trainer, actorReq, actorResp>>,
         seen' \in [Components -> Nat], seen'["rollout"] = seen["rollout"]
  PROVE  IInv'
<1> USE DEF IInv
<1>1. TypeOK'
  BY DEF TypeOK, report, rollout, inference, trainer
<1>2. PhaseInv' /\ FinishInv' /\ SeenInv'
  BY DEF PhaseInv, FinishInv, SeenInv, Turn, PreProcessing
<1>3. Lockstep'
  BY DEF Lockstep, Idle, trainer
<1>4. InMainLoop' => InMainLoop
  BY DEF InMainLoop, LastIter
<1> QED BY <1>1, <1>2, <1>3, <1>4, SchedulerFrame

\* Both sides of the balance grow by the released GPUs.
LEMMA Shift ==
  ASSUME NEW a \in Nat, NEW w \in Nat, NEW v \in Nat, NEW b \in Int, NEW k \in Nat,
         a <= b, w <= b, v + a = b
  PROVE  v + k \in Nat /\ a <= b + k /\ w <= b + k /\ (v + k) + a = b + k
OBVIOUS

\* All of inference is released: its GPUs join the prefix the trainer may use.
LEMMA InferenceReleased ==
  ASSUME Policies, IInv, pc = "inference", pc' = "actor",
         UNCHANGED <<iter, report, finishing,
                     rollout, inference, trainer, actorReq, actorResp>>,
         HasInference, ~LastIter, mgr["inference"].inst > 0, ~infHeld,
         ~UseWait \/ InferenceMustWait,
         StateUpdate("inference", Release("inference", mgr["inference"].inst),
                     mgr["inference"].inst * InferenceMP, 0)
  PROVE  IInv'
<1> USE Sizes, SizesAssumption DEF IInv
<1>1. iter \in Nat /\ InferenceDp \in Nat \ {0} /\ mgr["inference"].inst = InferenceDp
  <2>1. iter \in Nat
    BY DEF PhaseInv, Turn, TypeOK
  <2>2. mgr["inference"].inst \in {0, InferenceDp} /\ mgr["inference"].inst \in Nat
    BY DEF TypeOK, LedgerShape, Components
  <2>3. mgr["inference"].inst # 0
    OBVIOUS
  <2> QED BY <2>1, <2>2, <2>3
<1>n. InferenceDp * InferenceMP \in Nat /\ available \in Nat
  BY ProductNat DEF TypeOK
<1>2. mgr["rollout"].inst = 0
  BY DEF Policies, HasInference, InferenceMustWait, SeenInv, Turn
<1>3. /\ mgr' = [mgr EXCEPT !["inference"] = Release("inference", InferenceDp)]
      /\ seen' = [seen EXCEPT !["inference"] = 0]
      /\ available' = available + InferenceDp * InferenceMP
  <2>1. Release("inference", InferenceDp).inst = 0
    BY <1>1 DEF Release
  <2>2. StateUpdate("inference", Release("inference", InferenceDp),
                    InferenceDp * InferenceMP, 0)
    BY <1>1
  <2>3. available' = available + InferenceDp * InferenceMP - 0
    BY <2>2 DEF StateUpdate
  <2>4. available' = available + InferenceDp * InferenceMP
    BY <1>n, <2>3
  <2> QED BY <2>1, <2>2, <2>4 DEF StateUpdate
<1>4. /\ mgr'["inference"].inst = 0
      /\ mgr'["inference"].gpu = mgr["inference"].gpu - InferenceDp * InferenceMP
      /\ mgr'["inference"].offset \in Int
      /\ mgr'["actor"] = mgr["actor"] /\ mgr'["rollout"] = mgr["rollout"]
  BY <1>1, <1>3, SMTT(30) DEF Release, TypeOK, Components
<1>5. mgr'["inference"].gpu = 0
  BY <1>1, <1>4, ProductNat DEF LedgerShape, Components
<1>6. TypeOK'
  <2>1. Release("inference", InferenceDp) \in [inst : Nat, gpu : Nat, offset : Int]
    <3>1. mgr["inference"].gpu - InferenceDp * InferenceMP = 0
      BY <1>4, <1>5
    <3>2. mgr["inference"].offset \in Int
      BY DEF TypeOK, Components
    <3> QED BY <1>1, <3>1, <3>2 DEF Release
  <2>2. mgr' \in [Components -> [inst : Nat, gpu : Nat, offset : Int]]
    BY <1>3, <2>1 DEF TypeOK
  <2>3. seen' \in [Components -> Nat]
    BY <1>3 DEF TypeOK
  <2>4. available' \in Nat
    <3>1. available + InferenceDp * InferenceMP \in Nat
      BY <1>n
    <3> QED BY <1>3, <3>1
  <2> QED BY <2>2, <2>3, <2>4 DEF TypeOK, report, rollout, inference, trainer
<1>7. LedgerShape'
  <2>1. mgr'["inference"].gpu = mgr'["inference"].inst * InferenceMP
    BY <1>4, <1>5
  <2> QED BY <1>4, <2>1 DEF LedgerShape, Components
<1>8. PhaseInv' /\ FinishInv'
  BY DEF PhaseInv, FinishInv, Turn, PreProcessing
<1>9. HeldInv'
  BY <1>4 DEF HeldInv, rollout
<1>10. SeenInv'
  <2>1. seen'["rollout"] = seen["rollout"]
    BY <1>3 DEF TypeOK, Components
  <2> QED BY <1>4, <2>1 DEF SeenInv, Turn
<1>11. InferenceInv'
  BY <1>2, <1>4 DEF InferenceInv, inference
<1>12. Lockstep'
  BY <1>4 DEF Lockstep, Idle, trainer
<1>13. ReachInv'
  <2> DEFINE base == RolloutBase + mgr["rollout"].offset * RolloutMP
  <2>1. base \in Int
    BY RolloutCount, ProductNat
  <2>2. Reach = base
    BY <1>1, <2>1 DEF Reach
  <2>3. Reach' = base + InferenceDp * InferenceMP
    <3>1. InferenceDp - 0 = InferenceDp
      OBVIOUS
    <3> QED BY <1>4, <3>1 DEF Reach
  <2>4. mgr["actor"].gpu \in Nat /\ actorWorld \in Nat /\ available \in Nat
    BY DEF TypeOK, Components
  <2>5. InMainLoop /\ mgr["actor"].gpu <= base /\ actorWorld <= base
        /\ available + mgr["actor"].gpu = base
    BY <1>1, <2>2 DEF ReachInv, InMainLoop
  <2> HIDE DEF base
  <2>6. /\ mgr["actor"].gpu <= Reach' /\ actorWorld <= Reach'
        /\ available' + mgr["actor"].gpu = Reach'
    <3>1. available' = available + InferenceDp * InferenceMP
      BY <1>3
    <3>2. /\ mgr["actor"].gpu <= base + InferenceDp * InferenceMP
          /\ actorWorld <= base + InferenceDp * InferenceMP
          /\ (available + InferenceDp * InferenceMP) + mgr["actor"].gpu
               = base + InferenceDp * InferenceMP
      BY <1>n, <2>1, <2>4, <2>5, Shift
    <3> QED BY <2>3, <3>1, <3>2
  <2> QED BY <1>4, <2>6 DEF ReachInv, trainer
<1> QED BY <1>6, <1>7, <1>8, <1>9, <1>10, <1>11, <1>12, <1>13

\* The inference component's turn.
LEMMA InferenceReleaseStep == ASSUME Policies, IInv, InferenceRelease PROVE IInv'
<1> USE DEF IInv
<1>1. /\ pc = "inference" /\ pc' = "actor"
      /\ UNCHANGED <<iter, report, finishing,
                     rollout, inference, trainer, actorReq, actorResp>>
  BY DEF InferenceRelease
<1>2. CASE UNCHANGED ledger
  <2>1. UNCHANGED <<mgr, available, seen>> /\ seen \in [Components -> Nat]
    BY <1>2 DEF ledger, TypeOK
  <2> QED BY <1>1, <2>1, InferenceKeeps
<1>3. CASE StateUpdate("inference", mgr["inference"], 0, 0)
  <2>1. /\ UNCHANGED <<mgr, available>> /\ seen' \in [Components -> Nat]
        /\ seen'["rollout"] = seen["rollout"]
    BY <1>3, NoUpdate DEF Components
  <2> QED BY <1>1, <2>1, InferenceKeeps
<1>4. CASE /\ HasInference /\ ~LastIter
           /\ mgr["inference"].inst > 0 /\ ~infHeld
           /\ ~UseWait \/ InferenceMustWait
           /\ StateUpdate("inference", Release("inference", mgr["inference"].inst),
                          mgr["inference"].inst * InferenceMP, 0)
  BY <1>1, <1>4, InferenceReleased
<1> QED BY <1>2, <1>3, <1>4 DEF InferenceRelease

\* The prefix of released GPUs has a length.
LEMMA ReachInt == ASSUME IInv PROVE Reach \in Int
<1>1. mgr["inference"].inst \in Nat
  BY DEF IInv, TypeOK, Components
<1>2. (InferenceDp - mgr["inference"].inst) * InferenceMP \in Int
  BY <1>1, Distribute, SizesAssumption
<1>3. mgr["rollout"].offset * RolloutMP \in Nat
  BY RolloutCount, ProductNat, SizesAssumption
<1>4. RolloutBase \in Nat
  BY Sizes
<1> QED BY <1>2, <1>3, <1>4 DEF Reach

\* An iteration that is not the last one has a successor.
LEMMA NextBelow ==
  ASSUME NEW i \in Nat, NEW n \in Nat, i <= n - 1, i # n - 1
  PROVE  i + 1 \in Nat /\ i + 1 <= n - 1
OBVIOUS

\* The ledger and the message after the actor has been resized to g GPUs.
LEMMA ActorResized ==
  ASSUME IInv, NEW g \in Nat \ {0},
         pc = "actor",
         mgr' \in [Components -> [inst : Nat, gpu : Nat, offset : Int]],
         LedgerShape', mgr'["actor"].gpu = g,
         mgr'["rollout"] = mgr["rollout"], mgr'["inference"] = mgr["inference"],
         seen' \in [Components -> Nat], seen'["rollout"] = seen["rollout"],
         available' \in Nat,
         actorReq' = Append(actorReq, ScaleMessage(g)),
         UNCHANGED <<report, finishing, rollout, inference, trainer, actorResp>>,
         pc' \in {"waitActor", "done"}, g <= Reach,
         pc' = "waitActor" => ~LastIter /\ iter' = iter + 1 /\ available' + g = Reach,
         pc' = "done" => LastIter /\ iter' = iter
                          /\ mgr'["actor"].inst = ActorDp
  PROVE  IInv'
<1> USE DEF IInv
<1>1. iter \in Nat /\ iter <= NMinibatches - 1 /\ NMinibatches \in Nat
  <2>1. NMinibatches \in Nat /\ iter \in -1 .. NMinibatches - 1
    BY SizesAssumption DEF TypeOK
  <2>2. iter >= 0
    BY DEF PhaseInv, Turn
  <2> QED BY <2>1, <2>2
<1>2. iter' \in Nat /\ iter' <= NMinibatches - 1
  <2> HIDE DEF IInv
  <2>1. CASE pc' = "waitActor"
    <3>1. iter # NMinibatches - 1 /\ iter' = iter + 1
      BY <2>1 DEF LastIter
    <3> QED BY <1>1, <3>1, NextBelow, Zenon
  <2>2. CASE pc' = "done"
    <3>1. iter' = iter
      BY <2>2
    <3> QED BY <1>1, <3>1, Zenon
  <2> QED BY <2>1, <2>2
<1>3. /\ actorReq = <<>> /\ actorResp = 0 /\ apc = "sync" /\ actorIter = iter
      /\ actorWorld = mgr["actor"].gpu
  BY <1>1 DEF Lockstep, Idle
<1>5. actorReq' = <<ScaleMessage(g)>>
  BY <1>3
<1>6. /\ ScaleMessage(g) \in {None, g}
      /\ ScaleMessage(g) = None => actorWorld = g
  BY <1>3 DEF ScaleMessage, None
<1>7. TypeOK'
  <2>1. actorReq' \in Seq(Nat)
    <3>1. ScaleMessage(g) \in Nat
      BY <1>6 DEF None
    <3> QED BY <1>5, <3>1
  <2>2. iter' \in -1 .. NMinibatches - 1
    BY <1>1, <1>2
  <2> QED BY <1>2, <2>1, <2>2 DEF TypeOK, report, rollout, inference, trainer
<1>9. PhaseInv'
  BY <1>1, <1>2 DEF PhaseInv, PreProcessing, Turn, LastIter
<1>10. FinishInv' /\ SeenInv'
  BY <1>2 DEF FinishInv, SeenInv, Turn
<1>11. HeldInv' /\ InferenceInv'
  BY <1>1, <1>2 DEF HeldInv, InferenceInv, rollout, inference
<1>12. Lockstep'
  <2>1. \E x \in {None, g} :
          actorReq' = <<x>> /\ (IF x = None THEN actorWorld ELSE x) = g
    BY <1>5, <1>6
  <2>2. /\ apc' = "sync" /\ actorIter' = iter /\ actorResp' = 0
        /\ actorWorld' = actorWorld /\ mgr'["actor"].gpu = g
    BY <1>3 DEF trainer
  <2>3. pc' = "waitActor" => iter' >= 1 /\ actorIter' = iter' - 1
    BY <1>1, <2>2
  <2>4. pc' = "done" => actorIter' = iter'
    BY <2>2
  <2>5. \E x \in {None, mgr'["actor"].gpu} :
          actorReq' = <<x>> /\ NewWorld(x)' = mgr'["actor"].gpu
    BY <2>1, <2>2 DEF NewWorld
  <2>6. iter' # -1 /\ pc' \in {"waitActor", "done"}
    BY <1>2
  <2> HIDE DEF IInv
  <2> QED BY <2>2, <2>3, <2>4, <2>5, <2>6 DEF Lockstep
<1>13. ReachInv'
  <2>1. Reach' = Reach /\ Reach \in Int
    BY ReachInt DEF Reach
  <2>2. actorWorld' = actorWorld /\ actorWorld <= Reach
    BY <1>1 DEF ReachInv, trainer
  <2>4. mgr'["actor"].gpu <= Reach'
    BY <2>1
  <2>5. pc' = "done" => ~InMainLoop'
    BY DEF InMainLoop
  <2> QED BY <1>2, <2>1, <2>2, <2>4, <2>5 DEF ReachInv
<1> QED BY <1>7, <1>9, <1>10, <1>11, <1>12, <1>13

\* The actor never shrinks below its initial size.
LEMMA ActorCount ==
  ASSUME IInv
  PROVE  /\ mgr["actor"].inst \in Nat \ {0} /\ mgr["actor"].inst >= ActorDp
         /\ mgr["actor"].gpu = mgr["actor"].inst * ActorMP
         /\ mgr["actor"].gpu \in Nat \ {0} /\ mgr["actor"].offset \in Int
<1>1. mgr["actor"] \in [inst : Nat, gpu : Nat, offset : Int]
  BY DEF IInv, TypeOK, Components
<1>2. /\ mgr["actor"].inst >= ActorDp
      /\ mgr["actor"].gpu = mgr["actor"].inst * ActorMP
  BY Sizes DEF IInv, LedgerShape, Components
<1>3. mgr["actor"].inst \in Nat \ {0} /\ ActorMP \in Nat \ {0}
  BY <1>1, <1>2, SizesAssumption
<1>4. mgr["actor"].gpu \in Nat \ {0}
  BY <1>2, <1>3, ProductPositive
<1> QED BY <1>1, <1>2, <1>3, <1>4

\* BestFit returns a size that can be reached with the GPUs at hand.
LEMMA BestFitBounds ==
  ASSUME NEW cur \in Nat \ {0}, NEW gpus \in Nat, NEW d \in BestFit(cur, gpus)
  PROVE  d \in Nat \ {0} /\ d >= cur /\ (d - cur) * ActorMP <= gpus
<1>1. CASE d \in ValidDpSizes /\ d > cur /\ (d - cur) * ActorMP <= gpus
  BY <1>1, ValidDpAssumption
<1>2. CASE d = cur
  <2>1. (d - cur) * ActorMP = 0
    BY <1>2, SizesAssumption
  <2> QED BY <1>2, <2>1
<1> QED BY <1>1, <1>2 DEF BestFit

\* Either branch of ActorAllocate leaves the actor with d instances.
LEMMA IncrementTo ==
  ASSUME IInv, NEW d \in Nat \ {0}, NEW used,
         StateUpdate("actor",
               IF d - mgr["actor"].inst = 0 THEN mgr["actor"]
               ELSE Increment("actor", d - mgr["actor"].inst), 0, used)
  PROVE  \E o \in Int : mgr' = [mgr EXCEPT !["actor"] =
                                   [inst |-> d, gpu |-> d * ActorMP, offset |-> o]]
<1>1. mgr["actor"] \in [inst : Nat, gpu : Nat, offset : Int]
  BY DEF IInv, TypeOK, Components
<1>2. CASE d - mgr["actor"].inst = 0
  <2>1. d = mgr["actor"].inst
    BY <1>1, <1>2
  <2>2. mgr["actor"] = [inst |-> d, gpu |-> d * ActorMP, offset |-> mgr["actor"].offset]
    BY <1>1, <2>1, ActorCount
  <2> QED BY <1>1, <1>2, <2>2 DEF StateUpdate
<1>3. CASE d - mgr["actor"].inst # 0
  <2>1. mgr["actor"].inst + (d - mgr["actor"].inst) = d
    BY <1>1
  <2>2. Increment("actor", d - mgr["actor"].inst)
          = [inst |-> d, gpu |-> d * ActorMP,
             offset |-> mgr["actor"].offset - (d - mgr["actor"].inst)]
    BY <2>1, Sizes DEF Increment
  <2>3. mgr["actor"].offset - (d - mgr["actor"].inst) \in Int
    BY <1>1
  <2>4. mgr' = [mgr EXCEPT !["actor"] = Increment("actor", d - mgr["actor"].inst)]
    BY <1>3 DEF StateUpdate
  <2> QED BY <2>2, <2>3, <2>4
<1> QED BY <1>2, <1>3

\* allocate_resource: the actor takes what is available, or nothing.
LEMMA ActorAllocateStep == ASSUME IInv, ActorAllocate PROVE IInv'
<1>1. CASE ~AllocateAsserts
  <2>1. /\ pc = "actor" /\ pc' = "failed"
        /\ UNCHANGED <<iter, mgr, seen, available, actorReq>>
        /\ UNCHANGED <<report, finishing, rollout, inference, trainer, actorResp>>
    BY <1>1 DEF ActorAllocate, AssertThen, ledger
  <2>2. TypeOK'
    BY <2>1 DEF IInv, TypeOK, report, rollout, inference, trainer
  <2>3. PhaseInv' /\ FinishInv' /\ SeenInv'
    BY <2>1 DEF IInv, PhaseInv, FinishInv, SeenInv, Turn, PreProcessing
  <2>4. Lockstep'
    BY <2>1 DEF IInv, Lockstep, Idle, trainer
  <2>5. InMainLoop' => InMainLoop
    BY <2>1 DEF InMainLoop, LastIter
  <2> QED BY <2>1, <2>2, <2>3, <2>4, <2>5, SchedulerFrame
<1>2. CASE AllocateAsserts
  <2>1. PICK d \in BestFit(mgr["actor"].inst, available) :
          /\ actorReq' = Append(actorReq, ScaleMessage(d * ActorMP))
          /\ StateUpdate("actor",
               IF d - mgr["actor"].inst = 0 THEN mgr["actor"]
               ELSE Increment("actor", d - mgr["actor"].inst),
               0, (d - mgr["actor"].inst) * ActorMP)
    BY <1>2 DEF ActorAllocate
  <2>2. /\ pc = "actor" /\ pc' = "waitActor" /\ ~LastIter /\ iter' = iter + 1
        /\ UNCHANGED <<report, finishing, rollout, inference, trainer, actorResp>>
    BY <1>2 DEF ActorAllocate, AssertThen
  <2>3. /\ d \in Nat \ {0} /\ d >= mgr["actor"].inst
        /\ (d - mgr["actor"].inst) * ActorMP <= available
        /\ available \in Nat
    <3>1. available \in Nat
      BY DEF IInv, TypeOK
    <3> QED BY <3>1, ActorCount, BestFitBounds
  <2>4. /\ (d - mgr["actor"].inst) * ActorMP = d * ActorMP - mgr["actor"].gpu
        /\ d * ActorMP \in Nat \ {0}
    <3>1. (d - mgr["actor"].inst) * ActorMP = d * ActorMP - mgr["actor"].inst * ActorMP
      BY <2>3, ActorCount, Distribute, SizesAssumption
    <3>2. d * ActorMP \in Nat \ {0}
      BY <2>3, ProductPositive, SizesAssumption
    <3> QED BY <3>1, <3>2, ActorCount
  <2>5. PICK o \in Int : mgr' = [mgr EXCEPT !["actor"] =
                                   [inst |-> d, gpu |-> d * ActorMP, offset |-> o]]
    BY <2>1, <2>3, ActorCount, IncrementTo
  <2>6. /\ seen' = [seen EXCEPT !["actor"] = d]
        /\ available' = available + 0 - (d - mgr["actor"].inst) * ActorMP
    <3>1. mgr'["actor"].inst = d
      BY <2>5 DEF IInv, TypeOK, Components
    <3>2. \A m : StateUpdate("actor", m, 0, (d - mgr["actor"].inst) * ActorMP)
             => /\ mgr' = [mgr EXCEPT !["actor"] = m]
                /\ seen' = [seen EXCEPT !["actor"] = m.inst]
                /\ available' = available + 0 - (d - mgr["actor"].inst) * ActorMP
      BY DEF StateUpdate
    <3>3. \A m : mgr' = [mgr EXCEPT !["actor"] = m] => m = mgr'["actor"]
      BY DEF IInv, TypeOK, Components
    <3> QED BY <2>1, <3>1, <3>2, <3>3
  <2>7. PICK g \in Nat \ {0} : g = d * ActorMP
    BY <2>4
  <2>8. available' = available - (g - mgr["actor"].gpu) /\ g - mgr["actor"].gpu <= available
    <3>1. /\ available \in Nat /\ g \in Nat /\ mgr["actor"].gpu \in Nat
          /\ (d - mgr["actor"].inst) * ActorMP = g - mgr["actor"].gpu
      BY <2>3, <2>4, <2>7, ActorCount
    <3> QED BY <2>3, <2>6, <3>1
  <2>9. available + mgr["actor"].gpu = Reach
    <3>1. iter >= 0
      BY <2>2 DEF IInv, PhaseInv, Turn
    <3> QED BY <2>2, <3>1 DEF IInv, ReachInv, InMainLoop
  <2>10. available' \in Nat /\ available' + g = Reach /\ g <= Reach
    BY <2>3, <2>8, <2>9, ActorCount, ReachInt
  <2>11. /\ mgr'["actor"] = [inst |-> d, gpu |-> g, offset |-> o]
         /\ mgr'["rollout"] = mgr["rollout"] /\ mgr'["inference"] = mgr["inference"]
         /\ mgr' \in [Components -> [inst : Nat, gpu : Nat, offset : Int]]
    BY <2>3, <2>5, <2>7 DEF IInv, TypeOK, Components
  <2>12. /\ seen' \in [Components -> Nat] /\ seen'["rollout"] = seen["rollout"]
    BY <2>3, <2>6 DEF IInv, TypeOK, Components
  <2>13. iter # -1 /\ iter' # -1
    BY <2>2 DEF IInv, PhaseInv, Turn, TypeOK
  <2>14. LedgerShape'
    BY <2>3, <2>7, <2>11, <2>13, ActorCount, Sizes DEF IInv, LedgerShape, Components
  <2> HIDE DEF Policies
  <2>15. mgr'["actor"].gpu = g /\ actorReq' = Append(actorReq, ScaleMessage(g))
    BY <2>1, <2>7, <2>11
  <2> QED BY <2>2, <2>10, <2>11, <2>12, <2>14, <2>15, ActorResized
<1> QED BY <1>1, <1>2

\* main_loop_finalize: the actor returns to its initial size.
LEMMA ActorFinalizeStep == ASSUME IInv, ActorFinalize PROVE IInv'
<1>1. /\ pc = "actor" /\ pc' = "done" /\ LastIter /\ iter' = iter
      /\ actorReq' = Append(actorReq, ScaleMessage(ActorGpus))
      /\ UNCHANGED <<report, finishing, rollout, inference, trainer, actorResp>>
  BY DEF ActorFinalize
<1>2. /\ mgr["actor"].inst \in Nat \ {0} /\ mgr["actor"].inst >= ActorDp
      /\ mgr["actor"].gpu = mgr["actor"].inst * ActorMP
      /\ mgr["actor"].gpu \in Nat \ {0} /\ mgr["actor"].offset \in Int
  BY ActorCount
<1>3. StateUpdate("actor", Release("actor", mgr["actor"].inst - ActorDp), 0, 0)
  BY <1>2 DEF ActorFinalize
<1>4. Release("actor", mgr["actor"].inst - ActorDp)
        = [inst |-> ActorDp, gpu |-> ActorGpus,
           offset |-> mgr["actor"].offset + (mgr["actor"].inst - ActorDp)]
  <2>1. mgr["actor"].inst - (mgr["actor"].inst - ActorDp) = ActorDp
    BY <1>2, SizesAssumption
  <2>2. (mgr["actor"].inst - ActorDp) * ActorMP = mgr["actor"].inst * ActorMP - ActorGpus
    BY <1>2, Distribute, SizesAssumption DEF ActorGpus
  <2>3. ActorGpus \in Nat
    BY Sizes
  <2>4. mgr["actor"].gpu - (mgr["actor"].inst - ActorDp) * ActorMP = ActorGpus
    BY <1>2, <2>2, <2>3
  <2> QED BY <2>1, <2>4, Sizes DEF Release
<1>5. PICK o \in Int : mgr' = [mgr EXCEPT !["actor"] =
                           [inst |-> ActorDp, gpu |-> ActorGpus, offset |-> o]]
  <2>1. mgr["actor"].offset + (mgr["actor"].inst - ActorDp) \in Int
    BY <1>2, SizesAssumption
  <2>2. mgr' = [mgr EXCEPT !["actor"] = Release("actor", mgr["actor"].inst - ActorDp)]
    BY <1>3 DEF StateUpdate
  <2> QED BY <1>4, <2>1, <2>2
<1>6. seen' = [seen EXCEPT !["actor"] = ActorDp]
  <2>1. seen' = [seen EXCEPT !["actor"] = Release("actor", mgr["actor"].inst - ActorDp).inst]
    BY <1>3 DEF StateUpdate
  <2>2. Release("actor", mgr["actor"].inst - ActorDp).inst = ActorDp
    BY <1>4
  <2> QED BY <2>1, <2>2, Zenon
<1>7. available' = available /\ available \in Nat
  <2>1. available' = available + 0 - 0 /\ available \in Nat
    BY <1>3 DEF StateUpdate, IInv, TypeOK
  <2> QED BY <2>1
<1>8. ActorGpus \in Nat \ {0} /\ ActorDp \in Nat
  BY Sizes, SizesAssumption
<1>9. /\ mgr'["actor"] = [inst |-> ActorDp, gpu |-> ActorGpus, offset |-> o]
      /\ mgr'["rollout"] = mgr["rollout"] /\ mgr'["inference"] = mgr["inference"]
      /\ mgr' \in [Components -> [inst : Nat, gpu : Nat, offset : Int]]
  BY <1>5, <1>8 DEF IInv, TypeOK, Components
<1>10. seen' \in [Components -> Nat] /\ seen'["rollout"] = seen["rollout"]
  BY <1>6, <1>8 DEF IInv, TypeOK, Components
<1>11. iter # -1 /\ iter' # -1
  BY <1>1 DEF IInv, PhaseInv, Turn, TypeOK
<1>12. LedgerShape'
  <2>1. ActorGpus = ActorDp * ActorMP /\ MP["actor"] = ActorMP /\ ActorDp >= ActorDp
    BY Sizes, SizesAssumption DEF ActorGpus
  <2> QED BY <1>9, <1>11, <2>1 DEF IInv, LedgerShape, Components
<1>13. ActorGpus <= Reach
  <2>1. ActorGpus <= mgr["actor"].gpu
    BY <1>2, Monotone, SizesAssumption DEF ActorGpus
  <2>2. mgr["actor"].gpu <= Reach
    BY <1>1 DEF IInv, PhaseInv, Turn, ReachInv
  <2> QED BY <1>2, <1>8, <2>1, <2>2, ReachInt
<1>14. mgr'["actor"].gpu = ActorGpus /\ mgr'["actor"].inst = ActorDp
  BY <1>9
<1> QED BY <1>1, <1>7, <1>8, <1>9, <1>10, <1>12, <1>13, <1>14, ActorResized

\* The same for the values they take when a new global step begins.
LEMMA StepBooleans ==
  ASSUME infHeld' = (InferenceDp > 0), actorLoaded' = ~WorkerUsePre
  PROVE  /\ infHeld' \in BOOLEAN /\ actorLoaded' \in BOOLEAN
         /\ infHeld' => InferenceDp > 0
         /\ WorkerUsePre => ~actorLoaded'
<1>1. infHeld' \in BOOLEAN
  OBVIOUS
<1>2. actorLoaded' \in BOOLEAN
  OBVIOUS
<1>3. infHeld' => InferenceDp > 0
  OBVIOUS
<1>4. WorkerUsePre => ~actorLoaded'
  OBVIOUS
<1> QED BY <1>1, <1>2, <1>3, <1>4

(* The next global step, and stuttering. *)

\* The trainer is back home, so the next global step starts like the first.
LEMMA NextGlobalStepStep == ASSUME IInv, NextGlobalStep PROVE IInv'
<1> USE DEF IInv
<1>a. /\ infHeld' \in BOOLEAN /\ actorLoaded' \in BOOLEAN
      /\ infHeld' => InferenceDp > 0
      /\ WorkerUsePre => ~actorLoaded'
  <2>1. infHeld' = (InferenceDp > 0) /\ actorLoaded' = ~WorkerUsePre
    BY Zenon DEF NextGlobalStep, HasInference
  <2> QED BY <2>1, StepBooleans, Zenon
<1>b. /\ pc = "done" /\ apc = "done" /\ pc' = "begin" /\ iter' = -1
      /\ high' = 0 /\ complete' = FALSE /\ finishing' = 0
      /\ started' = FALSE
      /\ gen' = TotalTasks /\ left' = TotalTasks /\ held' = Instances
      /\ infLeft' = TotalTasks
      /\ apc' = FirstTrainerStep /\ actorIter' = 0
      /\ UNCHANGED <<mgr, seen, available, actorWorld, actorReq, actorResp>>
  BY Zenon DEF NextGlobalStep, ledger
<1>1. TypeOK'
  <2>1. /\ high' \in 0 .. TotalTasks /\ complete' \in BOOLEAN
        /\ finishing' \in 0 .. InitInst["rollout"] /\ started' \in BOOLEAN
    <3> HIDE DEF IInv
    <3>1. high' \in 0 .. TotalTasks BY <1>b, SizesAssumption
    <3>2. complete' \in BOOLEAN BY <1>b
    <3>3. finishing' \in 0 .. InitInst["rollout"] BY <1>b, Sizes
    <3>4. started' \in BOOLEAN BY <1>b
    <3> QED BY <3>1, <3>2, <3>3, <3>4
  <2>2. gen' \in 0 .. TotalTasks
    BY <1>b, SizesAssumption
  <2>3. left' \in gen' .. TotalTasks
    BY <1>b, SizesAssumption
  <2>4. held' \subseteq Instances /\ infLeft' \in 0 .. TotalTasks
    BY <1>b, SizesAssumption
  <2>5. /\ apc' \in {"pre", "train", "sync", "done"}
        /\ actorIter' \in 0 .. NMinibatches
        /\ iter' \in -1 .. NMinibatches - 1
    BY <1>b, SizesAssumption DEF FirstTrainerStep
  <2>6. /\ mgr' \in [Components -> [inst : Nat, gpu : Nat, offset : Int]]
        /\ seen' \in [Components -> Nat] /\ available' \in Nat
        /\ actorWorld' \in Nat /\ actorReq' \in Seq(Nat) /\ actorResp' \in Nat
    BY <1>b DEF TypeOK
  <2>7. pc' \in {"begin", "preReport", "preGather", "preOthers", "waitActor",
             "rollout", "gather", "finish", "inference", "actor", "done",
             "failed"}
    BY <1>b
  <2> QED BY <1>a, <2>1, <2>2, <2>3, <2>4, <2>5, <2>6, <2>7 DEF TypeOK
<1>2. mgr["actor"].inst = ActorDp
  BY <1>b DEF PhaseInv
<1>3. LedgerShape'
  BY <1>b, <1>2 DEF LedgerShape, Components
<1>4. PhaseInv' /\ FinishInv' /\ HeldInv' /\ SeenInv'
  BY <1>b DEF PhaseInv, FinishInv, HeldInv, SeenInv, Turn, PreProcessing
<1>5. InferenceInv'
  BY <1>a, <1>b, SizesAssumption DEF InferenceInv
<1>6. actorReq = <<>> /\ actorResp = 0 /\ actorWorld = ActorGpus
  <2>1. mgr["actor"].gpu = ActorGpus
    BY <1>2, ActorCount DEF ActorGpus
  <2> QED BY <1>b, <2>1 DEF Lockstep, Idle
<1>7. Lockstep'
  <2>1. /\ WorkerUsePre => apc' = "pre"
        /\ ~WorkerUsePre => apc' = "train"
    BY <1>b DEF FirstTrainerStep
  <2> QED BY <1>a, <1>b, <1>6, <2>1 DEF Lockstep
<1>8. ReachInv'
  BY <1>b DEF ReachInv, InMainLoop
<1> QED BY <1>1, <1>3, <1>4, <1>5, <1>7, <1>8

\* A stuttering step keeps the invariant.
LEMMA Stutter == ASSUME IInv, UNCHANGED vars PROVE IInv'
<1>1. UNCHANGED <<pc, iter, mgr, seen, available, high, complete, finishing,
                  started, gen, left, held, infLeft, infHeld, apc, actorIter,
                  actorWorld, actorLoaded, actorReq, actorResp>>
  BY DEF vars, sched, ledger, report, rollout, inference, trainer
<1>2. TypeOK'
  BY <1>1 DEF IInv, TypeOK
<1>3. LedgerShape' /\ PhaseInv' /\ FinishInv' /\ HeldInv'
  BY <1>1 DEF IInv, LedgerShape, PhaseInv, FinishInv, HeldInv, LastIter, BeforeLastIter
<1>4. SeenInv' /\ InferenceInv'
  BY <1>1 DEF IInv, SeenInv, InferenceInv, BeforeLastIter
<1>5. Lockstep'
  BY <1>1 DEF IInv, Lockstep, Idle, NewWorld
<1>6. ReachInv'
  BY <1>1 DEF IInv, ReachInv, Reach, InMainLoop, LastIter
<1> QED BY <1>2, <1>3, <1>4, <1>5, <1>6 DEF IInv

\* The invariant is inductive.
LEMMA NextIInv == ASSUME Policies, IInv, [Next]_vars PROVE IInv'
<1>1. CASE NextGlobalStep   BY <1>1, NextGlobalStepStep
<1>2. CASE RolloutPreProcess BY <1>2, Begin
<1>3. CASE PreReport        BY <1>3, PreReportStep
<1>4. CASE PreGather        BY <1>4, PreGatherStep
<1>5. CASE PreOthers        BY <1>5, PreOthersStep
<1>6. CASE WaitForActorUpdate BY <1>6, WaitForActorUpdateStep
<1>7. CASE RolloutRelease   BY <1>7, RolloutReleaseStep
<1>8. CASE RolloutGather    BY <1>8, RolloutGatherStep
<1>9. CASE InferenceRelease BY <1>9, InferenceReleaseStep
<1>10. CASE ActorAllocate   BY <1>10, ActorAllocateStep
<1>11. CASE ActorFinalize   BY <1>11, ActorFinalizeStep
<1>12. CASE FinishGathered  BY <1>12, FinishGatheredStep
<1>13. CASE RolloutWorkers \/ (\E i \in Instances : Offload(i)) \/ InferenceWorker
  BY <1>13, WorkerStep
<1>14. CASE Trainer         BY <1>14, TrainerStep
<1>15. CASE UNCHANGED vars  BY <1>15, Stutter
<1> QED BY <1>1, <1>2, <1>3, <1>4, <1>5, <1>6, <1>7, <1>8, <1>9, <1>10, <1>11,
           <1>12, <1>13, <1>14, <1>15 DEF Next, Scheduler

\* The inductive invariant holds in every reachable state: managers, messages
\* and workers are where the scheduling rounds put them.
THEOREM Invariance == ASSUME Policies PROVE Spec => []IInv
<1>1. Init => IInv
  BY InitIInv
<1>2. IInv /\ [Next]_vars => IInv'
  BY NextIInv
<1> QED BY <1>1, <1>2, PTL DEF Spec

\* Where the GPUs that are still held begin, seen from the trainer.
LEMMA HeldAbove ==
  ASSUME IInv, actorLoaded, NEW i \in held
  PROVE  actorWorld <= RolloutBase + i * RolloutMP
<1> DEFINE from == mgr["rollout"].offset
<1>1. /\ i \in Nat /\ i < InitInst["rollout"] /\ RolloutMP \in Nat \ {0}
      /\ InitInst["rollout"] \in Nat /\ RolloutBase \in Nat /\ actorWorld \in Nat
  BY Sizes, SizesAssumption DEF IInv, TypeOK, Instances
<1>2. i * RolloutMP \in Nat
  BY <1>1, ProductNat
<1>3. iter = -1 \/ iter >= 0
  BY SizesAssumption DEF IInv, TypeOK
<1>4. CASE iter = -1
  <2>1. ~WorkerUsePre /\ actorWorld = ActorGpus
    BY <1>4 DEF IInv, Lockstep
  <2>2. RolloutBase = actorWorld
    BY <2>1, Sizes
  <2> QED BY <1>1, <1>2, <2>2
<1>5. CASE iter >= 0
  <2>1. from <= i /\ from \in Nat /\ mgr["rollout"].inst + from = InitInst["rollout"]
        /\ mgr["rollout"].inst \in Nat
    <3>1. pc # "begin"
      BY <1>5 DEF IInv, PhaseInv, PreProcessing
    <3>2. mgr["rollout"].inst \in Nat
      BY DEF IInv, TypeOK, Components
    <3> QED BY <3>1, <3>2 DEF IInv, HeldInv, LedgerShape
  <2>2. mgr["inference"].inst = InferenceDp
    <3>1. mgr["rollout"].inst # 0
      BY <1>1, <2>1
    <3> QED BY <1>5, <3>1 DEF IInv, InferenceInv
  <2>3. Reach = RolloutBase + from * RolloutMP
    BY <1>1, <2>1, <2>2, ProductNat, SizesAssumption DEF Reach
  <2>4. actorWorld <= Reach
    BY <1>5 DEF IInv, ReachInv
  <2>5. from * RolloutMP <= i * RolloutMP /\ from * RolloutMP \in Nat
    BY <1>1, <2>1, Monotone, ProductNat
  <2> HIDE DEF from
  <2> QED BY <1>1, <1>2, <2>3, <2>4, <2>5
<1> QED BY <1>3, <1>4, <1>5

\* The inference worker's GPUs begin beyond the trainer's.
LEMMA InferenceAbove ==
  ASSUME IInv, infHeld, actorLoaded
  PROVE  actorWorld <= TotalGpus - InferenceDp * InferenceMP
<1> DEFINE from == mgr["rollout"].offset
<1> DEFINE all == InitInst["rollout"] * RolloutMP
<1> DEFINE inf == InferenceDp * InferenceMP
<1>1. /\ all \in Nat /\ inf \in Nat /\ RolloutBase \in Nat /\ actorWorld \in Nat
      /\ TotalGpus = RolloutBase + all + inf
  BY Sizes, SizesAssumption, ProductNat DEF IInv, TypeOK
<1>2. iter = -1 \/ iter >= 0
  BY SizesAssumption DEF IInv, TypeOK
<1>3. CASE iter = -1
  <2>1. ~WorkerUsePre /\ actorWorld = ActorGpus
    BY <1>3 DEF IInv, Lockstep
  <2>2. RolloutBase = actorWorld
    BY <2>1, Sizes
  <2> HIDE DEF all, inf
  <2>3. RolloutBase <= TotalGpus - inf
    BY <1>1
  <2> QED BY <2>2, <2>3 DEF inf
<1>4. CASE iter >= 0
  <2>1. mgr["inference"].inst = InferenceDp
    BY <1>4 DEF IInv, InferenceInv
  <2>2. from \in Nat /\ from <= InitInst["rollout"] /\ InitInst["rollout"] \in Nat
    <3>1. mgr["rollout"].inst \in Nat
      BY DEF IInv, TypeOK, Components
    <3> QED BY <3>1, Sizes DEF IInv, LedgerShape
  <2>3. Reach = RolloutBase + from * RolloutMP
    BY <1>1, <2>1, <2>2, ProductNat, SizesAssumption DEF Reach
  <2>4. actorWorld <= Reach
    BY <1>4 DEF IInv, ReachInv
  <2>5. from * RolloutMP <= all /\ from * RolloutMP \in Nat
    BY <2>2, Monotone, ProductNat, SizesAssumption
  <2> HIDE DEF from, all, inf
  <2>6. actorWorld <= TotalGpus - inf
    BY <1>1, <2>3, <2>4, <2>5
  <2> QED BY <2>6 DEF inf
<1> QED BY <1>2, <1>3, <1>4

(* What the invariant implies. *)

\* Trainer's GPUs lie below everything that is still held.
LEMMA IInvExclusive == ASSUME IInv PROVE GpusExclusive
<1>1. ASSUME NEW i \in held, NEW g \in ActorHolds, g \in InstanceHolds(i) PROVE FALSE
  <2>1. actorLoaded /\ g \in 0 .. actorWorld - 1
    BY <1>1 DEF ActorHolds
  <2>2. actorWorld <= RolloutBase + i * RolloutMP
    BY <2>1, HeldAbove
  <2>3. i \in Nat /\ RolloutMP \in Nat /\ RolloutBase \in Nat /\ actorWorld \in Nat
    BY Sizes, SizesAssumption DEF IInv, TypeOK, Instances
  <2>4. i * RolloutMP \in Nat
    BY <2>3, ProductNat
  <2>5. g >= RolloutBase + i * RolloutMP
    BY <1>1, <2>1 DEF InstanceHolds
  <2> QED BY <2>1, <2>2, <2>3, <2>4, <2>5
<1>2. ASSUME NEW g \in ActorHolds, g \in InferenceHolds PROVE FALSE
  <2>1. actorLoaded /\ g \in 0 .. actorWorld - 1 /\ actorWorld \in Nat
    BY <1>2 DEF ActorHolds, IInv, TypeOK
  <2>2. infHeld /\ g >= TotalGpus - InferenceDp * InferenceMP
    BY <1>2, <2>1 DEF InferenceHolds
  <2>3. actorWorld <= TotalGpus - InferenceDp * InferenceMP
    BY <2>1, <2>2, InferenceAbove
  <2>4. TotalGpus \in Nat /\ InferenceDp * InferenceMP \in Nat
    BY Sizes, SizesAssumption, ProductNat
  <2> QED BY <2>1, <2>2, <2>3, <2>4
<1> QED BY <1>1, <1>2 DEF GpusExclusive

\* The counts of the ledger add up to the length of the cluster.
LEMMA IInvConserved == ASSUME IInv PROVE GpusConserved
<1> SUFFICES ASSUME InMainLoop
             PROVE  available + mgr["actor"].gpu + mgr["rollout"].gpu
                      + mgr["inference"].gpu = TotalGpus
  BY DEF GpusConserved
<1> DEFINE from == mgr["rollout"].offset
<1> DEFINE inst == mgr["rollout"].inst
<1> DEFINE given == (InferenceDp - mgr["inference"].inst) * InferenceMP
<1>1. /\ inst \in Nat /\ from \in Nat /\ inst + from = InitInst["rollout"]
      /\ mgr["inference"].inst \in Nat /\ mgr["inference"].gpu \in Nat
      /\ mgr["rollout"].gpu = inst * RolloutMP
      /\ mgr["inference"].gpu = mgr["inference"].inst * InferenceMP
      /\ available \in Nat /\ mgr["actor"].gpu \in Nat
  BY Sizes DEF IInv, TypeOK, LedgerShape, Components
<1>2. InitInst["rollout"] * RolloutMP = inst * RolloutMP + from * RolloutMP
  BY <1>1, Distribute, SizesAssumption
<1>3. given = InferenceDp * InferenceMP - mgr["inference"].inst * InferenceMP
  BY <1>1, Distribute, SizesAssumption
<1>4. available + mgr["actor"].gpu = RolloutBase + from * RolloutMP + given
  BY DEF IInv, ReachInv, Reach
<1>5. /\ inst * RolloutMP \in Nat /\ from * RolloutMP \in Nat
      /\ InferenceDp * InferenceMP \in Nat
      /\ mgr["inference"].inst * InferenceMP \in Nat /\ RolloutBase \in Nat
  BY <1>1, ProductNat, SizesAssumption, Sizes
<1>6. TotalGpus = RolloutBase + InitInst["rollout"] * RolloutMP
                   + InferenceDp * InferenceMP
  BY Sizes
<1> QED
  <2> DEFINE a == inst * RolloutMP
  <2> DEFINE b == from * RolloutMP
  <2> DEFINE c == InferenceDp * InferenceMP
  <2> DEFINE d == mgr["inference"].inst * InferenceMP
  <2>1. /\ a \in Nat /\ b \in Nat /\ c \in Nat /\ d \in Nat
        /\ mgr["rollout"].gpu = a /\ mgr["inference"].gpu = d
        /\ given = c - d /\ TotalGpus = RolloutBase + (a + b) + c
        /\ available + mgr["actor"].gpu = RolloutBase + b + given
    BY <1>1, <1>2, <1>3, <1>4, <1>5, <1>6
  <2> HIDE DEF a, b, c, d, given
  <2> QED BY <1>1, <1>5, <2>1

\* Every variable keeps its type.
THEOREM Typed == ASSUME Policies PROVE Spec => []TypeOK
<1>1. IInv => TypeOK
  BY DEF IInv
<1> QED BY <1>1, Invariance, PTL

\* Whatever the sizes of the components and the valid data-parallel sizes:
\* the trainer never occupies a GPU that a rollout engine or the inference
\* worker occupies, when the wait policy is on or there is no inference, and
\* everyone reads the same use_pre_process_policy.  (Without the first
\* condition run no_wait_overlap refutes it.)
THEOREM Exclusive == ASSUME Policies PROVE Spec => []GpusExclusive
<1>1. IInv => GpusExclusive
  BY IInvExclusive
<1> QED BY <1>1, Invariance, PTL

\* The ledger of RolloutManager, InferenceManager and ActorManager plus
\* available_gpu_num always adds up to the cluster.
THEOREM Conserved == ASSUME Policies PROVE Spec => []GpusConserved
<1>1. IInv => GpusConserved
  BY IInvConserved
<1> QED BY <1>1, Invariance, PTL

\* When the trainer computes, it runs at the size the ActorManager believes.
THEOREM Agreement == ASSUME Policies PROVE Spec => []TrainerAgrees
<1>1. IInv => TrainerAgrees
  BY DEF IInv, Lockstep, TrainerAgrees
<1> QED BY <1>1, Invariance, PTL

\* The trainer has been told to scale down, and has done so, when a global
\* step is over.
THEOREM ScaledDown == ASSUME Policies PROVE Spec => []ScaledDownAtEnd
<1>1. ASSUME IInv, pc = "done", apc = "done" PROVE actorWorld = ActorGpus
  <2>1. actorWorld = mgr["actor"].gpu /\ mgr["actor"].inst = ActorDp
    BY <1>1 DEF IInv, Lockstep, PhaseInv
  <2> QED BY <1>1, <2>1, ActorCount DEF ActorGpus
<1>2. IInv => ScaledDownAtEnd
  BY <1>1 DEF ScaledDownAtEnd
<1> QED BY <1>2, Invariance, PTL

-----------------------------------------------------------------------------
(***************************************************************************)
(* How a global step of DynScheduler ends: EInv (DynSchedulerInv) is        *)
(* inductive on top of IInv.  No assertion of the managers fails, and with  *)
(* the wait policy the last iteration has the whole cluster.                *)
(***************************************************************************)

(* Arithmetic of rounding up. *)

\* A positive number of requests needs at least one instance.
LEMMA CeilDivPositive ==
  ASSUME NEW a \in Nat \ {0}, NEW b \in Nat \ {0} PROVE CeilDiv(a, b) >= 1
<1>1. a + b - 1 \in Nat /\ a + b - 1 >= b
  OBVIOUS
<1> DEFINE q == (a + b - 1) \div b
<1>2. q \in Int /\ a + b - 1 < b * (q + 1)
  BY <1>1
<1>3. q >= 1
  BY <1>1, <1>2
<1> QED BY <1>3 DEF CeilDiv

\* What fits into n instances is not rounded up beyond n.
LEMMA CeilDivBounded ==
  ASSUME NEW a \in Nat, NEW b \in Nat \ {0}, NEW n \in Nat, a <= n * b
  PROVE  CeilDiv(a, b) \in Nat /\ CeilDiv(a, b) <= n
<1> DEFINE q == (a + b - 1) \div b
<1>1. a + b - 1 \in Nat
  OBVIOUS
<1>2. q \in Nat /\ b * q <= a + b - 1
  BY <1>1
<1>3. q <= n
  <2>1. SUFFICES ASSUME q >= n + 1 PROVE FALSE
    BY <1>2
  <2>2. (n + 1) * b <= q * b
    BY <1>2, <2>1, Monotone
  <2>3. (n + 1) * b = n * b + b
    BY Distribute
  <2>4. n * b \in Nat /\ q * b \in Nat /\ q * b = b * q
    BY <1>2, ProductNat
  <2> QED BY <1>2, <2>2, <2>3, <2>4
<1> QED BY <1>2, <1>3 DEF CeilDiv

(* The initial states, and the steps of the workers. *)

\* The two sides of LoadedInv when a global step begins.
LEMMA FirstLoaded ==
  ASSUME NEW a, NEW l, a = FirstTrainerStep, l = ~WorkerUsePre
  PROVE  l <=> a # "pre"
<1>1. CASE WorkerUsePre
  <2>1. a = "pre"
    BY <1>1 DEF FirstTrainerStep
  <2> QED BY <1>1, <2>1
<1>2. CASE ~WorkerUsePre
  <2>1. a = "train"
    BY <1>2 DEF FirstTrainerStep
  <2> QED BY <1>2, <2>1
<1> QED BY <1>1, <1>2

\* EInv holds when the first global step begins.
LEMMA InitEInv == ASSUME Init PROVE EInv
<1>1. /\ pc = "begin" /\ iter = -1 /\ seen = InitInst
      /\ mgr = [c \in Components |-> Fresh(c)]
      /\ apc = FirstTrainerStep /\ actorLoaded = ~WorkerUsePre
  BY Zenon DEF Init
<1>2. mgr["actor"].inst = ActorDp /\ seen["actor"] = ActorDp
  BY <1>1, Sizes DEF Components, Fresh
<1>3. SizeInv
  BY <1>1, <1>2, ValidDpAssumption DEF SizeInv
<1>4. LeaveInv /\ WaitInv
  BY <1>1, SizesAssumption DEF LeaveInv, WaitInv, LastIter
<1>5. LoadedInv
  BY <1>1, FirstLoaded, Zenon DEF LoadedInv
<1> QED BY <1>3, <1>4, <1>5 DEF EInv

\* What leaves the scheduler alone and takes no GPU.
LEMMA EWorkers ==
  ASSUME EInv, UNCHANGED sched, infHeld' => infHeld, LoadedInv'
  PROVE  EInv'
<1> USE DEF sched, ledger, EInv
<1>1. SizeInv'
  BY DEF SizeInv
<1>2. LeaveInv'
  BY DEF LeaveInv, LastIter
<1>3. WaitInv'
  BY DEF WaitInv, LastIter, BeforeLastIter
<1> QED BY <1>1, <1>2, <1>3

\* Every step of a rollout instance, the inference worker or the trainer.
LEMMA EWorkerStep ==
  ASSUME IInv, EInv,
         \/ RolloutWorkers \/ InferenceWorker \/ Trainer
         \/ \E i \in Instances : Offload(i)
  PROVE  EInv'
<1> USE DEF EInv, LoadedInv
<1>1. CASE RolloutWorkers \/ \E i \in Instances : Offload(i)
  <2>1. UNCHANGED <<sched, infHeld, apc, actorLoaded>>
    BY <1>1 DEF RolloutWorkers, AllStarted, SequenceDone, Deliver, Offload, inference, trainer
  <2> QED BY <2>1, EWorkers
<1>2. CASE InferenceWorker
  <2>1. UNCHANGED <<sched, apc, actorLoaded>> /\ (infHeld' => infHeld)
    BY <1>2 DEF InferenceWorker, Infer, InferenceOffload, trainer
  <2> QED BY <2>1, EWorkers
<1>3. CASE ActorPreProcess
  <2>1. UNCHANGED <<sched, infHeld>> /\ apc' = "train" /\ actorLoaded' = TRUE
    BY <1>3 DEF ActorPreProcess, inference
  <2> QED BY <2>1, EWorkers
<1>4. CASE TrainStep
  <2>1. UNCHANGED <<sched, infHeld, actorLoaded>> /\ apc = "train" /\ apc' = "sync"
    BY <1>4 DEF TrainStep, inference
  <2> QED BY <2>1, EWorkers
<1>5. CASE ScaleSync
  <2>1. UNCHANGED <<sched, infHeld, actorLoaded>> /\ apc = "sync" /\ apc' \in {"train", "done"}
    BY <1>5 DEF ScaleSync, inference
  <2> QED BY <2>1, EWorkers
<1> QED BY <1>1, <1>2, <1>3, <1>4, <1>5 DEF Trainer

(* The turns of the scheduler. *)

\* A step of the scheduler that leaves the actor's size and the iteration.
LEMMA EFrame ==
  ASSUME EInv, pc' # "failed",
         UNCHANGED <<iter, infHeld, apc, actorLoaded>>,
         mgr'["actor"].inst = mgr["actor"].inst, mgr'["actor"].gpu = mgr["actor"].gpu,
         seen'["actor"] = seen["actor"],
         LeaveInv',
         UseWait /\ BeforeLastIter /\ pc' = "actor"
           => mgr'["rollout"].inst = 0 /\ mgr'["inference"].inst = 0,
         NMinibatches > 1 /\ LastIter /\ pc = "done" => pc' = "done"
  PROVE  EInv'
<1> USE DEF EInv
<1>1. SizeInv'
  BY DEF SizeInv
<1>2. WaitInv'
  BY DEF WaitInv, LastIter, BeforeLastIter
<1>3. LoadedInv'
  BY DEF LoadedInv
<1> QED BY <1>1, <1>2, <1>3

\* RolloutManager.pre_process: the borrowed instances are not all there are.
LEMMA ERolloutPreProcess ==
  ASSUME Policies, IInv, EInv, RolloutPreProcess \/ PreReport \/ PreGather
  PROVE  EInv'
<1>1. iter = -1 /\ ~LastIter /\ NMinibatches - 1 >= 0
  BY SizesAssumption
     DEF IInv, PhaseInv, PreProcessing, RolloutPreProcess, PreReport, ScatterReport,
         PreGather, LastIter
<1>2. iter' = iter => LeaveInv'
  BY <1>1 DEF LeaveInv, LastIter
<1>3. CASE RolloutPreProcess
  <2>1. /\ pc' \in {"preReport", "preOthers"}
        /\ mgr' = [mgr EXCEPT !["rollout"] = Fresh("rollout")]
        /\ UNCHANGED <<iter, seen, infHeld, apc, actorLoaded>>
    BY <1>3 DEF RolloutPreProcess, inference, trainer
  <2>2. mgr'["actor"] = mgr["actor"]
    BY <2>1 DEF IInv, TypeOK, Components
  <2> QED BY <1>1, <1>2, <2>1, <2>2, EFrame
<1>4. CASE PreReport
  <2>1. pc' = "preGather" /\ UNCHANGED <<iter, mgr, seen, infHeld, apc, actorLoaded>>
    BY <1>4 DEF PreReport, ScatterReport, inference, trainer, ledger
  <2> QED BY <1>1, <1>2, <2>1, EFrame
<1>5. CASE PreGather
  <2>1. MigrateAsserts(BorrowedDp)
    <3>1. /\ SchedUsePre /\ mgr["rollout"].offset = 0
          /\ mgr["rollout"].inst \in Nat
      BY <1>5, RolloutCount DEF PreGather, IInv, PhaseInv
    <3>2. mgr["rollout"].inst = InitInst["rollout"]
      BY <3>1, Sizes DEF IInv, LedgerShape
    <3> QED BY <3>1, <3>2, Sizes DEF MigrateAsserts, Policies
  <2>2. /\ pc' \in {"finish", "preReport"}
        /\ UNCHANGED <<iter, mgr, seen, infHeld, apc, actorLoaded>>
    BY <1>5, <2>1 DEF PreGather, StartFinish, AssertThen, inference, trainer, ledger
  <2> QED BY <1>1, <1>2, <2>2, EFrame
<1> QED BY <1>3, <1>4, <1>5

\* The other managers' pre_process: the actor is at its initial size.
LEMMA EPreOthers == ASSUME IInv, EInv, PreOthers PROVE EInv'
<1>1. /\ pc' = "waitActor" /\ iter' = 0
      /\ mgr' = [mgr EXCEPT !["actor"] = Fresh("actor"),
                            !["inference"] = Fresh("inference")]
      /\ seen' = [InitInst EXCEPT !["rollout"] = mgr["rollout"].inst]
      /\ UNCHANGED <<apc, actorLoaded>>
  BY DEF PreOthers, trainer
<1>2. mgr'["actor"].inst = ActorDp /\ seen'["actor"] = ActorDp
  <2>1. mgr'["actor"] = Fresh("actor")
    BY <1>1 DEF IInv, TypeOK, Components
  <2>2. seen'["actor"] = InitInst["actor"]
    BY <1>1 DEF InitInst
  <2> QED BY <2>1, <2>2, Sizes DEF Fresh
<1>3. SizeInv'
  BY <1>1, <1>2, ValidDpAssumption DEF SizeInv
<1>4. LeaveInv' /\ WaitInv'
  BY <1>1, SizesAssumption DEF LeaveInv, WaitInv, LastIter, BeforeLastIter
<1>5. LoadedInv'
  BY <1>1 DEF EInv, LoadedInv
<1> QED BY <1>3, <1>4, <1>5 DEF EInv

\* The rollout's turn up to the first await.
LEMMA ERolloutRelease ==
  ASSUME IInv, EInv, WaitForActorUpdate \/ RolloutRelease
  PROVE  EInv'
<1>1. CASE WaitForActorUpdate
  <2>1. pc = "waitActor" /\ pc' = "rollout"
        /\ UNCHANGED <<iter, mgr, seen, infHeld, apc, actorLoaded>>
    BY <1>1 DEF WaitForActorUpdate, ledger, inference, trainer
  <2>2. LeaveInv'
    BY <2>1 DEF LeaveInv
  <2> QED BY <2>1, <2>2, EFrame
<1>2. CASE RolloutRelease
  <2>1. /\ pc = "rollout" /\ mgr["rollout"].inst \in Nat
        /\ UNCHANGED <<iter, infHeld, apc, actorLoaded>>
    BY <1>2, RolloutCount
       DEF RolloutRelease, StartFinish, ScatterReport, inference, trainer
  <2>2. CASE /\ mgr["rollout"].inst = 0 /\ pc' = "inference"
             /\ StateUpdate("rollout", mgr["rollout"], 0, 0)
    <3>1. mgr' = mgr /\ seen' \in [Components -> Nat] /\ seen'["actor"] = seen["actor"]
      BY <2>2, NoUpdate DEF StateUpdate, IInv, TypeOK, Components
    <3>2. LeaveInv'
      BY <2>2, <3>1 DEF LeaveInv
    <3> QED BY <2>1, <2>2, <3>1, <3>2, EFrame
  <2>3. CASE StartFinish(mgr["rollout"].inst, TRUE)
    <3>1. pc' = "finish" /\ finishing' = mgr["rollout"].inst /\ UNCHANGED <<mgr, seen>>
      BY <2>3 DEF StartFinish, AssertThen, ledger
    <3>2. LeaveInv'
      BY <3>1 DEF LeaveInv
    <3> QED BY <2>1, <3>1, <3>2, EFrame
  <2>4. CASE ScatterReport("rollout", "gather")
    <3>1. pc' = "gather" /\ UNCHANGED <<mgr, seen>>
      BY <2>4 DEF ScatterReport, ledger
    <3>2. LeaveInv'
      BY <3>1 DEF LeaveInv
    <3> QED BY <2>1, <3>1, <3>2, EFrame
  <2> QED BY <1>2, <2>2, <2>3, <2>4 DEF RolloutRelease
<1> QED BY <1>1, <1>2

\* Whatever number of sequences is reported, the policy releases no more
\* instances than it may, and never all of them.
LEMMA ReleaseWithinMax ==
  ASSUME IInv, EInv, NEW r \in Nat \ {0},
         NEW n \in ReleaseNeeded(ReleasedMax(r))
  PROVE  /\ PolicyAsserts(ReleasedMax(r), n)
         /\ n > 0 => MigrateAsserts(n)
<1> DEFINE inst == mgr["rollout"].inst
<1> DEFINE most == ReleasedMax(r)
<1> DEFINE cur == seen["actor"]
<1>1. inst \in Nat /\ cur \in Nat /\ cur \in ValidDpSizes
  BY RolloutCount DEF IInv, TypeOK, Components, EInv, SizeInv
<1>2. /\ most \in Nat
      /\ most > 0 => most < inst
  <2>1. CeilDiv(r, MaxRunningRequests) >= 1 /\ CeilDiv(r, MaxRunningRequests) \in Int
    BY CeilDivPositive, SizesAssumption DEF CeilDiv
  <2> QED BY <1>1, <2>1 DEF ReleasedMax
<1>3. CASE most = 0
  <2>1. n = 0
    BY <1>3 DEF ReleaseNeeded
  <2> QED BY <1>3, <2>1 DEF PolicyAsserts
<1>4. CASE most # 0
  <2>1. PICK d \in BestFit(cur, most * RolloutMP) : n = CeilDiv((d - cur) * ActorMP, RolloutMP)
    BY <1>4 DEF ReleaseNeeded
  <2>2. RolloutMP \in Nat \ {0} /\ ActorMP \in Nat \ {0} /\ most * RolloutMP \in Nat
    BY <1>2, ProductNat, SizesAssumption
  <2>3. cur \in Nat \ {0}
    BY <1>1, ValidDpAssumption
  <2>4. d \in Nat /\ d >= cur /\ (d - cur) * ActorMP <= most * RolloutMP
    BY <2>2, <2>3, BestFitBounds
  <2>5. (d - cur) * ActorMP \in Nat
    BY <1>1, <2>2, <2>4, ProductNat
  <2>6. n \in Nat /\ n <= most
    BY <1>2, <2>1, <2>2, <2>4, <2>5, CeilDivBounded
  <2> QED BY <1>1, <1>2, <1>4, <2>6 DEF PolicyAsserts, MigrateAsserts
<1> QED BY <1>3, <1>4

\* release_resource after the reports.
LEMMA ERolloutGather == ASSUME IInv, EInv, RolloutGather PROVE EInv'
<1>1. /\ pc = "gather" /\ ~LastIter
      /\ UNCHANGED <<iter, infHeld, apc, actorLoaded>>
  BY DEF RolloutGather, StartFinish, inference, trainer, IInv, PhaseInv
<1>2. LeaveInv'
  BY <1>1 DEF LeaveInv, LastIter
<1>3. CASE StartFinish(mgr["rollout"].inst, TRUE)
  <2>1. pc' = "finish" /\ UNCHANGED <<mgr, seen>>
    BY <1>3 DEF StartFinish, AssertThen, ledger
  <2> QED BY <1>1, <1>2, <2>1, EFrame
<1>4. ASSUME NEW r \in Reported, r > 0,
             NEW n \in ReleaseNeeded(ReleasedMax(r)),
             \/ /\ n = 0
                /\ AssertThen(PolicyAsserts(ReleasedMax(r), n), "inference")
                /\ StateUpdate("rollout", mgr["rollout"], 0, 0)
             \/ /\ n > 0
                /\ StartFinish(n, /\ PolicyAsserts(ReleasedMax(r), n)
                                  /\ MigrateAsserts(n))
      PROVE  EInv'
  <2>1. r \in Nat \ {0}
    BY <1>4 DEF Reported, IInv, TypeOK
  <2>2. PolicyAsserts(ReleasedMax(r), n) /\ (n > 0 => MigrateAsserts(n))
    BY <1>4, <2>1, ReleaseWithinMax
  <2>3. CASE n = 0 /\ StateUpdate("rollout", mgr["rollout"], 0, 0)
              /\ AssertThen(PolicyAsserts(ReleasedMax(r), n), "inference")
    <3>1. /\ mgr' = mgr /\ seen'["actor"] = seen["actor"]
      BY <2>3, NoUpdate DEF IInv, Components
    <3>2. pc' = "inference"
      BY <2>2, <2>3 DEF AssertThen
    <3> QED BY <1>1, <1>2, <3>1, <3>2, EFrame
  <2>4. CASE n > 0 /\ StartFinish(n, /\ PolicyAsserts(ReleasedMax(r), n)
                                     /\ MigrateAsserts(n))
    <3>1. pc' = "finish" /\ UNCHANGED <<mgr, seen>>
      BY <2>2, <2>4 DEF StartFinish, AssertThen, ledger
    <3> QED BY <1>1, <1>2, <3>1, EFrame
  <2> QED BY <1>4, <2>3, <2>4
<1>5. \E r \in Reported :
        \/ StartFinish(mgr["rollout"].inst, TRUE)
        \/ /\ r > 0
           /\ \E n \in ReleaseNeeded(ReleasedMax(r)) :
                \/ /\ n = 0
                   /\ AssertThen(PolicyAsserts(ReleasedMax(r), n), "inference")
                   /\ StateUpdate("rollout", mgr["rollout"], 0, 0)
                \/ /\ n > 0
                   /\ StartFinish(n, /\ PolicyAsserts(ReleasedMax(r), n)
                                     /\ MigrateAsserts(n))
  BY Zenon DEF RolloutGather
<1> QED BY <1>3, <1>4, <1>5

\* All that were told to finish have: in the last iteration, all there are.
LEMMA EFinishGathered == ASSUME IInv, EInv, FinishGathered PROVE EInv'
<1>1. /\ pc = "finish" /\ pc' \in {"preOthers", "inference"}
      /\ mgr' = [mgr EXCEPT !["rollout"] = Release("rollout", finishing)]
      /\ seen' = seen \/ seen' = [seen EXCEPT !["rollout"] = Release("rollout", finishing).inst]
      /\ UNCHANGED <<iter, infHeld, apc, actorLoaded>>
  BY DEF FinishGathered, StateUpdate, inference, trainer
<1>2. /\ mgr'["rollout"].inst = mgr["rollout"].inst - finishing
      /\ mgr'["actor"] = mgr["actor"] /\ seen'["actor"] = seen["actor"]
      /\ mgr["rollout"].inst \in Nat
  BY <1>1, RolloutCount DEF Release, IInv, TypeOK, Components
<1>3. LeaveInv'
  <2>1. LastIter => finishing = mgr["rollout"].inst
    BY <1>1 DEF EInv, LeaveInv
  <2> QED BY <1>1, <1>2, <2>1 DEF LeaveInv, LastIter
<1> QED BY <1>1, <1>2, <1>3, EFrame

\* The inference component's turn.
LEMMA EInferenceRelease == ASSUME IInv, EInv, InferenceRelease PROVE EInv'
<1>1. /\ pc = "inference" /\ pc' = "actor" /\ iter >= 0
      /\ UNCHANGED <<iter, infHeld, apc, actorLoaded>>
      /\ LastIter /\ HasInference => ~infHeld
  BY DEF InferenceRelease, inference, trainer, IInv, PhaseInv, Turn
<1>2. /\ mgr["inference"].inst \in Nat
      /\ InferenceDp = 0 => mgr["inference"].inst = 0
      /\ UseWait /\ BeforeLastIter => mgr["rollout"].inst = 0 /\ seen["rollout"] = 0
      /\ ~HasInference => InferenceDp = 0
  BY <1>1, SizesAssumption
     DEF IInv, TypeOK, LedgerShape, SeenInv, Components, HasInference, Turn
<1>3. /\ mgr'["rollout"] = mgr["rollout"] /\ mgr'["actor"] = mgr["actor"]
      /\ seen'["actor"] = seen["actor"]
      /\ \/ mgr' = mgr
         \/ mgr'["inference"].inst = 0
  <2>1. CASE UNCHANGED ledger
    BY <2>1 DEF ledger
  <2>2. CASE StateUpdate("inference", mgr["inference"], 0, 0)
    BY <2>2, NoUpdate DEF IInv, Components
  <2>3. CASE StateUpdate("inference", Release("inference", mgr["inference"].inst),
                         mgr["inference"].inst * InferenceMP, 0)
    BY <1>2, <2>3 DEF StateUpdate, Release, IInv, TypeOK, Components
  <2> QED BY <2>1, <2>2, <2>3 DEF InferenceRelease
<1>4. UseWait /\ BeforeLastIter => mgr'["inference"].inst = 0
  <2>1. UseWait /\ BeforeLastIter => InferenceMustWait /\ ~LastIter
    BY SizesAssumption DEF InferenceMustWait, BeforeLastIter, LastIter, IInv, TypeOK
  <2>2. CASE ~HasInference \/ mgr["inference"].inst = 0
    BY <1>2, <1>3, <2>2
  <2>3. CASE HasInference /\ mgr["inference"].inst # 0
    <3>1. ASSUME UseWait, BeforeLastIter
          PROVE  StateUpdate("inference", Release("inference", mgr["inference"].inst),
                             mgr["inference"].inst * InferenceMP, 0)
      BY <2>1, <2>3, <3>1, Zenon DEF InferenceRelease
    <3>2. ASSUME UseWait, BeforeLastIter PROVE mgr'["inference"].inst = 0
      BY <1>2, <3>1, <3>2 DEF StateUpdate, Release, IInv, TypeOK, Components
    <3> QED BY <3>2
  <2> QED BY <2>2, <2>3
<1>5. LeaveInv'
  <2>1. LastIter => mgr["rollout"].inst = 0
    BY <1>1 DEF EInv, LeaveInv
  <2>2. LastIter => ~infHeld
    BY <1>1, <1>2 DEF IInv, InferenceInv
  <2> QED BY <1>1, <1>3, <2>1, <2>2 DEF LeaveInv, LastIter
<1> QED BY <1>1, <1>2, <1>3, <1>4, <1>5, EFrame

\* The released prefix ends within the cluster, and at its end when rollout
\* and inference have left.
LEMMA ReachBound ==
  ASSUME IInv
  PROVE  /\ Reach <= TotalGpus
         /\ (mgr["rollout"].inst = 0 /\ mgr["inference"].inst = 0) => Reach = TotalGpus
<1> DEFINE from == mgr["rollout"].offset
<1> DEFINE inf == mgr["inference"].inst
<1> DEFINE a == from * RolloutMP
<1> DEFINE b == (InferenceDp - inf) * InferenceMP
<1> DEFINE c == InitInst["rollout"] * RolloutMP
<1> DEFINE d == InferenceDp * InferenceMP
<1>1. /\ from \in Nat /\ from <= InitInst["rollout"] /\ InitInst["rollout"] \in Nat
      /\ mgr["rollout"].inst = 0 => from = InitInst["rollout"]
  BY RolloutCount, Sizes DEF IInv, LedgerShape
<1>2. inf \in Nat /\ InferenceDp \in Nat /\ InferenceMP \in Nat /\ RolloutMP \in Nat
  BY SizesAssumption DEF IInv, TypeOK, Components
<1>3. a <= c /\ a \in Nat /\ c \in Nat
  BY <1>1, <1>2, Monotone, ProductNat
<1>4. b <= d /\ b \in Int /\ d \in Nat
  <2>1. InferenceDp - inf <= InferenceDp /\ InferenceDp - inf \in Int
    BY <1>2
  <2> QED BY <1>2, <2>1, Monotone, ProductNat, Distribute
<1>5. (mgr["rollout"].inst = 0 => a = c) /\ (inf = 0 => b = d)
  BY <1>1, <1>2
<1>6. Reach = RolloutBase + a + b /\ TotalGpus = RolloutBase + c + d /\ RolloutBase \in Nat
  BY Sizes DEF Reach
<1> HIDE DEF a, b, c, d
<1> QED BY <1>3, <1>4, <1>5, <1>6

\* A size whose GPUs leave room for one more replica is not the largest.
LEMMA RoomToGrow ==
  ASSUME NEW k \in Nat \ {0}, NEW v \in Nat, v >= ActorMP,
         k * ActorMP + v <= TotalGpus
  PROVE  \E e \in ValidDpSizes : e > k
<1>1. PICK top \in ValidDpSizes : top * ActorMP = TotalGpus
  BY ValidDpAssumption
<1>2. top \in Nat /\ ActorMP \in Nat \ {0}
  BY ValidDpAssumption, SizesAssumption
<1>3. top > k
  <2>1. SUFFICES ASSUME top <= k PROVE FALSE
    BY <1>2
  <2>2. top * ActorMP <= k * ActorMP /\ k * ActorMP \in Nat
    BY <1>2, <2>1, Monotone, ProductNat
  <2> QED BY <1>1, <1>2, <2>2
<1> QED BY <1>3

\* When the free GPUs complete the cluster, the actor gets all of it.
LEMMA GrowToAll ==
  ASSUME NEW k \in ValidDpSizes, NEW v \in Nat, k * ActorMP + v = TotalGpus,
         NEW d \in BestFit(k, v)
  PROVE  d * ActorMP = TotalGpus
<1>1. PICK top \in ValidDpSizes :
        top * ActorMP = TotalGpus /\ \A e \in ValidDpSizes : e <= top
  BY ValidDpAssumption
<1>2. top \in Nat /\ k \in Nat /\ ActorMP \in Nat /\ k <= top
  BY <1>1, ValidDpAssumption, SizesAssumption
<1>3. (top - k) * ActorMP <= v
  <2>1. (top - k) * ActorMP = top * ActorMP - k * ActorMP /\ k * ActorMP \in Nat
    BY <1>2, Distribute, ProductNat
  <2> QED BY <1>1, <2>1
<1>4. d \in ValidDpSizes /\ d \in Nat
  BY ValidDpAssumption DEF BestFit
<1>5. d = top
  <2>1. CASE top > k
    <3>1. top <= d
      BY <1>3, <2>1 DEF BestFit
    <3> QED BY <1>1, <1>2, <1>4, <3>1
  <2>2. CASE top = k
    <3>1. d >= k
      BY <1>2, <1>4 DEF BestFit
    <3> QED BY <1>1, <1>2, <1>4, <2>2, <3>1
  <2> QED BY <1>2, <2>1, <2>2
<1> QED BY <1>1, <1>5

\* allocate_resource: its assertion holds, and before the last iteration the
\* wait policy has left it the whole cluster.
LEMMA EActorAllocate == ASSUME IInv, EInv, ActorAllocate PROVE EInv'
<1> DEFINE inst == mgr["actor"].inst
<1>1. /\ pc = "actor" /\ ~LastIter
      /\ UNCHANGED <<apc, actorLoaded>>
  BY DEF ActorAllocate, trainer
<1>2. iter >= 0 /\ inst \in Nat \ {0} /\ inst \in ValidDpSizes /\ available \in Nat
  BY <1>1, ActorCount DEF IInv, TypeOK, PhaseInv, Turn, EInv, SizeInv
<1>3. inst * ActorMP + available = Reach
  <2>1. available + mgr["actor"].gpu = Reach
    BY <1>1, <1>2 DEF IInv, ReachInv, InMainLoop
  <2> QED BY <1>2, <2>1, ActorCount
<1>4. AllocateAsserts
  <2>1. inst * ActorMP + available <= TotalGpus
    BY <1>3, ReachBound
  <2> QED BY <1>2, <2>1, RoomToGrow DEF AllocateAsserts
<1>5. PICK d \in BestFit(inst, available) :
        /\ pc' = "waitActor" /\ iter' = iter + 1
        /\ StateUpdate("actor",
             IF d - inst = 0 THEN mgr["actor"] ELSE Increment("actor", d - inst),
             0, (d - inst) * ActorMP)
  BY <1>4 DEF ActorAllocate, AssertThen
<1>6. d \in ValidDpSizes /\ d \in Nat \ {0}
  BY <1>2, ValidDpAssumption DEF BestFit
<1>7. mgr'["actor"].inst = d /\ mgr'["actor"].gpu = d * ActorMP /\ seen'["actor"] = d
  <2>1. PICK o \in Int : mgr' = [mgr EXCEPT !["actor"] =
                                   [inst |-> d, gpu |-> d * ActorMP, offset |-> o]]
    BY <1>5, <1>6, IncrementTo
  <2>2. mgr'["actor"].inst = d /\ mgr'["actor"].gpu = d * ActorMP
    BY <2>1 DEF IInv, TypeOK, Components
  <2>3. seen'["actor"] = mgr'["actor"].inst
    BY <1>5 DEF StateUpdate, IInv, TypeOK, Components
  <2> QED BY <2>2, <2>3
<1>8. SizeInv'
  BY <1>5, <1>6, <1>7 DEF SizeInv
<1>9. LeaveInv' /\ LoadedInv'
  BY <1>1, <1>5 DEF LeaveInv, LoadedInv, EInv
<1>10. WaitInv'
  <2>1. SUFFICES ASSUME UseWait, LastIter' PROVE d * ActorMP = TotalGpus
    BY <1>5, <1>7 DEF WaitInv
  <2>2. BeforeLastIter
    BY <1>2, <1>5, <2>1, SizesAssumption DEF LastIter, BeforeLastIter, IInv, TypeOK
  <2>3. inst * ActorMP + available = TotalGpus
    BY <1>1, <1>3, <2>1, <2>2, ReachBound DEF EInv, WaitInv
  <2> QED BY <1>2, <2>3, GrowToAll
<1> QED BY <1>8, <1>9, <1>10 DEF EInv

\* main_loop_finalize: the actor is back at its initial size.
LEMMA EActorFinalize == ASSUME IInv, EInv, ActorFinalize PROVE EInv'
<1>1. /\ pc = "actor" /\ pc' = "done" /\ LastIter
      /\ UNCHANGED <<iter, infHeld, apc, actorLoaded>>
      /\ \E m : StateUpdate("actor", m, 0, 0)
  BY DEF ActorFinalize, inference, trainer
<1>2. PICK m : StateUpdate("actor", m, 0, 0)
  BY <1>1
<1>3. /\ mgr'["actor"] = m /\ mgr'["rollout"] = mgr["rollout"]
      /\ seen'["actor"] = m.inst
  BY <1>2 DEF StateUpdate, IInv, TypeOK, Components
<1>4. mgr'["actor"].inst = ActorDp
  <2>1. IInv'
    BY ActorFinalizeStep
  <2> QED BY <1>1, <2>1 DEF IInv, PhaseInv
<1>5. SizeInv'
  BY <1>1, <1>3, <1>4, ValidDpAssumption DEF SizeInv
<1>6. LeaveInv'
  BY <1>1, <1>3 DEF EInv, LeaveInv, LastIter
<1>7. WaitInv' /\ LoadedInv'
  BY <1>1 DEF EInv, WaitInv, LoadedInv
<1> QED BY <1>5, <1>6, <1>7 DEF EInv

\* The next global step begins with the ledger of the last one.
LEMMA ENextGlobalStep == ASSUME IInv, EInv, NextGlobalStep PROVE EInv'
<1>1. /\ pc' = "begin" /\ iter' = -1 /\ UNCHANGED <<mgr, seen>>
      /\ apc' = FirstTrainerStep /\ actorLoaded' = ~WorkerUsePre
  BY Zenon DEF NextGlobalStep, ledger
<1>2. SizeInv'
  BY <1>1 DEF EInv, SizeInv
<1>3. LeaveInv' /\ WaitInv'
  BY <1>1, SizesAssumption DEF LeaveInv, WaitInv, LastIter
<1>4. LoadedInv'
  BY <1>1, FirstLoaded, Zenon DEF LoadedInv
<1> QED BY <1>2, <1>3, <1>4 DEF EInv

\* EInv is inductive on top of IInv.
LEMMA NextEInv == ASSUME Policies, IInv, EInv, [Next]_vars PROVE EInv'
<1>1. CASE NextGlobalStep    BY <1>1, ENextGlobalStep
<1>2. CASE RolloutPreProcess \/ PreReport \/ PreGather
  BY <1>2, ERolloutPreProcess
<1>3. CASE PreOthers         BY <1>3, EPreOthers
<1>4. CASE WaitForActorUpdate \/ RolloutRelease
  BY <1>4, ERolloutRelease
<1>5. CASE RolloutGather     BY <1>5, ERolloutGather
<1>6. CASE InferenceRelease  BY <1>6, EInferenceRelease
<1>7. CASE ActorAllocate     BY <1>7, EActorAllocate
<1>8. CASE ActorFinalize     BY <1>8, EActorFinalize
<1>9. CASE FinishGathered    BY <1>9, EFinishGathered
<1>10. CASE \/ RolloutWorkers \/ InferenceWorker \/ Trainer
            \/ \E i \in Instances : Offload(i)
  BY <1>10, EWorkerStep
<1>11. CASE UNCHANGED vars
  <2>1. UNCHANGED <<sched, infHeld, apc, actorLoaded>>
    BY <1>11 DEF vars, inference, trainer
  <2>2. LoadedInv'
    BY <2>1 DEF EInv, LoadedInv
  <2> QED BY <2>1, <2>2, EWorkers
<1> QED BY <1>1, <1>2, <1>3, <1>4, <1>5, <1>6, <1>7, <1>8, <1>9, <1>10, <1>11
        DEF Next, Scheduler

\* Sizes, departures and the wait policy hold in every reachable state.
THEOREM EndInvariance == ASSUME Policies PROVE Spec => []EInv
<1>1. Init => EInv
  BY InitEInv
<1>2. IInv /\ EInv /\ [Next]_vars => EInv'
  BY NextEInv
<1> QED BY <1>1, <1>2, Invariance, PTL DEF Spec

\* No assertion of the managers can fail: migrate leaves an instance, the
\* release policy stays within its maximum, and try_allocate always finds a
\* larger size when GPUs are available.
THEOREM AssertionsHold == ASSUME Policies PROVE Spec => []NoAssertionFails
<1>1. EInv => NoAssertionFails
  BY DEF EInv, SizeInv, NoAssertionFails
<1> QED BY <1>1, EndInvariance, PTL

\* With the wait policy the last iteration trains on the whole cluster.
THEOREM LastIterExpanded == ASSUME Policies PROVE Spec => []LastIterOnAllGpus
<1>1. ASSUME IInv, EInv, UseWait, NMinibatches > 1, apc = "train",
             actorIter = NMinibatches - 1
      PROVE  actorWorld = TotalGpus
  <2>1. pc = "waitActor" /\ actorIter = iter /\ actorWorld = mgr["actor"].gpu
    BY <1>1, SizesAssumption DEF IInv, Lockstep, PhaseInv, TypeOK
  <2> QED BY <1>1, <2>1 DEF EInv, WaitInv, LastIter
<1>2. IInv /\ EInv => LastIterOnAllGpus
  BY <1>1 DEF LastIterOnAllGpus
<1> QED BY <1>2, Invariance, EndInvariance, PTL

-----------------------------------------------------------------------------
(***************************************************************************)
(* DynScheduler implements GpuPool, for all sizes: an offload gives GPUs    *)
(* back, a resize of the trainer takes free GPUs or gives some back, a new  *)
(* global step finds the trainer on its own GPUs and nobody else, and every *)
(* other step leaves all GPUs with their users.                             *)
(***************************************************************************)

Gpus == 0 .. TotalGpus - 1

(* Where the GPUs of rollout and inference lie. *)

\* The instances' GPUs partition the range between the base and inference.
LEMMA InstancesPartition ==
  ASSUME NEW g \in Gpus
  PROVE  /\ (\E i \in Instances : g \in InstanceHolds(i))
              <=> RolloutBase <= g /\ g < TotalGpus - InferenceDp * InferenceMP
         /\ \A i, j \in Instances :
              g \in InstanceHolds(i) /\ g \in InstanceHolds(j) => i = j
<1> DEFINE all == InitInst["rollout"]
<1> DEFINE inf == InferenceDp * InferenceMP
<1>1. /\ all \in Nat /\ inf \in Nat /\ RolloutBase \in Nat /\ TotalGpus \in Nat
      /\ RolloutMP \in Nat \ {0} /\ all * RolloutMP \in Nat
      /\ TotalGpus = RolloutBase + all * RolloutMP + inf
  BY Sizes, SizesAssumption, ProductNat
<1>2. g \in Nat /\ Instances = 0 .. all - 1
  BY <1>1 DEF Gpus, Instances
<1> HIDE DEF all, inf
<1>3. ASSUME NEW i \in Instances, g \in InstanceHolds(i)
      PROVE  /\ i \in Nat /\ i * RolloutMP \in Nat
             /\ RolloutBase + i * RolloutMP <= g
             /\ g < RolloutBase + i * RolloutMP + RolloutMP
             /\ i * RolloutMP + RolloutMP <= all * RolloutMP
  <2>1. i \in Nat /\ i + 1 <= all /\ i + 1 \in Nat
    BY <1>1, <1>2
  <2>2. i * RolloutMP \in Nat /\ (i + 1) * RolloutMP = i * RolloutMP + RolloutMP
    <3>1. (i + 1) * RolloutMP = i * RolloutMP + 1 * RolloutMP
      BY <1>1, <2>1, Distribute
    <3> QED BY <1>1, <2>1, <3>1, ProductNat
  <2>3. (i + 1) * RolloutMP <= all * RolloutMP
    BY <1>1, <2>1, Monotone
  <2> QED BY <1>1, <1>2, <1>3, <2>1, <2>2, <2>3 DEF InstanceHolds
<1>4. ASSUME NEW i \in Instances, NEW j \in Instances, i < j,
             g \in InstanceHolds(i), g \in InstanceHolds(j)
      PROVE  FALSE
  <2>1. /\ i \in Nat /\ j \in Nat /\ i * RolloutMP \in Nat /\ j * RolloutMP \in Nat
        /\ g < RolloutBase + i * RolloutMP + RolloutMP
        /\ RolloutBase + j * RolloutMP <= g
    BY <1>3, <1>4
  <2>2. (i + 1) * RolloutMP <= j * RolloutMP
    BY <1>1, <1>4, <2>1, Monotone
  <2>3. (i + 1) * RolloutMP = i * RolloutMP + RolloutMP
    <3>1. (i + 1) * RolloutMP = i * RolloutMP + 1 * RolloutMP
      BY <1>1, <2>1, Distribute
    <3> QED BY <1>1, <3>1
  <2> QED BY <1>1, <1>2, <2>1, <2>2, <2>3
<1>5. ASSUME RolloutBase <= g, g < RolloutBase + all * RolloutMP
      PROVE  \E i \in Instances : g \in InstanceHolds(i)
  <2> DEFINE i == (g - RolloutBase) \div RolloutMP
  <2>1. g - RolloutBase \in Nat
    BY <1>1, <1>2, <1>5
  <2>2. /\ i \in Nat /\ RolloutMP * i <= g - RolloutBase
        /\ g - RolloutBase < RolloutMP * (i + 1)
    BY <1>1, <2>1
  <2> HIDE DEF i
  <2>3. i * RolloutMP \in Nat /\ RolloutMP * i = i * RolloutMP
        /\ RolloutMP * (i + 1) = (i + 1) * RolloutMP /\ (i + 1) * RolloutMP \in Nat
    BY <1>1, <2>2, ProductNat
  <2>4. i < all
    <3>1. SUFFICES ASSUME all <= i PROVE FALSE
      BY <1>1, <2>2
    <3>2. all * RolloutMP <= i * RolloutMP
      BY <1>1, <2>2, <3>1, Monotone
    <3> QED BY <1>1, <1>2, <1>5, <2>2, <2>3, <3>2
  <2>5. i \in Instances
    BY <1>1, <1>2, <2>2, <2>4
  <2>6. g \in InstanceHolds(i)
    BY <1>1, <1>2, <2>1, <2>2, <2>3 DEF InstanceHolds
  <2> QED BY <2>5, <2>6
<1>6. (\E i \in Instances : g \in InstanceHolds(i))
         <=> RolloutBase <= g /\ g < TotalGpus - inf
  <2>1. ASSUME NEW i \in Instances, g \in InstanceHolds(i)
        PROVE  RolloutBase <= g /\ g < TotalGpus - inf
    BY <1>1, <1>2, <1>3, <2>1
  <2>2. ASSUME RolloutBase <= g, g < TotalGpus - inf
        PROVE  \E i \in Instances : g \in InstanceHolds(i)
    BY <1>1, <1>2, <1>5, <2>2
  <2> QED BY <2>1, <2>2
<1>7. \A i, j \in Instances :
        g \in InstanceHolds(i) /\ g \in InstanceHolds(j) => i = j
  BY <1>1, <1>2, <1>4
<1> QED BY <1>6, <1>7 DEF inf

\* The inference worker's GPUs are the last ones of the cluster.
LEMMA InferenceIsLast ==
  ASSUME NEW g \in Gpus
  PROVE  /\ g \in TotalGpus - InferenceDp * InferenceMP .. TotalGpus - 1
              <=> g >= TotalGpus - InferenceDp * InferenceMP
         /\ InferenceDp = 0 => g < TotalGpus - InferenceDp * InferenceMP
<1>1. TotalGpus \in Nat /\ InferenceDp * InferenceMP \in Nat
  BY Sizes, SizesAssumption, ProductNat
<1>2. InferenceDp = 0 => InferenceDp * InferenceMP = 0
  BY SizesAssumption
<1> HIDE DEF TotalGpus
<1> QED BY <1>1, <1>2 DEF Gpus

(* Owners. *)

\* Owner[g] names the user of g, and there is one user at most.
UserIs(g) ==
  /\ g \in ActorHolds => Owner[g] = "actor"
  /\ g \in InferenceHolds => Owner[g] = "inference"
  /\ (\E i \in held : g \in InstanceHolds(i)) => Owner[g] = "rollout"
  /\ \/ g \in ActorHolds \/ g \in InferenceHolds
     \/ \E i \in held : g \in InstanceHolds(i)
     \/ Owner[g] = "none"
OneUser == \A g \in Gpus : UserIs(g)

\* A GPU has at most one user.
LEMMA IInvOneUser == ASSUME IInv PROVE OneUser
<1> SUFFICES ASSUME NEW g \in Gpus PROVE UserIs(g)
  BY DEF OneUser
<1>1. Owner[g] = IF g \in ActorHolds THEN "actor"
                 ELSE IF g \in InferenceHolds THEN "inference"
                 ELSE IF \E i \in held : g \in InstanceHolds(i) THEN "rollout"
                 ELSE "none"
  BY DEF Owner, Gpus
<1>2. GpusExclusive
  BY IInvExclusive
<1>3. g \in InferenceHolds => g \notin ActorHolds
  BY <1>2 DEF GpusExclusive
<1>4. ASSUME NEW i \in held, g \in InstanceHolds(i)
      PROVE  g \notin ActorHolds /\ g \notin InferenceHolds
  <2>1. g \notin ActorHolds
    BY <1>2, <1>4 DEF GpusExclusive
  <2>2. i \in Instances
    BY DEF IInv, TypeOK
  <2>3. g < TotalGpus - InferenceDp * InferenceMP
    BY <1>4, <2>2, InstancesPartition
  <2>4. TotalGpus \in Nat /\ InferenceDp * InferenceMP \in Nat /\ g \in Nat
    BY Sizes, SizesAssumption, ProductNat DEF Gpus
  <2>5. g \notin InferenceHolds
    <3>1. ASSUME g \in TotalGpus - InferenceDp * InferenceMP .. TotalGpus - 1 PROVE FALSE
      BY <2>3, <2>4, <3>1, InferenceIsLast
    <3> QED BY <3>1, Zenon DEF InferenceHolds
  <2> QED BY <2>1, <2>5
<1> HIDE DEF ActorHolds, InferenceHolds, InstanceHolds
<1> QED BY <1>1, <1>3, <1>4 DEF UserIs


\* The same after a step.
LEMMA OneUserNext == IInv' => OneUser'
<1>1. IInv => OneUser
  BY IInvOneUser
<1> QED BY <1>1, PTL

\* Owner maps every GPU of the cluster.
OwnerIsMap == Owner = [g \in Gpus |-> Owner[g]]

\* It is a function on the GPUs by its definition.
LEMMA OwnerMap == OwnerIsMap
<1>1. Owner = [g \in Gpus |->
            IF g \in ActorHolds THEN "actor"
            ELSE IF g \in InferenceHolds THEN "inference"
            ELSE IF \E i \in held : g \in InstanceHolds(i) THEN "rollout"
            ELSE "none"]
  BY DEF Owner, Gpus
<1> HIDE DEF Gpus, ActorHolds, InferenceHolds, InstanceHolds
<1> QED BY <1>1 DEF OwnerIsMap

\* And so it is after a step.
LEMMA OwnerMapNext == OwnerIsMap'
<1>1. OwnerIsMap
  BY OwnerMap
<1> QED BY <1>1, PTL

(* The steps of GpuPool. *)

\* Handing GPUs over is a Move of the pool, or nothing if there are none.
LEMMA Handed ==
  ASSUME NEW c, NEW d, NEW S \in SUBSET Gpus,
         \A g \in S : Owner[g] = c /\ Owner'[g] = d,
         \A g \in Gpus \ S : Owner'[g] = Owner[g]
  PROVE  Pool!Move(c, d) \/ Owner' = Owner
<1>1. Owner' = [g \in Gpus |-> IF g \in S THEN d ELSE Owner[g]]
  <2>1. Owner' = [g \in Gpus |-> Owner'[g]]
    BY OwnerMapNext DEF OwnerIsMap
  <2>2. \A g \in Gpus : Owner'[g] = IF g \in S THEN d ELSE Owner[g]
    OBVIOUS
  <2> QED BY <2>1, <2>2, Zenon
<1>2. S \subseteq Pool!Owned(c)
  BY DEF Pool!Owned, Gpus
<1>3. CASE S = {}
  <2>1. Owner = [g \in Gpus |-> Owner[g]]
    BY OwnerMap DEF OwnerIsMap
  <2> QED BY <1>1, <1>3, <2>1
<1>4. CASE S # {}
  BY <1>1, <1>2, <1>4 DEF Pool!Move, Gpus
<1> QED BY <1>3, <1>4

\* What leaves the workers on their GPUs leaves the pool alone.
LEMMA OwnersStay ==
  ASSUME UNCHANGED <<held, infHeld, actorLoaded, actorWorld>>
  PROVE  Owner' = Owner
BY DEF Owner, ActorHolds, InferenceHolds

\* An instance that offloads gives its GPUs back.
LEMMA OffloadGives ==
  ASSUME IInv, IInv', NEW i \in Instances, Offload(i)
  PROVE  Pool!Move("rollout", "none") \/ Owner' = Owner
<1>1. /\ i \in held /\ held' = held \ {i} /\ held \subseteq Instances
      /\ UNCHANGED <<infHeld, actorLoaded, actorWorld>>
  BY DEF Offload, inference, trainer, IInv, TypeOK
<1>2. ActorHolds' = ActorHolds /\ InferenceHolds' = InferenceHolds
  BY <1>1 DEF ActorHolds, InferenceHolds
<1>3. OneUser /\ OneUser'
  BY IInvOneUser, OneUserNext
<1> DEFINE S == {g \in Gpus : g \in InstanceHolds(i)}
<1>4. ASSUME NEW g \in S PROVE Owner[g] = "rollout" /\ Owner'[g] = "none"
  <2>1. Owner[g] = "rollout"
    BY <1>1, <1>3, <1>4 DEF OneUser, UserIs
  <2>2. g \notin ActorHolds /\ g \notin InferenceHolds
    BY <1>3, <1>4, <2>1 DEF OneUser, UserIs
  <2>3. ASSUME NEW j \in held', g \in InstanceHolds(j) PROVE FALSE
    BY <1>1, <1>4, <2>3, InstancesPartition
  <2> QED BY <1>2, <1>3, <1>4, <2>1, <2>2, <2>3 DEF OneUser, UserIs
<1>5. ASSUME NEW g \in Gpus \ S PROVE Owner'[g] = Owner[g]
  <2>1. (\E j \in held' : g \in InstanceHolds(j)) <=> (\E j \in held : g \in InstanceHolds(j))
    BY <1>1, <1>5
  <2> HIDE DEF S
  <2> QED BY <1>2, <1>3, <1>5, <2>1 DEF OneUser, UserIs
<1>6. S \in SUBSET Gpus
  OBVIOUS
<1> HIDE DEF S
<1> QED BY <1>4, <1>5, <1>6, Handed

\* The inference worker gives its GPUs back when it offloads.
LEMMA InferenceGives ==
  ASSUME IInv, IInv', InferenceOffload
  PROVE  Pool!Move("inference", "none") \/ Owner' = Owner
<1>1. infHeld' = FALSE /\ UNCHANGED <<held, actorLoaded, actorWorld>>
  BY DEF InferenceOffload, rollout, trainer
<1>2. ActorHolds' = ActorHolds /\ InferenceHolds' = {}
  BY <1>1 DEF ActorHolds, InferenceHolds
<1>3. OneUser /\ OneUser'
  BY IInvOneUser, OneUserNext
<1> DEFINE S == {g \in Gpus : g \in InferenceHolds}
<1>4. ASSUME NEW g \in S PROVE Owner[g] = "inference" /\ Owner'[g] = "none"
  BY <1>1, <1>2, <1>3, <1>4, Zenon DEF OneUser, UserIs
<1>5. ASSUME NEW g \in Gpus \ S PROVE Owner'[g] = Owner[g]
  BY <1>1, <1>2, <1>3, <1>5 DEF OneUser, UserIs
<1>6. S \in SUBSET Gpus
  OBVIOUS
<1> HIDE DEF S
<1> QED BY <1>4, <1>5, <1>6, Handed

\* Of two prefixes of the cluster one contains the other.
LEMMA Prefixes ==
  ASSUME NEW a \in Nat, NEW b \in Nat
  PROVE  0 .. a - 1 \subseteq 0 .. b - 1 \/ 0 .. b - 1 \subseteq 0 .. a - 1
<1>1. CASE a <= b
  BY <1>1
<1>2. CASE b <= a
  BY <1>2
<1> QED BY <1>1, <1>2

\* The trainer loads its weights or changes its size: it takes free GPUs, or
\* gives some back.
LEMMA TrainerMoves ==
  ASSUME IInv, IInv', ActorPreProcess \/ ScaleSync
  PROVE  \/ Pool!Move("none", "actor") \/ Pool!Move("actor", "none")
         \/ Owner' = Owner
<1>1. UNCHANGED <<held, infHeld>>
  BY DEF ActorPreProcess, ScaleSync, rollout, inference
<1>2. InferenceHolds' = InferenceHolds
  BY <1>1 DEF InferenceHolds
<1>3. OneUser /\ OneUser'
  BY IInvOneUser, OneUserNext
<1>4. ActorHolds \subseteq ActorHolds' \/ ActorHolds' \subseteq ActorHolds
  <2>1. actorWorld \in Nat /\ actorWorld' \in Nat
    BY DEF IInv, TypeOK
  <2>2. CASE actorLoaded /\ actorLoaded'
    <3>1. ActorHolds = 0 .. actorWorld - 1 /\ ActorHolds' = 0 .. actorWorld' - 1
      BY <2>2 DEF ActorHolds
    <3> QED BY <2>1, <3>1, Prefixes, Zenon
  <2>3. CASE ~actorLoaded \/ ~actorLoaded'
    BY <2>3, Zenon DEF ActorHolds
  <2> QED BY <2>2, <2>3
<1> DEFINE More == {g \in Gpus : g \in ActorHolds' /\ g \notin ActorHolds}
<1> DEFINE Less == {g \in Gpus : g \in ActorHolds /\ g \notin ActorHolds'}
<1>5. ASSUME NEW g \in More PROVE Owner[g] = "none" /\ Owner'[g] = "actor"
  <2>1. Owner'[g] = "actor"
    BY <1>3, <1>5 DEF OneUser, UserIs
  <2>2. g \notin InferenceHolds' /\ ~\E i \in held' : g \in InstanceHolds(i)
    BY <1>3, <1>5, <2>1 DEF OneUser, UserIs
  <2> QED BY <1>1, <1>2, <1>3, <1>5, <2>1, <2>2 DEF OneUser, UserIs
<1>6. ASSUME NEW g \in Less PROVE Owner[g] = "actor" /\ Owner'[g] = "none"
  <2>1. Owner[g] = "actor"
    BY <1>3, <1>6 DEF OneUser, UserIs
  <2>2. g \notin InferenceHolds /\ ~\E i \in held : g \in InstanceHolds(i)
    BY <1>3, <1>6, <2>1 DEF OneUser, UserIs
  <2> QED BY <1>1, <1>2, <1>3, <1>6, <2>1, <2>2 DEF OneUser, UserIs
<1>7. ASSUME NEW g \in Gpus, g \notin More, g \notin Less PROVE Owner'[g] = Owner[g]
  <2>1. g \in ActorHolds' <=> g \in ActorHolds
    BY <1>7
  <2> HIDE DEF More, Less
  <2> QED BY <1>1, <1>2, <1>3, <2>1 DEF OneUser, UserIs
<1>8. More \in SUBSET Gpus /\ Less \in SUBSET Gpus /\ (More = {} \/ Less = {})
  BY <1>4
<1> HIDE DEF More, Less
<1>9. CASE Less = {}
  BY <1>5, <1>7, <1>8, <1>9, Handed
<1>10. CASE More = {}
  BY <1>6, <1>7, <1>8, <1>10, Handed
<1> QED BY <1>8, <1>9, <1>10

\* The GPUs of the inference component.
LastGpus == TotalGpus - InferenceDp * InferenceMP .. TotalGpus - 1

\* Who uses which GPU when everybody has just been onloaded.
LEMMA StartingOwner ==
  ASSUME NEW g \in Gpus
  PROVE  /\ g < RolloutBase <=> ~WorkerUsePre /\ g \in 0 .. ActorGpus - 1
         /\ g < RolloutBase => StartOwner[g] = "actor"
         /\ ~(g < RolloutBase) =>
              \/ StartOwner[g] = "rollout" /\ \E i \in Instances : g \in InstanceHolds(i)
              \/ StartOwner[g] = "inference" /\ InferenceDp > 0 /\ g \in LastGpus
<1> DEFINE first == TotalGpus - InferenceDp * InferenceMP
<1>1. g \in Nat /\ ActorGpus \in Nat /\ RolloutBase \in Nat /\ first \in Int
  <2>1. TotalGpus \in Nat /\ InferenceDp * InferenceMP \in Nat
    BY Sizes, SizesAssumption, ProductNat
  <2> QED BY <2>1, Sizes DEF Gpus
<1>2. g < RolloutBase <=> ~WorkerUsePre /\ g \in 0 .. ActorGpus - 1
  BY <1>1, Sizes
<1>3. StartOwner[g] = IF g < RolloutBase THEN "actor"
                      ELSE IF g < first THEN "rollout" ELSE "inference"
  BY DEF StartOwner, Gpus
<1>4. CASE g < RolloutBase
  BY <1>2, <1>3, <1>4
<1>5. CASE ~(g < RolloutBase) /\ g < first
  <2>1. \E i \in Instances : g \in InstanceHolds(i)
    BY <1>1, <1>5, InstancesPartition
  <2> QED BY <1>2, <1>3, <1>5, <2>1
<1>6. CASE ~(g < RolloutBase) /\ ~(g < first)
  <2>1. InferenceDp # 0
    BY <1>6, InferenceIsLast
  <2>2. g \in LastGpus
    BY <1>1, <1>6, InferenceIsLast DEF LastGpus
  <2> QED BY <1>2, <1>3, <1>6, <2>1, <2>2, SizesAssumption
<1> QED BY <1>4, <1>5, <1>6

\* A map of the GPUs that agrees with StartOwner on each is StartOwner.
LEMMA StartingMap ==
  ASSUME NEW f, f = [g \in Gpus |-> f[g]], \A g \in Gpus : f[g] = StartOwner[g]
  PROVE  f = StartOwner
<1>1. StartOwner = [g \in Gpus |-> StartOwner[g]]
  BY DEF StartOwner, Gpus
<1> QED BY <1>1, Zenon

\* The pool starts as the placement onloads the engines.
LEMMA InitOwner == ASSUME Policies, Init PROVE Owner = StartOwner
<1>1. /\ held = Instances /\ infHeld = (InferenceDp > 0)
      /\ actorLoaded = ~WorkerUsePre /\ actorWorld = ActorGpus
  BY Zenon DEF Init, HasInference
<1>2. OneUser
  BY InitIInv, IInvOneUser
<1>3. ASSUME NEW g \in Gpus PROVE Owner[g] = StartOwner[g]
  <2>1. g \in ActorHolds <=> g < RolloutBase
    BY <1>1, StartingOwner, Zenon DEF ActorHolds
  <2>2. InferenceDp > 0 => InferenceHolds = LastGpus
    BY <1>1, Zenon DEF InferenceHolds, LastGpus
  <2> QED BY <1>1, <1>2, <2>1, <2>2, StartingOwner DEF OneUser, UserIs
<1> QED BY <1>3, OwnerMap, StartingMap DEF OwnerIsMap

\* When the next global step begins, the trainer is on its own GPUs, alone,
\* and the pool starts again.
LEMMA NextStepStarts ==
  ASSUME IInv, IInv', EInv, NextGlobalStep
  PROVE  Pool!NewStep
<1>1. /\ pc = "done" /\ apc = "done" /\ held' = Instances
      /\ infHeld' = (InferenceDp > 0)
      /\ actorLoaded' = ~WorkerUsePre /\ actorWorld' = actorWorld
  BY Zenon DEF NextGlobalStep, HasInference
<1>2. actorWorld = ActorGpus
  <2>1. actorWorld = mgr["actor"].gpu /\ mgr["actor"].inst = ActorDp
    BY <1>1 DEF IInv, Lockstep, PhaseInv
  <2> QED BY <2>1, ActorCount DEF ActorGpus
<1>3. held = {} /\ ~infHeld /\ actorLoaded
  <2>1. mgr["rollout"].inst = 0 /\ ~infHeld /\ actorLoaded
    BY <1>1 DEF EInv, LeaveInv, LoadedInv, IInv, PhaseInv
  <2>2. mgr["rollout"].offset = InitInst["rollout"] /\ InitInst["rollout"] \in Nat
    BY <2>1, RolloutCount, Sizes DEF IInv, LedgerShape
  <2>3. held = {}
    BY <1>1, <2>2 DEF IInv, HeldInv
  <2> QED BY <2>1, <2>3
<1>4. Owner = [g \in Gpus |-> IF g \in 0 .. ActorGpus - 1 THEN "actor" ELSE "none"]
  <2>1. ActorHolds = 0 .. ActorGpus - 1 /\ InferenceHolds = {}
    BY <1>2, <1>3 DEF ActorHolds, InferenceHolds
  <2>2. OneUser
    BY IInvOneUser
  <2>3. ASSUME NEW g \in Gpus
        PROVE  Owner[g] = IF g \in 0 .. ActorGpus - 1 THEN "actor" ELSE "none"
    BY <1>3, <2>1, <2>2 DEF OneUser, UserIs
  <2>4. Owner = [g \in Gpus |-> Owner[g]]
    BY OwnerMap DEF OwnerIsMap
  <2> QED BY <2>3, <2>4, Zenon
<1>5. Owner' = StartOwner
  <2>1. OneUser'
    BY OneUserNext
  <2>2. ASSUME NEW g \in Gpus PROVE Owner'[g] = StartOwner[g]
    <3>1. g \in ActorHolds' <=> g < RolloutBase
      BY <1>1, <1>2, StartingOwner, Zenon DEF ActorHolds
    <3>2. InferenceDp > 0 => InferenceHolds' = LastGpus
      BY <1>1, Zenon DEF InferenceHolds, LastGpus
    <3> QED BY <1>1, <2>1, <3>1, <3>2, StartingOwner DEF OneUser, UserIs
  <2> QED BY <2>2, OwnerMapNext, StartingMap DEF OwnerIsMap
<1> QED BY <1>4, <1>5 DEF Pool!NewStep, Gpus

\* Every step of the scheduler and its workers is a step of the pool.
LEMMA PoolStep ==
  ASSUME IInv, IInv', EInv, [Next]_vars
  PROVE  [Pool!Next]_Owner
<1> USE DEF Pool!Next, Pool!GiveBack, Pool!TrainerTakes, Pool!Users
<1>1. CASE NextGlobalStep
  BY <1>1, NextStepStarts
<1>2. CASE Scheduler \/ FinishGathered \/ UNCHANGED vars
  <2>1. UNCHANGED <<held, infHeld, actorLoaded, actorWorld>>
    BY <1>2 DEF Scheduler, RolloutPreProcess, PreReport, PreGather, PreOthers,
                WaitForActorUpdate, RolloutRelease, RolloutGather, InferenceRelease,
                ActorAllocate, ActorFinalize, FinishGathered, ScatterReport,
                StartFinish, vars, rollout, inference, trainer
  <2> QED BY <2>1, OwnersStay
<1>3. CASE RolloutWorkers \/ Infer \/ TrainStep
  <2>1. UNCHANGED <<held, infHeld, actorLoaded, actorWorld>>
    BY <1>3 DEF RolloutWorkers, AllStarted, SequenceDone, Deliver, Infer, TrainStep,
                rollout, inference, trainer
  <2> QED BY <2>1, OwnersStay
<1>4. ASSUME NEW i \in Instances, Offload(i) PROVE [Pool!Next]_Owner
  BY <1>4, OffloadGives
<1>5. CASE InferenceOffload
  BY <1>5, InferenceGives
<1>6. CASE ActorPreProcess \/ ScaleSync
  BY <1>6, TrainerMoves
<1> QED BY <1>1, <1>2, <1>3, <1>4, <1>5, <1>6
        DEF Next, InferenceWorker, Trainer

\* DynScheduler is a GpuPool: for all sizes, GPUs only go from rollout and
\* inference to nobody and from nobody to the trainer during a global step,
\* and the next one finds every GPU where the placement put it.
THEOREM Refinement == ASSUME Policies PROVE Spec => ImplementsPool
<1>1. Init => Pool!Init
  BY InitOwner DEF Pool!Init
<1>2. IInv /\ IInv' /\ EInv /\ [Next]_vars => [Pool!Next]_Owner
  BY PoolStep
<1> QED BY <1>1, <1>2, Invariance, EndInvariance, PTL
        DEF Spec, ImplementsPool, Pool!Spec
=============================================================================
