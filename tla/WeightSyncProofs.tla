-------------------------- MODULE WeightSyncProofs --------------------------
(***************************************************************************)
(* Proofs about WeightSync for every number of parameters and rollouts.     *)
(***************************************************************************)
EXTENDS WeightSyncInv, TLAPS

-----------------------------------------------------------------------------
(* Weights and parts of them *)

LEMMA PartialElim ==
  ASSUME NEW d \in Partial
  PROVE  /\ DOMAIN d \subseteq Params
         /\ d = [p \in DOMAIN d |-> d[p]]
         /\ \A p \in DOMAIN d : d[p] \in Values
BY DEF Partial

LEMMA PartialIntro ==
  ASSUME NEW d, DOMAIN d \subseteq Params, d = [p \in DOMAIN d |-> d[p]],
         \A p \in DOMAIN d : d[p] \in Values
  PROVE  d \in Partial
BY DEF Partial

LEMMA NonePartial == None \in Partial /\ DOMAIN None = {}
BY DEF Partial, None

LEMMA OverrideType ==
  ASSUME NEW S, NEW w \in [Params -> S], NEW d, \A p \in DOMAIN d : d[p] \in S
  PROVE  Override(w, d) \in [Params -> S]
BY DEF Override

LEMMA WeightsNotEmpty ==
  ASSUME NEW w \in Updated
  PROVE  w # <<>>
<1>1. 1 \in DOMAIN w
  BY WeightSyncAssumption DEF Updated, Params
<1> QED BY <1>1

LEMMA SendPatchType ==
  ASSUME NEW old, weights \in Updated, SendPatch(old)
  PROVE  /\ flush' \in Partial
         /\ sender' = [pc |-> "send", kind |-> "patch", k |-> 0, data |-> flush']
         /\ DOMAIN flush' = Changed(old)
         /\ \A p \in Changed(old) : flush'[p] = weights[p]
<1> DEFINE patch == [p \in Changed(old) |-> weights[p]]
<1>1. Changed(old) \subseteq Params
  BY DEF Changed
<1>2. patch \in Partial
  BY <1>1, PartialIntro DEF Updated
<1>3. flush' = patch /\ sender' = [pc |-> "send", kind |-> "patch", k |-> 0, data |-> patch]
  BY DEF SendPatch
<1> QED BY <1>2, <1>3

LEMMA BucketType ==
  ASSUME weights \in Updated, NEW kind \in {"bucket", "init"}, NEW k \in 1..Last
  PROVE  Bucket(kind, k) \in [pc : {"idle", "called", "meta", "send", "sent"},
                 kind : {"bucket", "init", "patch"}, k : 0..Last, data : Partial]
<1> DEFINE d == [p \in {k} |-> weights[k]]
<1>0. Last \in Nat
  BY WeightSyncAssumption
<1>1. DOMAIN d \subseteq Params /\ \A p \in DOMAIN d : d[p] \in Values
  BY <1>0 DEF Params, Updated
<1>2. d \in Partial
  BY <1>1, PartialIntro
<1>3. Bucket(kind, k) = [pc |-> "send", kind |-> kind, k |-> k, data |-> d]
  BY DEF Bucket
<1> HIDE DEF d
<1> QED BY <1>0, <1>2, <1>3

-----------------------------------------------------------------------------
(* Type correctness *)

TaskType == [pc : {"none", "meta", "recv", "load", "done"}, k : Int,
             got : Partial, label : Nat, buffer : Partial]

LEMMA NoTaskType == NoTask \in TaskType
BY NonePartial DEF NoTask, TaskType

\* A receiver's first message on r.
First(r) == IsPatch /\ version[r] = -1

LEMMA BeginType ==
  ASSUME NEW r
  PROVE  /\ Begin(r) \in TaskType
         /\ Begin(r).pc = IF First(r) /\ r = 0 THEN "meta" ELSE "recv"
         /\ Begin(r).k = IF First(r) /\ mode.syncer = "patch_init" THEN -Last ELSE 0
         /\ Begin(r).got = None /\ Begin(r).buffer = None
<1> DEFINE pc == IF First(r) /\ r = 0 THEN "meta" ELSE "recv"
           k == IF First(r) /\ mode.syncer = "patch_init" THEN -Last ELSE 0
<1>1. pc \in {"meta", "recv"} /\ k \in Int
  BY WeightSyncAssumption
<1>2. Begin(r) = [NoTask EXCEPT !.pc = pc, !.k = k]
  BY DEF Begin, First
<1>3. NoTask.got = None /\ NoTask.buffer = None
  BY DEF NoTask
<1> HIDE DEF pc, k
<1>4. /\ Begin(r) \in TaskType /\ Begin(r).pc = pc /\ Begin(r).k = k
      /\ Begin(r).got = None /\ Begin(r).buffer = None
  BY <1>1, <1>2, <1>3, NoTaskType DEF TaskType
<1> QED BY <1>4 DEF pc, k

LEMMA QuietType ==
  Quiet \in [pc : {"idle", "called", "meta", "send", "sent"},
             kind : {"bucket", "init", "patch"}, k : 0..Last, data : Partial]
BY NonePartial, WeightSyncAssumption DEF Quiet

LEMMA InitTyped == Init => TypeOK
<1> SUFFICES ASSUME Init PROVE TypeOK
  OBVIOUS
<1> USE DEF Init
<1>1. weights \in Updated /\ policies \in Seq(Updated)
  BY WeightSyncAssumption DEF Updated
<1>2. task \in [Rollouts -> TaskType]
  BY NoTaskType
<1>3. flush \in Partial
  BY NonePartial
<1>4. model \in [Rollouts -> [Params -> Values \cup {-1}]]
  BY WeightSyncAssumption
<1>5. runner \in [pc : {"sync", "syncing", "train"}, step : Nat]
  OBVIOUS
<1>6. version \in [Rollouts -> Nat \cup {-1}]
  OBVIOUS
<1> QED BY <1>1, <1>2, <1>3, <1>4, <1>5, <1>6, QuietType, WeightSyncAssumption
        DEF TypeOK, TaskType

SenderType == [pc : {"idle", "called", "meta", "send", "sent"},
               kind : {"bucket", "init", "patch"}, k : 0..Last, data : Partial]

\* What r loads, and whether it is the last message.
LoadData(r) ==
  IF mode.syncer = "buffered"
  THEN [p \in DOMAIN task[r].buffer \cup DOMAIN task[r].got |->
          IF p \in DOMAIN task[r].got THEN task[r].got[p] ELSE task[r].buffer[p]]
  ELSE task[r].got
Ends(r) == IF IsPatch THEN task[r].k = 0 ELSE task[r].k + 1 = Last

LEMMA LoadDataType ==
  ASSUME NEW r, task[r] \in TaskType
  PROVE  LoadData(r) \in Partial
<1>1. task[r].buffer \in Partial /\ task[r].got \in Partial
  BY DEF TaskType
<1>2. CASE mode.syncer = "buffered"
  <2> DEFINE d == [p \in DOMAIN task[r].buffer \cup DOMAIN task[r].got |->
          IF p \in DOMAIN task[r].got THEN task[r].got[p] ELSE task[r].buffer[p]]
  <2>1. DOMAIN d \subseteq Params /\ \A p \in DOMAIN d : d[p] \in Values
    BY <1>1, PartialElim
  <2>2. d \in Partial
    BY <2>1, PartialIntro
  <2> QED BY <2>2, <1>2 DEF LoadData
<1> QED BY <1>1, <1>2 DEF LoadData

LEMMA NextTaskType ==
  ASSUME NEW t \in TaskType, NEW b \in Partial
  PROVE  LET u == [t EXCEPT !.pc = "recv", !.k = t.k + 1, !.got = None, !.buffer = b]
         IN  u \in TaskType /\ u.pc = "recv" /\ u.k = t.k + 1 /\ u.got = None /\ u.buffer = b
<1>1. t.k + 1 \in Int
  BY DEF TaskType
<1> QED BY <1>1, NonePartial DEF TaskType

LEMMA NextTyped == TypeOK /\ [Next]_vars => TypeOK'
<1> SUFFICES ASSUME TypeOK, [Next]_vars PROVE TypeOK'
  OBVIOUS
<1> USE DEF SenderType, TaskType
<1>t. /\ mode \in Modes /\ sender \in SenderType /\ weights \in Updated /\ flush \in Partial
      /\ runner \in [pc : {"sync", "syncing", "train"}, step : Nat]
      /\ task \in [Rollouts -> TaskType]
  BY DEF TypeOK
<1>p. ASSUME NEW old, SendPatch(old), mode' = mode, weights' = weights
      PROVE  sender' \in SenderType /\ flush' \in Partial
  <2>1. flush' \in Partial /\ sender' = [pc |-> "send", kind |-> "patch", k |-> 0, data |-> flush']
    BY <1>t, <1>p, SendPatchType
  <2>2. 0 \in 0..Last
    BY WeightSyncAssumption
  <2> QED BY <2>1, <2>2
<1>q. ASSUME NEW kind \in {"bucket", "init"}, NEW k \in 1..Last PROVE Bucket(kind, k) \in SenderType
  BY <1>t, BucketType
<1>l. 1 \in 1..Last
  BY WeightSyncAssumption
<1>1. CASE SenderStart
  <2> USE <1>1 DEF SenderStart
  <2>1. CASE ~IsPatch
    BY <2>1, <1>q, <1>l DEF TypeOK
  <2>2. CASE IsPatch /\ snapshot = <<>>
    BY <2>2, <1>t DEF TypeOK
  <2>3. CASE IsPatch /\ snapshot # <<>>
    <3>1. SendPatch(snapshot) /\ UNCHANGED snapshot
      BY <2>3
    <3> QED BY <3>1, <1>p DEF TypeOK
  <2> QED BY <2>1, <2>2, <2>3
<1>2. CASE Metadata
  <2> USE <1>2 DEF Metadata
  <2>1. task' \in [Rollouts -> TaskType]
    BY <1>t
  <2>2. CASE mode.syncer = "patch_init"
    <3>1. sender' = Bucket("init", 1) /\ UNCHANGED <<snapshot, flush>>
      BY <2>2
    <3>2. sender' \in SenderType
      BY <3>1, <1>q, <1>l
    <3> QED BY <2>1, <3>1, <3>2 DEF TypeOK
  <2>3. CASE mode.syncer # "patch_init"
    <3>1. snapshot' = weights /\ SendPatch(weights)
      BY <2>3 DEF SnapshotAndSync
    <3>2. sender' \in SenderType /\ flush' \in Partial /\ snapshot' # <<>>
      BY <3>1, <1>p, <1>t, WeightsNotEmpty
    <3> QED BY <2>1, <3>1, <3>2 DEF TypeOK
  <2> QED BY <2>2, <2>3
<1>3. CASE Broadcast
  <2>1. task' \in [Rollouts -> TaskType]
    BY <1>t, <1>3 DEF Broadcast
  <2>2. sender' \in SenderType
    BY <1>t, <1>3 DEF Broadcast
  <2> QED BY <2>1, <2>2, <1>3 DEF Broadcast, TypeOK
<1>4. CASE SenderResume
  <2> USE <1>4 DEF SenderResume
  <2>1. CASE sender.kind # "patch" /\ sender.k < Last
    <3>1. sender.k + 1 \in 1..Last /\ sender.kind \in {"bucket", "init"}
      BY <1>t, <2>1, WeightSyncAssumption
    <3> QED BY <2>1, <3>1, <1>q DEF TypeOK
  <2>2. CASE sender.kind = "init" /\ sender.k = Last
    <3>1. snapshot' = weights /\ SendPatch(weights)
      BY <2>2, WeightSyncAssumption DEF SnapshotAndSync
    <3>2. sender' \in SenderType /\ flush' \in Partial /\ snapshot' # <<>>
      BY <3>1, <1>p, <1>t, WeightsNotEmpty
    <3> QED BY <3>1, <3>2 DEF TypeOK
  <2>3. CASE sender.kind = "patch" \/ (sender.kind # "init" /\ ~(sender.k < Last))
    BY <2>3, QuietType DEF TypeOK
  <2>4. sender.kind = "patch" \/ sender.k < Last \/ sender.k = Last
    BY <1>t, WeightSyncAssumption
  <2> QED BY <2>1, <2>2, <2>3, <2>4
<1>5. CASE Flush
  <2>1. snapshot \in Updated
    BY <1>5 DEF Flush, TypeOK
  <2>2. snapshot' \in Updated
    BY <2>1, <1>t, <1>5, PartialElim, OverrideType DEF Flush, Updated
  <2> QED BY <2>2, <1>5, NonePartial DEF Flush, TypeOK
<1>6. ASSUME NEW r \in Rollouts, Load(r) PROVE TypeOK'
  <2>1. /\ task[r] \in TaskType /\ task[r].pc = "load"
        /\ UNCHANGED <<mode, runner, weights, policies, sender, snapshot, flush, call, requested>>
    BY <1>6, <1>t DEF Load
  <2>2. /\ LoadData(r) \in Partial
        /\ model' = IF Loads(r) THEN [model EXCEPT ![r] = Override(@, LoadData(r))] ELSE model
    BY <2>1, <1>6, LoadDataType DEF Load, LoadData
  <2>3. model' \in [Rollouts -> [Params -> Values \cup {-1}]]
    <3>1. Override(model[r], LoadData(r)) \in [Params -> Values \cup {-1}]
      BY <2>2, PartialElim, OverrideType DEF TypeOK
    <3> QED BY <3>1, <2>2 DEF TypeOK
  <2>4. CASE Ends(r)
    <3>1. /\ task' = [task EXCEPT ![r] = [NoTask EXCEPT !.pc = "done"]]
          /\ version' = [version EXCEPT ![r] = task[r].label]
      BY <2>4, <1>6 DEF Load, Ends
    <3>2. task' \in [Rollouts -> TaskType] /\ version' \in [Rollouts -> Nat \cup {-1}]
      BY <3>1, <2>1, <1>t, NoTaskType DEF TypeOK
    <3> QED BY <2>1, <2>3, <3>2 DEF TypeOK
  <2>5. CASE ~Ends(r)
    <3> DEFINE b == IF mode.syncer = "buffered" THEN LoadData(r) ELSE None
    <3>0. version' \in [Rollouts -> Nat \cup {-1}]
      BY <2>5, <1>6 DEF Load, Ends, TypeOK
    <3>1. task' = [task EXCEPT ![r] = [task[r] EXCEPT !.pc = "recv", !.k = task[r].k + 1,
                                                     !.got = None, !.buffer = b]]
      BY <2>5, <1>6 DEF Load, Ends, LoadData
    <3>2. b \in Partial
      BY <2>2, NonePartial
    <3> HIDE DEF b
    <3>4. [task[r] EXCEPT !.pc = "recv", !.k = task[r].k + 1, !.got = None, !.buffer = b] \in TaskType
      BY <2>1, <3>2, NextTaskType
    <3>3. task' \in [Rollouts -> TaskType]
      BY <3>1, <3>4, <1>t
    <3> QED BY <2>1, <2>3, <3>0, <3>3 DEF TypeOK
  <2> QED BY <2>4, <2>5
<1>7. ASSUME NEW r \in Rollouts, Serve(r) PROVE TypeOK'
  <2>1. task' \in [Rollouts -> TaskType]
    BY <1>t, <1>7, BeginType DEF Serve
  <2> QED BY <2>1, <1>7 DEF Serve, TypeOK
<1>8. ASSUME NEW r \in Rollouts, Poll(r) PROVE TypeOK'
  <2>1. task' \in [Rollouts -> TaskType]
    BY <1>t, <1>8, BeginType, NoTaskType DEF Poll
  <2> QED BY <2>1, <1>8 DEF Poll, TypeOK
<1>9. CASE UpdateWeights
  <2>1. sender' \in SenderType
    BY <1>9, QuietType DEF UpdateWeights, Synchronise
  <2>2. runner' \in [pc : {"sync", "syncing", "train"}, step : Nat]
    BY <1>t, <1>9 DEF UpdateWeights
  <2>3. policies' \in Seq(Updated)
    BY <1>t, <1>9 DEF UpdateWeights, TypeOK
  <2> QED BY <2>1, <2>2, <2>3, <1>9 DEF UpdateWeights, Synchronise, TypeOK
<1>10. CASE UpdateReturns
  BY <1>10, <1>t, NoTaskType DEF UpdateReturns, TypeOK
<1>11. CASE Train
  BY <1>11, <1>t DEF Train, TypeOK, Updated
<1>12. CASE RequestWeights
  <2>1. sender' \in SenderType
    BY <1>12, <1>t, QuietType DEF RequestWeights, Synchronise
  <2> QED BY <2>1, <1>12, <1>t DEF RequestWeights, Synchronise, TypeOK
<1>13. CASE UpdateEpoch
  BY <1>13 DEF UpdateEpoch, TypeOK, Updated
<1>14. CASE TrainingReturns
  BY <1>14, <1>t DEF TrainingReturns, TypeOK
<1>15. CASE UNCHANGED vars
  BY <1>15 DEF vars, TypeOK
<1> QED BY <1>1, <1>2, <1>3, <1>4, <1>5, <1>6, <1>7, <1>8, <1>9, <1>10, <1>11, <1>12, <1>13,
           <1>14, <1>15 DEF Next, Sender

-----------------------------------------------------------------------------
(* Everybody is at the message that comes *)

\* What Steps says of one rank.
StepsAt(r) == ProgressAt(r) /\ BeforeSnapshot(r) /\ TaskShape(r)

\* Nothing that ProgressAt(r) speaks of changes.
LEMMA Frame ==
  ASSUME NEW r, StepsAt(r), UNCHANGED <<mode, sender>>, snapshot = <<>> <=> snapshot' = <<>>,
         call'[r] = call[r], requested'[r] = requested[r], task'[r] = task[r],
         version'[r] = version[r]
  PROVE  StepsAt(r)'
<1>1. ProgressAt(r)'
  BY DEF StepsAt, ProgressAt, Rested, Asked, Joined, At, Free, Known, ThisNo, FirstNo, LastNo, IsPatch
<1>2. BeforeSnapshot(r)' /\ TaskShape(r)'
  BY DEF StepsAt, BeforeSnapshot, TaskShape, IsPatch
<1> QED BY <1>1, <1>2 DEF StepsAt

LEMMA InitSteps == Init => Steps
<1> SUFFICES ASSUME Init PROVE Steps
  OBVIOUS
<1>1. TypeOK
  BY InitTyped
<1>2. SenderShape /\ Waiting
  BY DEF Init, Quiet, NoTask, SenderShape, Waiting
<1>3. ASSUME NEW r \in Rollouts PROVE ProgressAt(r) /\ BeforeSnapshot(r) /\ TaskShape(r)
  <2>1. /\ task[r].pc = "none" /\ task[r].got = None /\ task[r].buffer = None
        /\ version[r] = -1 /\ snapshot = <<>> /\ sender.pc = "idle"
        /\ ~call[r] /\ ~requested[r]
    BY DEF Init, Quiet, NoTask
  <2> QED BY <2>1 DEF ProgressAt, BeforeSnapshot, TaskShape, Rested, Free, Known
<1> QED BY <1>1, <1>2, <1>3 DEF Steps

LEMMA SnapshotEmpty ==
  ASSUME TypeOK, TypeOK', UNCHANGED snapshot \/ Flush
  PROVE  snapshot = <<>> <=> snapshot' = <<>>
<1>1. CASE Flush
  <2>1. snapshot # <<>>
    BY <1>1 DEF Flush, TypeOK
  <2>2. snapshot' \in Updated
    BY <1>1, <2>1, PartialElim, OverrideType DEF Flush, TypeOK, Updated
  <2> QED BY <2>1, <2>2, WeightsNotEmpty
<1> QED BY <1>1

\* Load, as it changes one rank.
LEMMA LoadStep ==
  ASSUME TypeOK, NEW r \in Rollouts, Load(r)
  PROVE  /\ task[r].pc = "load"
         /\ Ends(r) =>
              /\ task'[r].pc = "done" /\ task'[r].got = None /\ task'[r].buffer = None
              /\ version'[r] = task[r].label /\ version'[r] \in Nat
         /\ ~Ends(r) =>
              /\ task'[r].pc = "recv" /\ task'[r].k = task[r].k + 1
              /\ task'[r].got = None
              /\ task'[r].buffer = IF mode.syncer = "buffered" THEN LoadData(r) ELSE None
              /\ version'[r] = version[r]
         /\ \A s \in Rollouts \ {r} : task'[s] = task[s] /\ version'[s] = version[s]
         /\ UNCHANGED <<mode, runner, weights, policies, sender, snapshot, flush, call, requested>>
<1>t. /\ task[r] \in TaskType /\ task \in [Rollouts -> TaskType]
      /\ version \in [Rollouts -> Nat \cup {-1}]
  BY DEF TypeOK, TaskType
<1>1. /\ task[r].pc = "load"
      /\ UNCHANGED <<mode, runner, weights, policies, sender, snapshot, flush, call, requested>>
  BY DEF Load
<1>2. CASE Ends(r)
  <2>1. /\ task' = [task EXCEPT ![r] = [NoTask EXCEPT !.pc = "done"]]
        /\ version' = [version EXCEPT ![r] = task[r].label]
    BY <1>2 DEF Load, Ends
  <2>2. LET u == [NoTask EXCEPT !.pc = "done"]
        IN  u.pc = "done" /\ u.got = None /\ u.buffer = None
    BY DEF NoTask
  <2>3. task[r].label \in Nat
    BY <1>t DEF TaskType
  <2> QED BY <1>1, <1>2, <2>1, <2>2, <2>3, <1>t
<1>3. CASE ~Ends(r)
  <2> DEFINE b == IF mode.syncer = "buffered" THEN LoadData(r) ELSE None
  <2>1. task' = [task EXCEPT ![r] = [task[r] EXCEPT !.pc = "recv", !.k = task[r].k + 1,
                                                   !.got = None, !.buffer = b]]
    BY <1>3 DEF Load, Ends, LoadData
  <2>2. version' = version
    BY <1>3 DEF Load, Ends
  <2>3. b \in Partial
    BY <1>t, LoadDataType, NonePartial
  <2> DEFINE u == [task[r] EXCEPT !.pc = "recv", !.k = task[r].k + 1, !.got = None, !.buffer = b]
  <2> HIDE DEF b
  <2>4. u.pc = "recv" /\ u.k = task[r].k + 1 /\ u.got = None /\ u.buffer = b
    BY <2>3, <1>t, NextTaskType
  <2>5. task' = [task EXCEPT ![r] = u]
    BY <2>1
  <2> HIDE DEF u
  <2>6. task'[r] = u /\ \A s \in Rollouts \ {r} : task'[s] = task[s]
    BY <2>5, <1>t
  <2>7. /\ task'[r].pc = "recv" /\ task'[r].k = task[r].k + 1 /\ task'[r].got = None
        /\ task'[r].buffer = b
    BY <2>4, <2>6
  <2> QED BY <1>1, <1>3, <2>2, <2>6, <2>7 DEF b
<1> QED BY <1>2, <1>3

LEMMA BroadcastStep ==
  ASSUME TypeOK, Broadcast
  PROVE  /\ sender.pc = "send" /\ sender'.pc = "sent" /\ sender'.kind = sender.kind
         /\ sender'.k = sender.k /\ sender'.data = sender.data
         /\ \A r \in Rollouts :
              /\ task[r].pc = "recv" /\ task'[r].pc = "load" /\ task'[r].k = task[r].k
              /\ task'[r].got = sender.data /\ task'[r].label = runner.step
              /\ task'[r].buffer = task[r].buffer
         /\ UNCHANGED <<mode, runner, weights, policies, snapshot, flush, call, requested, model, version>>
<1>1. /\ task \in [Rollouts -> TaskType] /\ sender \in SenderType
  BY DEF TypeOK, TaskType, SenderType
<1>2. /\ sender.pc = "send" /\ sender' = [sender EXCEPT !.pc = "sent"]
      /\ UNCHANGED <<mode, runner, weights, policies, snapshot, flush, call, requested, model, version>>
  BY DEF Broadcast
<1>3. sender'.pc = "sent" /\ sender'.kind = sender.kind /\ sender'.k = sender.k /\ sender'.data = sender.data
  BY <1>1, <1>2 DEF SenderType
<1>4. ASSUME NEW r \in Rollouts
      PROVE  /\ task[r].pc = "recv" /\ task'[r].pc = "load" /\ task'[r].k = task[r].k
             /\ task'[r].got = sender.data /\ task'[r].label = runner.step
             /\ task'[r].buffer = task[r].buffer
  <2>1. /\ task[r].pc = "recv"
        /\ task'[r] = [task[r] EXCEPT !.pc = "load", !.got = sender.data, !.label = runner.step]
    BY DEF Broadcast
  <2>2. task[r] \in TaskType
    BY <1>1
  <2> DEFINE u == [task[r] EXCEPT !.pc = "load", !.got = sender.data, !.label = runner.step]
  <2>3. /\ u.pc = "load" /\ u.k = task[r].k /\ u.got = sender.data
        /\ u.label = runner.step /\ u.buffer = task[r].buffer
    BY <2>2 DEF TaskType
  <2> HIDE DEF u
  <2> QED BY <2>1, <2>3 DEF u
<1> QED BY <1>2, <1>3, <1>4

\* SendPatch, and Bucket, as the receivers see them.
LEMMA PatchNumber ==
  ASSUME NEW old, weights \in Updated, SendPatch(old)
  PROVE  sender'.pc = "send" /\ sender'.kind = "patch" /\ ThisNo' = 0
BY SendPatchType DEF ThisNo

LEMMA BucketNumber ==
  ASSUME NEW kind \in {"bucket", "init"}, NEW k, sender' = Bucket(kind, k)
  PROVE  /\ sender'.pc = "send" /\ sender'.kind = kind /\ sender'.k = k
         /\ ThisNo' = IF kind = "init" THEN k - Last - 1 ELSE k - 1
BY DEF ThisNo, Bucket

LEMMA SenderStartSteps ==
  ASSUME Steps, TypeOK', SenderStart
  PROVE  Steps'
<1> USE DEF SenderStart
<1>t. Last \in Nat \ {0} /\ weights \in Updated
  BY WeightSyncAssumption DEF Steps, TypeOK
<1>s. ASSUME NEW r \in Rollouts
      PROVE  /\ Asked(r) \/ Joined(r)
             /\ Asked(r)' \/ Joined(r)'
             /\ BeforeSnapshot(r)' /\ TaskShape(r)'
  <2>1. StepsAt(r) /\ (Asked(r) \/ Joined(r)) /\ UNCHANGED snapshot
    BY DEF Steps, StepsAt, ProgressAt
  <2> QED BY <2>1 DEF StepsAt, Asked, Joined, Free, Known, FirstNo, LastNo, IsPatch,
                      BeforeSnapshot, TaskShape
<1>w. Waiting'
  BY DEF Steps, Waiting
<1>1. CASE ~IsPatch
  <2>1. sender' = Bucket("bucket", 1) /\ UNCHANGED snapshot
    BY <1>1
  <2>2. sender'.pc = "send" /\ sender'.kind = "bucket" /\ sender'.k = 1 /\ ThisNo' = 0
    BY <2>1, <1>t, BucketNumber
  <2>3. SenderShape' /\ FirstNo' = 0
    BY <2>2, <1>1 DEF SenderShape, FirstNo, IsPatch
  <2> QED BY <1>s, <1>w, <2>2, <2>3 DEF Steps, ProgressAt
<1>2. CASE IsPatch /\ snapshot = <<>>
  <2>1. sender' = [sender EXCEPT !.pc = "meta"] /\ UNCHANGED snapshot
    BY <1>2
  <2>2. sender'.pc = "meta"
    BY <2>1 DEF Steps, TypeOK
  <2>3. SenderShape'
    BY <2>1, <2>2, <1>2 DEF SenderShape, IsPatch
  <2> QED BY <1>s, <1>w, <2>2, <2>3 DEF Steps, ProgressAt
<1>3. CASE IsPatch /\ snapshot # <<>>
  <2>1. SendPatch(snapshot) /\ UNCHANGED snapshot
    BY <1>3
  <2>2. sender'.pc = "send" /\ sender'.kind = "patch" /\ ThisNo' = 0
    BY <2>1, <1>t, PatchNumber
  <2>3. SenderShape' /\ FirstNo' = 0
    BY <2>1, <2>2, <1>3 DEF SenderShape, FirstNo, IsPatch
  <2> QED BY <1>s, <1>w, <2>2, <2>3 DEF Steps, ProgressAt
<1> QED BY <1>1, <1>2, <1>3

LEMMA MetadataSteps ==
  ASSUME Steps, TypeOK', Metadata
  PROVE  Steps'
<1> USE DEF Metadata
<1>t. /\ Last \in Nat \ {0} /\ weights \in Updated /\ task \in [Rollouts -> TaskType]
      /\ 0 \in Rollouts
  BY WeightSyncAssumption DEF Steps, TypeOK, TaskType
<1>0. IsPatch /\ snapshot = <<>>
  BY DEF Steps, SenderShape
<1>1. /\ task'[0].pc = "recv" /\ task'[0].k = task[0].k /\ task'[0].got = task[0].got
      /\ task'[0].buffer = task[0].buffer
      /\ \A r \in Rollouts \ {0} : task'[r] = task[r]
  <2>1. task' = [task EXCEPT ![0].pc = "recv"] /\ task[0] \in TaskType
    BY <1>t
  <2> DEFINE u == [task[0] EXCEPT !.pc = "recv"]
  <2>2. u.pc = "recv" /\ u.k = task[0].k /\ u.got = task[0].got /\ u.buffer = task[0].buffer
    BY <2>1 DEF TaskType
  <2>3. task' = [task EXCEPT ![0] = u]
    BY <2>1
  <2> HIDE DEF u
  <2> QED BY <2>2, <2>3, <1>t
<1>w. Waiting'
  BY DEF Steps, Waiting
<1>z. Joined(0)
  BY <1>t DEF Steps, ProgressAt, Asked, Free
<1>2. CASE mode.syncer = "patch_init"
  <2>1. sender' = Bucket("init", 1) /\ UNCHANGED snapshot
    BY <1>2
  <2>2. sender'.pc = "send" /\ sender'.kind = "init" /\ sender'.k = 1 /\ ThisNo' = -Last
    BY <2>1, <1>t, BucketNumber
  <2>3. SenderShape' /\ FirstNo' = -Last /\ FirstNo = -Last
    BY <2>1, <2>2, <1>0, <1>2 DEF SenderShape, FirstNo, IsPatch
  <2>4. ASSUME NEW r \in Rollouts PROVE ProgressAt(r)' /\ BeforeSnapshot(r)' /\ TaskShape(r)'
    <3>1. StepsAt(r) /\ (Asked(r) \/ Joined(r))
      BY DEF Steps, StepsAt, ProgressAt
    <3>2. BeforeSnapshot(r)' /\ TaskShape(r)'
      BY <3>1, <1>1, <1>2, <2>1, <1>z DEF StepsAt, BeforeSnapshot, TaskShape, IsPatch
    <3>3. Asked(r)' \/ Joined(r)'
      BY <3>1, <1>1, <1>z, <2>1, <2>3 DEF Asked, Joined, Free, Known, LastNo, IsPatch
    <3> QED BY <2>2, <2>3, <3>2, <3>3 DEF ProgressAt
  <2> QED BY <1>w, <2>3, <2>4 DEF Steps
<1>3. CASE mode.syncer # "patch_init"
  <2>0. mode.syncer = "patch" /\ FirstNo = 0
    BY <1>0, <1>3 DEF IsPatch, FirstNo
  <2>1. snapshot' = weights /\ SendPatch(weights)
    BY <1>3 DEF SnapshotAndSync
  <2>2. sender'.pc = "send" /\ sender'.kind = "patch" /\ ThisNo' = 0
    BY <2>1, <1>t, PatchNumber
  <2>3. SenderShape' /\ FirstNo' = 0 /\ snapshot' # <<>>
    BY <2>0, <2>1, <2>2, <1>t, WeightsNotEmpty DEF SenderShape, FirstNo, IsPatch
  <2>4. ASSUME NEW r \in Rollouts PROVE ProgressAt(r)' /\ BeforeSnapshot(r)' /\ TaskShape(r)'
    <3>1. StepsAt(r) /\ (Asked(r) \/ Joined(r))
      BY DEF Steps, StepsAt, ProgressAt
    <3>2. BeforeSnapshot(r)' /\ TaskShape(r)'
      BY <3>1, <1>1, <2>0, <2>3, <1>z DEF StepsAt, BeforeSnapshot, TaskShape, IsPatch, Joined
    <3>3. Asked(r)' \/ Joined(r)'
      BY <3>1, <1>1, <1>z, <2>0, <2>3 DEF Asked, Joined, Free, Known, LastNo, IsPatch
    <3> QED BY <2>2, <2>3, <3>2, <3>3 DEF ProgressAt
  <2> QED BY <1>w, <2>3, <2>4 DEF Steps
<1> QED BY <1>2, <1>3

LEMMA BroadcastSteps ==
  ASSUME Steps, TypeOK', Broadcast
  PROVE  Steps'
<1>t. Last \in Nat \ {0} /\ TypeOK /\ sender.k \in 0..Last /\ sender.kind \in {"bucket", "init", "patch"}
  BY WeightSyncAssumption DEF Steps, TypeOK
<1>b. /\ sender.pc = "send" /\ sender'.pc = "sent" /\ sender'.kind = sender.kind
      /\ sender'.k = sender.k
      /\ \A r \in Rollouts :
           /\ task[r].pc = "recv" /\ task'[r].pc = "load" /\ task'[r].k = task[r].k
           /\ task'[r].buffer = task[r].buffer
      /\ UNCHANGED <<mode, runner, snapshot, call, requested, version>>
  BY <1>t, BroadcastStep
<1>h. SenderShape
  BY DEF Steps
<1>1. SenderShape' /\ ThisNo' = ThisNo /\ FirstNo' = FirstNo /\ LastNo' = LastNo
  BY <1>b, <1>h DEF SenderShape, ThisNo, FirstNo, LastNo, IsPatch
<1>2. Waiting'
  BY <1>b DEF Steps, Waiting
<1>3. ASSUME NEW r \in Rollouts PROVE ProgressAt(r)' /\ BeforeSnapshot(r)' /\ TaskShape(r)'
  <2>1. ProgressAt(r) /\ BeforeSnapshot(r) /\ TaskShape(r)
    BY DEF Steps
  <2>2. ~call[r] /\ ~requested[r] /\ task[r].k = ThisNo
    BY <1>b, <2>1 DEF ProgressAt, Asked, Joined, At, Free
  <2>3. IsPatch /\ snapshot = <<>> => sender.kind = "init" /\ ThisNo < 0
    BY <1>t, <1>h, <1>b DEF SenderShape, ThisNo
  <2>4. TaskShape(r)'
    BY <1>b, <2>1 DEF TaskShape, IsPatch
  <2>5. BeforeSnapshot(r)'
    BY <1>b, <2>1, <2>2, <2>3 DEF BeforeSnapshot, IsPatch
  <2>6. CASE ThisNo = LastNo
    <3>1. IsPatch => snapshot # <<>>
      BY <2>3, <2>6 DEF LastNo
    <3>2. Rested(r)'
      BY <3>1, <1>1, <1>b, <2>2, <2>6 DEF Rested, Free, Known, IsPatch
    <3> QED BY <3>2, <2>4, <2>5, <2>6, <1>1, <1>b DEF ProgressAt
  <2>7. CASE ThisNo # LastNo
    <3>1. At(r, "load", ThisNo)'
      BY <1>1, <1>b, <2>2 DEF At
    <3> QED BY <3>1, <2>4, <2>5, <2>7, <1>1, <1>b DEF ProgressAt
  <2> QED BY <2>6, <2>7
<1> QED BY <1>1, <1>2, <1>3 DEF Steps

LEMMA SenderResumeSteps ==
  ASSUME Steps, TypeOK', SenderResume
  PROVE  Steps'
<1>u. UNCHANGED <<mode, runner, weights, policies, call, requested, task, model, version>>
  BY DEF SenderResume
<1>t. /\ Last \in Nat \ {0} /\ weights \in Updated /\ sender.k \in 0..Last
      /\ sender.kind \in {"bucket", "init", "patch"}
  BY WeightSyncAssumption DEF Steps, TypeOK
<1>h. SenderShape /\ sender.pc = "sent"
  BY DEF Steps, SenderResume
<1>w. runner.pc = "syncing" \/ mode.noWait
  BY <1>h DEF Steps, Waiting
<1>1. CASE sender.kind # "patch" /\ sender.k < Last
  <2>1. sender' = Bucket(sender.kind, sender.k + 1) /\ UNCHANGED snapshot
    BY <1>1, <1>t DEF SenderResume
  <2>2. /\ sender'.pc = "send" /\ sender'.kind = sender.kind /\ sender'.k = sender.k + 1
        /\ ThisNo' = ThisNo + 1 /\ ThisNo # LastNo
    <3>1. sender.kind \in {"bucket", "init"}
      BY <1>1, <1>t
    <3> DEFINE n == sender.k + 1
    <3>2. sender' = Bucket(sender.kind, n) /\ n = sender.k + 1
      BY <2>1
    <3> HIDE DEF n
    <3>5. /\ sender'.pc = "send" /\ sender'.kind = sender.kind /\ sender'.k = n
          /\ ThisNo' = IF sender.kind = "init" THEN n - Last - 1 ELSE n - 1
      BY <3>1, <3>2, BucketNumber
    <3>3. ThisNo = IF sender.kind = "init" THEN sender.k - Last - 1 ELSE sender.k - 1
      BY <3>1 DEF ThisNo
    <3>4. LastNo = IF sender.kind = "init" THEN 0 ELSE Last - 1
      BY <3>1, <1>h DEF LastNo, SenderShape, IsPatch
    <3> QED BY <3>2, <3>3, <3>4, <3>5, <1>1, <1>t
  <2>3. SenderShape'
    BY <1>u, <2>1, <2>2, <1>1, <1>h, <1>t DEF SenderShape, IsPatch
  <2>4. ASSUME NEW r \in Rollouts PROVE ProgressAt(r)' /\ BeforeSnapshot(r)' /\ TaskShape(r)'
    <3>1. /\ StepsAt(r) /\ (At(r, "load", ThisNo) \/ At(r, "recv", ThisNo + 1))
      BY <1>h, <2>2 DEF Steps, StepsAt, ProgressAt
    <3>0. ThisNo \in Int
      BY <1>t DEF ThisNo
    <3>2. At(r, "load", ThisNo - 1)' \/ At(r, "recv", ThisNo)'
      BY <1>u, <3>0, <3>1, <2>2 DEF At
    <3>3. BeforeSnapshot(r)' /\ TaskShape(r)'
      BY <1>u, <3>1, <2>1 DEF StepsAt, BeforeSnapshot, TaskShape, IsPatch
    <3> QED BY <3>2, <3>3, <2>2 DEF ProgressAt
  <2>5. Waiting'
    BY <1>w, <1>u DEF Waiting
  <2> QED BY <2>3, <2>4, <2>5 DEF Steps
<1>2. CASE sender.kind = "init" /\ sender.k = Last
  <2>1. snapshot' = weights /\ SendPatch(weights)
    BY <1>2, <1>t DEF SenderResume, SnapshotAndSync
  <2>2. /\ sender'.pc = "send" /\ sender'.kind = "patch" /\ ThisNo' = 0 /\ snapshot' # <<>>
        /\ ThisNo = -1 /\ LastNo = 0 /\ IsPatch
    BY <2>1, <1>t, <1>2, <1>h, PatchNumber, WeightsNotEmpty DEF ThisNo, LastNo, SenderShape, IsPatch
  <2>3. SenderShape'
    BY <1>u, <2>2 DEF SenderShape, IsPatch
  <2>4. ASSUME NEW r \in Rollouts PROVE ProgressAt(r)' /\ BeforeSnapshot(r)' /\ TaskShape(r)'
    <3>1. StepsAt(r) /\ (At(r, "load", -1) \/ At(r, "recv", 0))
      BY <1>h, <2>2 DEF Steps, StepsAt, ProgressAt
    <3>2. At(r, "load", ThisNo - 1)' \/ At(r, "recv", ThisNo)'
      BY <1>u, <3>1, <2>2 DEF At
    <3>3. BeforeSnapshot(r)' /\ TaskShape(r)'
      BY <1>u, <3>1, <2>2 DEF StepsAt, BeforeSnapshot, TaskShape, IsPatch
    <3> QED BY <3>2, <3>3, <2>2 DEF ProgressAt
  <2>5. Waiting'
    BY <1>w, <1>u DEF Waiting
  <2> QED BY <2>3, <2>4, <2>5 DEF Steps
<1>3. CASE sender.kind = "patch" \/ (sender.kind = "bucket" /\ sender.k = Last)
  <2>1. sender' = Quiet /\ UNCHANGED snapshot
    BY <1>3, <1>t DEF SenderResume
  <2>2. sender'.pc = "idle" /\ ThisNo = LastNo
    BY <2>1, <1>3, <1>h DEF Quiet, ThisNo, LastNo, SenderShape
  <2>3. SenderShape'
    BY <1>u, <2>2 DEF SenderShape
  <2>4. ASSUME NEW r \in Rollouts PROVE ProgressAt(r)' /\ BeforeSnapshot(r)' /\ TaskShape(r)'
    <3>1. StepsAt(r) /\ Rested(r)
      BY <1>h, <2>2 DEF Steps, StepsAt, ProgressAt
    <3>2. Rested(r)'
      BY <1>u, <3>1, <2>1 DEF Rested, Free, Known, LastNo, IsPatch
    <3>3. BeforeSnapshot(r)' /\ TaskShape(r)'
      BY <1>u, <3>1, <2>1 DEF StepsAt, BeforeSnapshot, TaskShape, IsPatch
    <3> QED BY <3>2, <3>3, <2>2 DEF ProgressAt
  <2>5. Waiting'
    BY <1>w, <1>u DEF Waiting
  <2> QED BY <2>3, <2>4, <2>5 DEF Steps
<1> QED BY <1>1, <1>2, <1>3, <1>t

LEMMA FlushSteps ==
  ASSUME Steps, TypeOK', Flush
  PROVE  Steps'
<1>1. TypeOK /\ SenderShape /\ Waiting /\ \A r \in Rollouts : StepsAt(r)
  BY DEF Steps, StepsAt
<1>2. snapshot = <<>> <=> snapshot' = <<>>
  BY <1>1, SnapshotEmpty
<1>3. UNCHANGED <<mode, runner, sender, call, requested, task, version>>
  BY DEF Flush
<1>4. SenderShape' /\ Waiting'
  BY <1>1, <1>2, <1>3 DEF SenderShape, Waiting, IsPatch
<1>5. ASSUME NEW r \in Rollouts PROVE StepsAt(r)'
  BY <1>1, <1>2, <1>3, Frame
<1> QED BY <1>4, <1>5 DEF Steps, StepsAt

LEMMA LoadSteps ==
  ASSUME Steps, TypeOK', NEW r \in Rollouts, Load(r)
  PROVE  Steps'
<1>0. /\ TypeOK /\ SenderShape /\ Waiting /\ \A s \in Rollouts : StepsAt(s)
      /\ sender.k \in 0..Last /\ sender.kind \in {"bucket", "init", "patch"} /\ Last \in Nat \ {0}
      /\ task[r].k \in Int
  BY WeightSyncAssumption DEF Steps, StepsAt, TypeOK
<1>1. /\ task[r].pc = "load"
      /\ Ends(r) =>
           /\ task'[r].pc = "done" /\ task'[r].got = None /\ task'[r].buffer = None
           /\ version'[r] \in Nat
      /\ ~Ends(r) =>
           /\ task'[r].pc = "recv" /\ task'[r].k = task[r].k + 1 /\ task'[r].got = None
           /\ (mode.syncer # "buffered" => task'[r].buffer = None) /\ version'[r] = version[r]
      /\ \A s \in Rollouts \ {r} : task'[s] = task[s] /\ version'[s] = version[s]
      /\ UNCHANGED <<mode, runner, sender, snapshot, flush, call, requested>>
  BY <1>0, LoadStep
<1>2. SenderShape' /\ Waiting'
  BY <1>0, <1>1 DEF SenderShape, Waiting, IsPatch
<1>3. ASSUME NEW s \in Rollouts \ {r} PROVE StepsAt(s)'
  BY <1>0, <1>1, Frame
<1>4. StepsAt(r)'
  <2>0. ProgressAt(r) /\ BeforeSnapshot(r) /\ TaskShape(r)
    BY <1>0 DEF StepsAt
  <2>u. ThisNo' = ThisNo /\ FirstNo' = FirstNo /\ LastNo' = LastNo /\ (IsPatch' <=> IsPatch)
    BY <1>1 DEF ThisNo, FirstNo, LastNo, IsPatch
  <2>e. Ends(r) <=> task[r].k = LastNo
    BY <1>0 DEF Ends, LastNo
  <2>i. IsPatch /\ task[r].k # 0 => version[r] = -1 /\ ~Ends(r)
    BY <2>0, <1>1 DEF TaskShape, Ends
  <2>1. BeforeSnapshot(r)' /\ TaskShape(r)'
    <3>1. BeforeSnapshot(r)'
      BY <2>0, <2>i, <2>u, <1>1 DEF BeforeSnapshot
    <3>2. IsPatch /\ ~Ends(r) => version'[r] = -1
      BY <2>i, <1>1 DEF Ends
    <3>3. TaskShape(r)'
      BY <3>2, <2>u, <1>1 DEF TaskShape
    <3> QED BY <3>1, <3>3
  <2>2. ASSUME Free(r), Known(r) PROVE Free(r)' /\ Known(r)' /\ task'[r].pc = "done"
    BY <2>2, <2>e, <1>1 DEF Free, Known, IsPatch
  <2>3. CASE sender.pc \in {"idle", "called", "meta"} \/ (sender.pc = "sent" /\ ThisNo = LastNo)
    BY <2>0, <2>1, <2>2, <2>3, <2>u, <1>1 DEF StepsAt, ProgressAt, Rested, Asked, Joined
  <2>4. CASE sender.pc = "send"
    <3>1. CASE At(r, "load", ThisNo - 1)
      <4>1. task[r].k = ThisNo - 1 /\ task[r].k # LastNo /\ ThisNo \in Int
        BY <3>1, <2>4, <1>0 DEF At, ThisNo, LastNo, SenderShape
      <4>2. At(r, "recv", ThisNo)'
        BY <4>1, <3>1, <2>e, <2>u, <1>1 DEF At
      <4> QED BY <4>2, <2>4, <2>1, <1>1 DEF StepsAt, ProgressAt
    <3>2. CASE ThisNo = FirstNo /\ Asked(r)
      <4>1. ThisNo' = FirstNo' /\ Asked(r)'
        BY <3>2, <2>2, <2>u, <1>1 DEF Asked
      <4> QED BY <4>1, <2>4, <2>1, <1>1 DEF StepsAt, ProgressAt
    <3> QED BY <3>1, <3>2, <2>4, <2>0, <1>1 DEF ProgressAt, Joined, At
  <2>5. CASE sender.pc = "sent" /\ ThisNo # LastNo
    <3>1. task[r].k = ThisNo /\ At(r, "load", ThisNo)
      BY <2>5, <2>0, <1>1 DEF ProgressAt, At
    <3>2. At(r, "recv", ThisNo + 1)'
      BY <3>1, <2>5, <2>e, <2>u, <1>1 DEF At
    <3> QED BY <3>2, <2>5, <2>1, <2>u, <1>1 DEF StepsAt, ProgressAt
  <2>6. sender.pc \in {"idle", "called", "meta", "send", "sent"}
    BY <1>0 DEF TypeOK
  <2> QED BY <2>3, <2>4, <2>5, <2>6
<1> QED BY <1>2, <1>3, <1>4 DEF Steps, StepsAt

\* A task that begins expects the first message of the synchronisation.
LEMMA BeginSteps ==
  ASSUME TypeOK, NEW r \in Rollouts, Known(r), task[r].pc # "load", task'[r] = Begin(r),
         UNCHANGED <<mode, snapshot, version>>, BeforeSnapshot(r), ~call'[r], ~requested'[r]
  PROVE  Joined(r)' /\ BeforeSnapshot(r)' /\ TaskShape(r)'
<1>1. /\ task'[r].pc = IF First(r) /\ r = 0 THEN "meta" ELSE "recv"
      /\ task'[r].k = IF First(r) /\ mode.syncer = "patch_init" THEN -Last ELSE 0
      /\ task'[r].got = None /\ task'[r].buffer = None
  BY BeginType
<1>2. mode.syncer = "patch_init" => (First(r) <=> snapshot = <<>>)
  BY DEF Known, First, IsPatch
<1>3. Joined(r)'
  BY <1>1, <1>2 DEF Joined, FirstNo, First
<1>4. BeforeSnapshot(r)'
  BY <1>1 DEF BeforeSnapshot, IsPatch
<1>5. TaskShape(r)'
  BY <1>1 DEF TaskShape, IsPatch, First
<1> QED BY <1>3, <1>4, <1>5

LEMMA ServeSteps ==
  ASSUME Steps, TypeOK', NEW r \in Rollouts, Serve(r)
  PROVE  Steps'
<1>0. /\ TypeOK /\ SenderShape /\ Waiting /\ \A s \in Rollouts : StepsAt(s)
      /\ sender.pc \in {"idle", "called", "meta", "send", "sent"}
      /\ task \in [Rollouts -> TaskType] /\ call \in [Rollouts -> BOOLEAN]
      /\ requested \in [Rollouts -> BOOLEAN]
  BY DEF Steps, StepsAt, TypeOK, TaskType
<1>1. /\ call[r] /\ ~call'[r] /\ \A s \in Rollouts \ {r} : call'[s] = call[s]
      /\ UNCHANGED <<mode, runner, sender, snapshot, version>>
  BY <1>0 DEF Serve
<1>2. IF task[r].pc = "none" THEN task' = [task EXCEPT ![r] = Begin(r)] /\ requested' = requested
      ELSE mode.noWait /\ requested' = [requested EXCEPT ![r] = TRUE] /\ task' = task
  BY DEF Serve
<1>p. ProgressAt(r) /\ BeforeSnapshot(r) /\ TaskShape(r)
  BY <1>0 DEF StepsAt
<1>3. /\ sender.pc \in {"called", "meta"} \/ (sender.pc = "send" /\ ThisNo = FirstNo)
      /\ Asked(r) /\ ~requested[r]
  BY <1>0, <1>1, <1>p DEF ProgressAt, Rested, Asked, Joined, At
<1>4. SenderShape' /\ Waiting'
  BY <1>0, <1>1, <1>2, <1>3 DEF SenderShape, Waiting, IsPatch
<1>5. ASSUME NEW s \in Rollouts \ {r} PROVE StepsAt(s)'
  <2>1. call'[s] = call[s] /\ requested'[s] = requested[s] /\ task'[s] = task[s]
    BY <1>0, <1>1, <1>2
  <2> QED BY <2>1, <1>0, <1>1, Frame
<1>6. (Asked(r)' \/ Joined(r)') /\ BeforeSnapshot(r)' /\ TaskShape(r)'
  <2>1. CASE task[r].pc = "none"
    <3>1. task'[r] = Begin(r) /\ ~requested'[r]
      BY <2>1, <1>0, <1>2, <1>3
    <3>2. Known(r)
      BY <1>3 DEF Asked
    <3> QED BY <3>1, <3>2, <2>1, <1>0, <1>1, <1>p, BeginSteps
  <2>2. CASE task[r].pc # "none"
    <3>1. task'[r] = task[r] /\ requested'[r]
      BY <2>2, <1>0, <1>2
    <3> QED BY <3>1, <2>2, <1>1, <1>3, <1>p DEF Asked, Free, Known, LastNo, IsPatch, BeforeSnapshot, TaskShape
  <2> QED BY <2>1, <2>2
<1>7. StepsAt(r)'
  <2>1. ThisNo' = ThisNo /\ FirstNo' = FirstNo
    BY <1>1 DEF ThisNo, FirstNo
  <2> QED BY <2>1, <1>1, <1>3, <1>6 DEF StepsAt, ProgressAt
<1> QED BY <1>4, <1>5, <1>7 DEF Steps, StepsAt

LEMMA PollSteps ==
  ASSUME Steps, TypeOK', NEW r \in Rollouts, Poll(r)
  PROVE  Steps'
<1>0. /\ TypeOK /\ SenderShape /\ Waiting /\ \A s \in Rollouts : StepsAt(s)
      /\ sender.pc \in {"idle", "called", "meta", "send", "sent"}
      /\ task \in [Rollouts -> TaskType] /\ requested \in [Rollouts -> BOOLEAN]
  BY DEF Steps, StepsAt, TypeOK, TaskType
<1>1. /\ mode.noWait /\ task[r].pc = "done" /\ ~requested'[r]
      /\ task'[r] = IF requested[r] THEN Begin(r) ELSE NoTask
      /\ \A s \in Rollouts \ {r} : task'[s] = task[s] /\ requested'[s] = requested[s]
      /\ UNCHANGED <<mode, runner, sender, snapshot, call, version>>
  BY <1>0 DEF Poll
<1>p. ProgressAt(r) /\ BeforeSnapshot(r) /\ TaskShape(r)
  BY <1>0 DEF StepsAt
<1>4. SenderShape' /\ Waiting'
  BY <1>0, <1>1 DEF SenderShape, Waiting, IsPatch
<1>5. ASSUME NEW s \in Rollouts \ {r} PROVE StepsAt(s)'
  BY <1>0, <1>1, Frame
<1>n. ThisNo' = ThisNo /\ FirstNo' = FirstNo /\ LastNo' = LastNo
  BY <1>1 DEF ThisNo, FirstNo, LastNo, IsPatch
<1>6. CASE requested[r]
  <2>1. /\ sender.pc \in {"called", "meta"} \/ (sender.pc = "send" /\ ThisNo = FirstNo)
        /\ Asked(r) /\ ~call[r]
    BY <1>0, <1>1, <1>6, <1>p DEF ProgressAt, Rested, Asked, Joined, At
  <2>2. Joined(r)' /\ BeforeSnapshot(r)' /\ TaskShape(r)'
    <3>1. Known(r) /\ task'[r] = Begin(r)
      BY <1>1, <1>6, <2>1 DEF Asked
    <3> QED BY <3>1, <2>1, <1>0, <1>1, <1>p, BeginSteps
  <2>3. StepsAt(r)'
    BY <2>1, <2>2, <1>1, <1>n DEF StepsAt, ProgressAt
  <2> QED BY <2>3, <1>4, <1>5 DEF Steps, StepsAt
<1>7. CASE ~requested[r]
  <2>1. task'[r].pc = "none" /\ task'[r].got = None /\ task'[r].buffer = None
    BY <1>1, <1>7 DEF NoTask
  <2>2. BeforeSnapshot(r)' /\ TaskShape(r)'
    BY <2>1, <1>1, <1>p DEF BeforeSnapshot, TaskShape, IsPatch
  <2>3. /\ Rested(r) => Rested(r)'
        /\ Asked(r) => Asked(r)'
        /\ ~Joined(r)
    BY <2>1, <1>1, <1>7, <1>n DEF Rested, Asked, Joined, At, Free, Known, IsPatch
  <2>5. ~At(r, "load", ThisNo - 1) /\ ~At(r, "recv", ThisNo) /\ ~At(r, "load", ThisNo) /\ ~At(r, "recv", ThisNo + 1)
    BY <1>1 DEF At
  <2>6. StepsAt(r)'
    BY <2>2, <2>3, <2>5, <1>1, <1>n, <1>p DEF StepsAt, ProgressAt
  <2> QED BY <2>6, <1>4, <1>5 DEF Steps, StepsAt
<1> QED BY <1>6, <1>7

\* Between two synchronisations everybody is asked.
LEMMA SynchroniseSteps ==
  ASSUME Steps, sender.pc = "idle", Synchronise,
         UNCHANGED <<mode, snapshot, requested, task, version>>
  PROVE  /\ SenderShape' /\ \A r \in Rollouts : StepsAt(r)'
         /\ sender'.pc = "called"
<1>1. sender'.pc = "called" /\ \A r \in Rollouts : call'[r]
  BY DEF Synchronise, Quiet
<1>2. SenderShape'
  BY <1>1 DEF SenderShape
<1>3. ASSUME NEW r \in Rollouts PROVE StepsAt(r)'
  <2>1. Rested(r) /\ BeforeSnapshot(r) /\ TaskShape(r)
    BY DEF Steps, ProgressAt
  <2>2. Asked(r)' /\ BeforeSnapshot(r)' /\ TaskShape(r)'
    BY <1>1, <2>1 DEF Rested, Asked, Free, Known, LastNo, IsPatch, BeforeSnapshot, TaskShape
  <2> QED BY <1>1, <2>2 DEF StepsAt, ProgressAt
<1> QED BY <1>1, <1>2, <1>3

LEMMA RunnerSteps ==
  ASSUME Steps, TypeOK',
         UpdateWeights \/ UpdateReturns \/ Train \/ RequestWeights \/ UpdateEpoch \/ TrainingReturns
  PROVE  Steps'
<1>0. SenderShape /\ Waiting /\ \A s \in Rollouts : StepsAt(s)
  BY DEF Steps, StepsAt
<1>f. ASSUME UNCHANGED <<mode, sender, snapshot, call, requested, task, version>>
      PROVE  SenderShape' /\ \A s \in Rollouts : StepsAt(s)'
  BY <1>0, <1>f, Frame DEF SenderShape, IsPatch
<1>1. CASE UpdateWeights
  <2>1. /\ ~mode.noWait /\ runner.pc = "sync" /\ Synchronise
        /\ UNCHANGED <<mode, snapshot, requested, task, version>>
    BY <1>1 DEF UpdateWeights
  <2>2. runner'.pc = "syncing"
    BY <1>1 DEF UpdateWeights, Steps, TypeOK
  <2>3. sender.pc = "idle"
    BY <1>0, <2>1 DEF Waiting
  <2>4. SenderShape' /\ (\A r \in Rollouts : StepsAt(r)') /\ Waiting'
    BY <2>1, <2>2, <2>3, SynchroniseSteps DEF Waiting
  <2> QED BY <2>4 DEF Steps, StepsAt
<1>2. CASE UpdateReturns
  <2>1. /\ sender.pc = "idle" /\ \A r \in Rollouts : ~call[r] /\ task[r].pc = "done"
        /\ \A r \in Rollouts : task'[r] = NoTask
        /\ UNCHANGED <<mode, sender, snapshot, call, requested, version>>
    BY <1>2 DEF UpdateReturns, Handled
  <2>2. ASSUME NEW r \in Rollouts PROVE StepsAt(r)' /\ task'[r].pc = "none"
    <3>1. task'[r].pc = "none" /\ task'[r].got = None /\ task'[r].buffer = None
      BY <2>1 DEF NoTask
    <3>2. Rested(r) /\ BeforeSnapshot(r)
      BY <2>1 DEF Steps, ProgressAt
    <3>3. Rested(r)' /\ BeforeSnapshot(r)' /\ TaskShape(r)'
      BY <3>1, <3>2, <2>1 DEF Rested, Free, Known, IsPatch, BeforeSnapshot, TaskShape
    <3> QED BY <3>1, <3>3, <2>1 DEF StepsAt, ProgressAt
  <2>3. SenderShape' /\ Waiting'
    BY <1>0, <2>1, <2>2 DEF SenderShape, Waiting, IsPatch
  <2> QED BY <2>2, <2>3 DEF Steps, StepsAt
<1>3. CASE Train
  <2>1. Waiting'
    BY <1>0, <1>3 DEF Train, Waiting
  <2> QED BY <1>3, <1>f, <2>1 DEF Train, Steps, StepsAt
<1>4. CASE RequestWeights
  <2>1. mode.noWait /\ UNCHANGED <<mode, snapshot, requested, task, version>>
    BY <1>4 DEF RequestWeights
  <2>2. Waiting'
    BY <2>1 DEF Waiting
  <2>3. CASE Handled
    <3>1. Synchronise /\ sender.pc = "idle"
      BY <2>3, <1>4 DEF RequestWeights, Handled
    <3> QED BY <3>1, <2>1, <2>2, SynchroniseSteps DEF Steps, StepsAt
  <2>4. CASE ~Handled
    BY <2>1, <2>2, <2>4, <1>4, <1>f DEF RequestWeights, Steps, StepsAt
  <2> QED BY <2>3, <2>4
<1>5. CASE UpdateEpoch
  <2>1. Waiting'
    BY <1>0, <1>5 DEF UpdateEpoch, Waiting
  <2> QED BY <1>5, <1>f, <2>1 DEF UpdateEpoch, Steps, StepsAt
<1>6. CASE TrainingReturns
  <2>1. Waiting'
    BY <1>0, <1>6 DEF TrainingReturns, Waiting
  <2> QED BY <1>6, <1>f, <2>1 DEF TrainingReturns, Steps, StepsAt
<1> QED BY <1>1, <1>2, <1>3, <1>4, <1>5, <1>6

LEMMA NextSteps == Steps /\ [Next]_vars => Steps'
<1> SUFFICES ASSUME Steps, [Next]_vars PROVE Steps'
  OBVIOUS
<1>t. TypeOK'
  BY NextTyped DEF Steps
<1>1. CASE Sender
  BY <1>1, <1>t, SenderStartSteps, MetadataSteps, BroadcastSteps, SenderResumeSteps DEF Sender
<1>2. CASE Flush
  BY <1>2, <1>t, FlushSteps
<1>3. CASE \E r \in Rollouts : Load(r) \/ Serve(r) \/ Poll(r)
  BY <1>3, <1>t, LoadSteps, ServeSteps, PollSteps
<1>4. CASE UpdateWeights \/ UpdateReturns \/ Train \/ RequestWeights \/ UpdateEpoch \/ TrainingReturns
  BY <1>4, <1>t, RunnerSteps
<1>5. CASE UNCHANGED vars
  <2>1. UNCHANGED <<mode, runner, sender, snapshot, call, requested, task, version>>
    BY <1>5 DEF vars
  <2>2. SenderShape' /\ Waiting' /\ \A s \in Rollouts : StepsAt(s)'
    BY <2>1, Frame DEF Steps, StepsAt, SenderShape, Waiting, IsPatch
  <2> QED BY <1>t, <2>2 DEF Steps, StepsAt
<1> QED BY <1>1, <1>2, <1>3, <1>4, <1>5 DEF Next

\* Types, and who has reached which message, are as Steps says (all modes).
THEOREM StepsInvariance == Spec => []Steps
BY InitSteps, NextSteps, PTL DEF Spec

\* Every receiver waits for the kind and the number of the message that is sent,
\* for any number of parameters and ranks, in every mode of both syncers.
THEOREM ReceiversInStep == Spec => []InStep
<1>1. Steps => InStep
  <2> SUFFICES ASSUME Steps, sender.pc = "send", NEW r \in Rollouts, task[r].pc = "recv"
               PROVE  task[r].k = ThisNo
    BY DEF InStep, ThisNo, Steps, TypeOK
  <2> QED BY DEF Steps, ProgressAt, Asked, Joined, At, Free
<1> QED BY <1>1, StepsInvariance, PTL


-----------------------------------------------------------------------------
(***************************************************************************)
(* Proofs about what the rollouts have received, given that they are in     *)
(* step (WeightSyncProofs).                                                 *)
(***************************************************************************)

-----------------------------------------------------------------------------
(* How a step changes Received *)

\* Of a rank, only what it holds and its model matter.
LEMMA ReceivedFrame ==
  ASSUME NEW r, task'[r].got = task[r].got, task'[r].buffer = task[r].buffer,
         model'[r] = model[r]
  PROVE  Received(r)' = Received(r)
BY DEF Received, Params

LEMMA ReceivedBroadcast ==
  ASSUME Steps, Broadcast, NEW r \in Rollouts
  PROVE  Received(r)' = Override(Received(r), sender.data)
<1>1. /\ task'[r].got = sender.data /\ task'[r].buffer = task[r].buffer /\ model'[r] = model[r]
      /\ task[r].pc = "recv"
  BY BroadcastStep DEF Steps
<1>2. task[r].got = None
  BY <1>1 DEF Steps, TaskShape
<1>3. DOMAIN task[r].got = {}
  BY <1>2, NonePartial
<1> QED BY <1>1, <1>3 DEF Received, Override, Params

\* Load moves what is received into the buffer or the model.
LEMMA ReceivedLoad ==
  ASSUME Steps, NEW r \in Rollouts, Load(r)
  PROVE  \A s \in Rollouts : Received(s)' = Received(s)
<1>1. /\ Ends(r) => task'[r].got = None /\ task'[r].buffer = None
      /\ ~Ends(r) =>
           /\ task'[r].got = None
           /\ task'[r].buffer = IF mode.syncer = "buffered" THEN LoadData(r) ELSE None
      /\ \A s \in Rollouts \ {r} : task'[s] = task[s]
  BY LoadStep DEF Steps
<1>2. model' = IF Loads(r) THEN [model EXCEPT ![r] = Override(@, LoadData(r))] ELSE model
  BY DEF Load, LoadData
<1>3. model \in [Rollouts -> [Params -> Values \cup {-1}]]
  BY DEF Steps, TypeOK
<1>4. ASSUME NEW s \in Rollouts \ {r} PROVE Received(s)' = Received(s)
  BY <1>1, <1>2, <1>3, <1>4, ReceivedFrame
<1>n. DOMAIN None = {}
  BY NonePartial
<1>5. Received(r)' = Received(r)
  <2>1. CASE mode.syncer = "buffered"
    <3>1. Loads(r) <=> Ends(r)
      BY <2>1 DEF Loads, Ends, IsPatch
    <3>2. /\ DOMAIN LoadData(r) = DOMAIN task[r].buffer \cup DOMAIN task[r].got
          /\ \A p \in DOMAIN LoadData(r) :
               LoadData(r)[p] = IF p \in DOMAIN task[r].got THEN task[r].got[p] ELSE task[r].buffer[p]
      BY <2>1 DEF LoadData
    <3>3. CASE Ends(r)
      <4>1. model'[r] = Override(model[r], LoadData(r)) /\ task'[r].got = None /\ task'[r].buffer = None
        BY <3>1, <3>3, <1>1, <1>2, <1>3
      <4> QED BY <4>1, <3>2, <1>n DEF Received, Override, Params
    <3>4. CASE ~Ends(r)
      <4>1. model'[r] = model[r] /\ task'[r].got = None /\ task'[r].buffer = LoadData(r)
        BY <2>1, <3>1, <3>4, <1>1, <1>2
      <4> QED BY <4>1, <3>2, <1>n DEF Received, Params
    <3> QED BY <3>3, <3>4
  <2>2. CASE mode.syncer # "buffered"
    <3>1. task[r].buffer = None
      BY <2>2 DEF Steps, TaskShape
    <3>2. model'[r] = Override(model[r], task[r].got) /\ task'[r].got = None /\ task'[r].buffer = None
      BY <2>2, <1>1, <1>2, <1>3 DEF Loads, LoadData
    <3> QED BY <3>1, <3>2, <1>n DEF Received, Override, Params
  <2> QED BY <2>1, <2>2
<1> QED BY <1>4, <1>5

\* A task that waits, or is over, holds nothing.
LEMMA ReceivedModel ==
  ASSUME Steps, NEW r \in Rollouts, task[r].pc \in {"none", "done", "meta"}
  PROVE  /\ task[r].got = None /\ task[r].buffer = None
         /\ Received(r) = model[r]
<1>1. task[r].got = None /\ task[r].buffer = None /\ model[r] \in [Params -> Values \cup {-1}]
  BY DEF Steps, TypeOK, TaskShape
<1>2. DOMAIN None = {}
  BY NonePartial
<1> QED BY <1>1, <1>2 DEF Received

\* All other steps of a rank.
LEMMA ReceivedKept ==
  ASSUME Steps, Steps', NEW r \in Rollouts,
         \/ SenderStart \/ Metadata \/ SenderResume \/ Flush
         \/ \E s \in Rollouts : Load(s) \/ Serve(s) \/ Poll(s)
         \/ UpdateWeights \/ UpdateReturns \/ Train
         \/ RequestWeights \/ UpdateEpoch \/ TrainingReturns \/ UNCHANGED vars
  PROVE  Received(r)' = Received(r)
<1>t. task \in [Rollouts -> TaskType] /\ task[r] \in TaskType
  BY DEF Steps, TypeOK, TaskType
<1>1. CASE \E s \in Rollouts : Load(s)
  BY <1>1, ReceivedLoad
<1>2. CASE \E s \in Rollouts : Serve(s) \/ Poll(s)
  <2>1. PICK s \in Rollouts : Serve(s) \/ Poll(s)
    BY <1>2
  <2>2. model' = model
    BY <2>1 DEF Serve, Poll
  <2>3. CASE task'[r] = task[r]
    BY <2>2, <2>3, ReceivedFrame
  <2>4. CASE task'[r] # task[r]
    <3>1. task[r].pc \in {"none", "done"}
      BY <2>1, <2>4, <1>t DEF Serve, Poll
    <3>2. task'[r] = Begin(r) \/ task'[r] = NoTask
      BY <2>1, <2>4, <1>t DEF Serve, Poll
    <3>3. task'[r].got = None /\ task'[r].buffer = None
      BY <3>2, BeginType DEF NoTask
    <3>4. task[r].got = None /\ task[r].buffer = None
      BY <3>1, ReceivedModel
    <3> QED BY <2>2, <3>3, <3>4, ReceivedFrame
  <2> QED BY <2>3, <2>4
<1>3. CASE UpdateReturns
  <2>1. task[r].pc = "done" /\ task'[r] = NoTask /\ model' = model
    BY <1>3 DEF UpdateReturns
  <2>2. task'[r].got = None /\ task'[r].buffer = None
    BY <2>1 DEF NoTask
  <2>3. task[r].got = None /\ task[r].buffer = None
    BY <2>1, ReceivedModel
  <2> QED BY <2>1, <2>2, <2>3, ReceivedFrame
<1>4. CASE Metadata
  <2>1. task' = [task EXCEPT ![0].pc = "recv"] /\ model' = model
    BY <1>4 DEF Metadata
  <2>2. task'[r].got = task[r].got /\ task'[r].buffer = task[r].buffer
    BY <2>1, <1>t DEF TaskType
  <2> QED BY <2>1, <2>2, ReceivedFrame
<1>5. CASE \/ SenderStart \/ SenderResume \/ Flush \/ UpdateWeights \/ Train
           \/ RequestWeights \/ UpdateEpoch \/ TrainingReturns \/ UNCHANGED vars
  <2>1. task' = task /\ model' = model
    BY <1>5 DEF SenderStart, SenderResume, Flush, UpdateWeights, Train, RequestWeights,
                UpdateEpoch, TrainingReturns, vars
  <2> QED BY <2>1, ReceivedFrame
<1> QED BY <1>1, <1>2, <1>3, <1>4, <1>5

-----------------------------------------------------------------------------
(* Override and patches *)

LEMMA OverrideNone ==
  ASSUME NEW S, NEW w \in [Params -> S], NEW d, DOMAIN d = {}
  PROVE  Override(w, d) = w
BY DEF Override

LEMMA OverrideTwice ==
  ASSUME NEW w, NEW d
  PROVE  Override(Override(w, d), None) = Override(w, d)
BY NonePartial DEF Override

\* A patch against old turns old into the weights.
LEMMA PatchGivesWeights ==
  ASSUME NEW old \in Updated, weights \in Updated, SendPatch(old)
  PROVE  Override(old, flush') = weights /\ sender'.data = flush'
<1>1. DOMAIN flush' = Changed(old) /\ \A p \in Changed(old) : flush'[p] = weights[p]
  BY SendPatchType
<1>2. ASSUME NEW p \in Params PROVE Override(old, flush')[p] = weights[p]
  BY <1>1 DEF Override, Changed
<1>4. Override(old, flush') = [p \in Params |-> Override(old, flush')[p]]
  BY DEF Override
<1>3. sender'.data = flush'
  BY SendPatchType
<1> QED BY <1>2, <1>3, <1>4 DEF Updated

\* A patch against the weights themselves is empty.
LEMMA PatchEmpty ==
  ASSUME weights \in Updated, SendPatch(weights)
  PROVE  DOMAIN flush' = {} /\ sender'.data = flush'
<1>1. Changed(weights) = {}
  BY DEF Changed
<1>2. DOMAIN flush' = Changed(weights)
  BY SendPatchType
<1>3. sender' = [pc |-> "send", kind |-> "patch", k |-> 0, data |-> flush']
  BY SendPatchType
<1> QED BY <1>1, <1>2, <1>3

LEMMA ReceivedFunction ==
  ASSUME NEW r
  PROVE  Received(r) = [p \in Params |-> Received(r)[p]]
BY DEF Received

\* Training does not begin before the snapshot is made.
LEMMA TrainsAfterSnapshot ==
  ASSUME Steps, Content, ReadyFirst, IsPatch, snapshot = <<>>
  PROVE  ~Train /\ ~UpdateEpoch
<1>1. version[0] = -1 /\ mode \in Modes
  BY WeightSyncAssumption DEF Steps, TypeOK, BeforeSnapshot
<1>2. ~Train
  BY <1>1, WeightSyncAssumption DEF Train, Content, Arrived, Steps, TypeOK
<1>3. ~mode.early
  BY <1>1 DEF ReadyFirst, IsPatch
<1>4. ~ReplayBufferReady
  BY <1>1, <1>3, WeightSyncAssumption DEF ReplayBufferReady
<1> QED BY <1>2, <1>4 DEF UpdateEpoch

-----------------------------------------------------------------------------
(* All ranks have received the same *)

LEMMA InitAgree == Init => Agree
<1> SUFFICES ASSUME Init, NEW r \in Rollouts PROVE Received(r) = Received(0)
  BY DEF Agree
<1>1. task[r] = task[0] /\ model[r] = model[0]
  BY WeightSyncAssumption DEF Init
<1> QED BY <1>1 DEF Received

LEMMA NextAgree ==
  ASSUME Steps, Steps', Agree, [Next]_vars
  PROVE  Agree'
<1>0. 0 \in Rollouts
  BY WeightSyncAssumption
<1>1. CASE Broadcast
  BY <1>0, <1>1, ReceivedBroadcast DEF Agree
<1>2. CASE ~Broadcast
  <2>1. ASSUME NEW r \in Rollouts PROVE Received(r)' = Received(r)
    BY <1>2, ReceivedKept DEF Next, Sender
  <2> QED BY <1>0, <2>1 DEF Agree
<1> QED BY <1>1, <1>2

-----------------------------------------------------------------------------
(* What they have received *)

LEMMA InitContent == Init => Content
<1> SUFFICES ASSUME Init PROVE Content
  OBVIOUS
<1>1. /\ snapshot = <<>> /\ sender.pc = "idle" /\ runner.pc = "sync"
      /\ \A r \in Rollouts : task[r] = NoTask
  BY DEF Init, Quiet
<1>2. ASSUME mode.syncer = "patch", NEW r \in Rollouts PROVE Received(r) = weights
  <2>1. DOMAIN task[r].got = {} /\ DOMAIN task[r].buffer = {}
    BY <1>1, NonePartial DEF NoTask
  <2>2. model[r] = [p \in Params |-> 0] /\ weights = [p \in Params |-> 0]
    BY <1>2 DEF Init
  <2> QED BY <2>1, <2>2 DEF Received
<1>3. SnapshotInv
  BY <1>1, <1>2 DEF SnapshotInv
<1>4. Sending
  BY <1>1 DEF Sending
<1>5. Arrived
  BY <1>1 DEF Arrived, NoTask
<1> QED BY <1>3, <1>4, <1>5 DEF Content

LEMMA SenderStartContent ==
  ASSUME Steps, Steps', Content, SenderStart
  PROVE  Content'
<1>t. /\ Last \in Nat \ {0} /\ weights \in Updated /\ sender.pc = "called"
      /\ UNCHANGED <<mode, runner, weights, policies, call, requested, task, model, version>>
  BY WeightSyncAssumption DEF Steps, TypeOK, SenderStart
<1>r. \A r \in Rollouts : Received(r)' = Received(r)
  BY ReceivedKept
<1>a. Arrived'
  BY <1>t, <1>r DEF Content, Arrived, LastNo, IsPatch
<1>1. CASE ~IsPatch
  <2>1. sender' = Bucket("bucket", 1) /\ UNCHANGED <<snapshot, flush>>
    BY <1>1 DEF SenderStart
  <2>2. /\ sender'.pc = "send" /\ sender'.kind = "bucket" /\ sender'.k = 1
        /\ sender'.data = [p \in {1} |-> weights[1]]
    BY <2>1 DEF Bucket
  <2>3. SnapshotInv'
    BY <1>1, <1>t DEF SnapshotInv, IsPatch
  <2>4. Sending'
    BY <2>2, <1>t DEF Sending, Params
  <2> QED BY <2>3, <2>4, <1>a DEF Content
<1>2. CASE IsPatch /\ snapshot = <<>>
  <2>1. sender' = [sender EXCEPT !.pc = "meta"] /\ UNCHANGED <<snapshot, flush>>
    BY <1>2 DEF SenderStart
  <2>2. sender'.pc = "meta"
    BY <2>1 DEF Steps, TypeOK
  <2>3. SnapshotInv'
    BY <1>2, <2>1, <1>t, <1>r DEF Content, SnapshotInv, IsPatch
  <2>4. Sending'
    BY <2>2 DEF Sending
  <2> QED BY <2>3, <2>4, <1>a DEF Content
<1>3. CASE IsPatch /\ snapshot # <<>>
  <2>1. SendPatch(snapshot) /\ UNCHANGED snapshot /\ DOMAIN flush = {} /\ snapshot \in Updated
    BY <1>3, NonePartial DEF SenderStart, Flushed, Steps, TypeOK
  <2>2. sender'.pc = "send" /\ sender'.kind = "patch" /\ sender'.data = flush'
    BY <2>1, <1>t, SendPatchType
  <2>3. Flushing' = weights
    BY <2>1, <1>t, PatchGivesWeights DEF Flushing
  <2>4. \A r \in Rollouts : Received(r) = snapshot
    BY <2>1, <1>3, <1>t, OverrideNone DEF Content, SnapshotInv, Flushing, Updated
  <2>5. SnapshotInv'
    <3>1. \A r \in Rollouts : Override(Received(r)', sender'.data) = Flushing'
      BY <2>1, <2>2, <2>4, <1>r DEF Flushing
    <3> QED BY <3>1, <2>1, <2>2, <1>3 DEF SnapshotInv
  <2>6. Sending'
    BY <2>2, <2>3, <1>t DEF Sending, Stable
  <2> QED BY <2>5, <2>6, <1>a DEF Content
<1> QED BY <1>1, <1>2, <1>3

\* The snapshot is made, and the first patch against it is empty.
LEMMA SnapshotContent ==
  ASSUME Steps, SnapshotAndSync, UNCHANGED weights,
         \A r \in Rollouts : Received(r)' = weights
  PROVE  SnapshotInv' /\ Sending'
<1>1. snapshot' = weights /\ SendPatch(weights) /\ weights \in Updated
  BY DEF SnapshotAndSync, Steps, TypeOK
<1>2. sender'.pc = "send" /\ sender'.kind = "patch" /\ sender'.data = flush' /\ DOMAIN flush' = {}
  BY <1>1, SendPatchType, PatchEmpty
<1>3. Flushing' = weights /\ snapshot' # <<>>
  BY <1>1, <1>2, OverrideNone, WeightsNotEmpty DEF Flushing, Updated
<1>4. \A r \in Rollouts : Override(Received(r)', sender'.data) = weights
  BY <1>1, <1>2, OverrideNone DEF Updated
<1>5. SnapshotInv'
  BY <1>2, <1>3, <1>4 DEF SnapshotInv
<1>6. Sending'
  BY <1>2, <1>3 DEF Sending, Stable
<1> QED BY <1>5, <1>6

LEMMA MetadataContent ==
  ASSUME Steps, Steps', Content, Metadata
  PROVE  Content'
<1>t. /\ Last \in Nat \ {0} /\ weights \in Updated /\ sender.pc = "meta" /\ IsPatch
      /\ snapshot = <<>> /\ task \in [Rollouts -> TaskType] /\ 0 \in Rollouts
      /\ UNCHANGED <<mode, runner, weights, policies, call, requested, model, version>>
  BY WeightSyncAssumption DEF Steps, TypeOK, TaskType, SenderShape, Metadata
<1>r. \A r \in Rollouts : Received(r)' = Received(r)
  BY ReceivedKept
<1>a. Arrived'
  <2>1. runner.pc = "syncing" \/ mode.noWait
    BY <1>t DEF Steps, Waiting
  <2>2. ASSUME NEW r \in Rollouts
        PROVE  /\ task'[r].pc \in {"load", "done"} => task'[r] = task[r]
               /\ task'[r].k = task[r].k
    BY <1>t DEF Metadata, TaskType
  <2> QED BY <2>1, <2>2, <1>t, <1>r DEF Content, Arrived, LastNo, IsPatch
<1>1. CASE mode.syncer = "patch_init"
  <2>1. sender' = Bucket("init", 1) /\ UNCHANGED <<snapshot, flush>>
    BY <1>1 DEF Metadata
  <2>2. /\ sender'.pc = "send" /\ sender'.kind = "init" /\ sender'.k = 1
        /\ sender'.data = [p \in {1} |-> weights[1]]
    BY <2>1 DEF Bucket
  <2>3. SnapshotInv'
    BY <1>1, <1>t, <2>1 DEF SnapshotInv, IsPatch
  <2>4. Sending'
    BY <2>2, <1>t DEF Sending, Params
  <2> QED BY <2>3, <2>4, <1>a DEF Content
<1>2. CASE mode.syncer # "patch_init"
  <2>1. SnapshotAndSync /\ mode.syncer = "patch"
    BY <1>2, <1>t DEF Metadata, IsPatch
  <2>2. \A r \in Rollouts : Received(r)' = weights
    BY <2>1, <1>t, <1>r DEF Content, SnapshotInv
  <2>3. SnapshotInv' /\ Sending'
    BY <2>1, <2>2, <1>t, SnapshotContent
  <2> QED BY <2>3, <1>a DEF Content
<1> QED BY <1>1, <1>2

\* In a broadcast every receiver is at the message that is sent.
LEMMA BroadcastNumber ==
  ASSUME Steps, Broadcast, NEW r \in Rollouts
  PROVE  task'[r].k = ThisNo
<1>1. sender.pc = "send" /\ task[r].pc = "recv" /\ task'[r].k = task[r].k
  BY BroadcastStep DEF Steps
<1> QED BY <1>1 DEF Steps, ProgressAt, Asked, Joined, At, Free

LEMMA BroadcastContent ==
  ASSUME Steps, Steps', Content, Broadcast
  PROVE  Content'
<1>t. /\ Last \in Nat \ {0} /\ weights \in Updated /\ sender.k \in 0..Last
      /\ sender.kind \in {"bucket", "init", "patch"} /\ SenderShape
  BY WeightSyncAssumption DEF Steps, TypeOK
<1>b. /\ sender.pc = "send" /\ sender'.pc = "sent" /\ sender'.kind = sender.kind
      /\ sender'.k = sender.k /\ sender'.data = sender.data
      /\ \A r \in Rollouts : task'[r].pc = "load" /\ task'[r].label = runner.step
      /\ UNCHANGED <<mode, runner, weights, snapshot, flush, version>>
  BY BroadcastStep DEF Steps
<1>r. \A r \in Rollouts : Received(r)' = Override(Received(r), sender.data)
  BY ReceivedBroadcast
<1>1. SnapshotInv'
  <2>1. ASSUME IsPatch, snapshot # <<>>, NEW r \in Rollouts PROVE Received(r)' = Flushing'
    <3>1. sender.kind = "patch"
      BY <2>1, <1>t, <1>b DEF SenderShape
    <3> QED BY <2>1, <3>1, <1>b, <1>r DEF Content, SnapshotInv, Flushing
  <2>2. ~(mode.syncer = "patch" /\ snapshot = <<>>)
    BY <1>t, <1>b DEF SenderShape, IsPatch
  <2> QED BY <2>1, <2>2, <1>b DEF SnapshotInv, IsPatch
<1>2. Sending'
  <2>1. ASSUME Stable, NEW r \in Rollouts, NEW p \in Params, p < sender.k \/ p = sender.k
        PROVE  Received(r)'[p] = weights[p]
    <3>1. sender.data = [q \in {sender.k} |-> weights[q]]
      BY <2>1, <1>b DEF Content, Sending
    <3>2. p < sender.k => Received(r)[p] = weights[p]
      BY <2>1, <1>b DEF Content, Sending
    <3>3. Received(r)'[p] = IF p = sender.k THEN weights[p] ELSE Received(r)[p]
      BY <3>1, <1>r DEF Override
    <3> QED BY <2>1, <3>2, <3>3
  <2> QED BY <2>1, <1>b DEF Sending, Stable
<1>3. Arrived'
  <2>1. ASSUME ~mode.noWait, NEW r \in Rollouts, ThisNo = LastNo PROVE Received(r)' = weights
    <3>1. CASE sender.kind = "patch"
      <4>1. IsPatch /\ snapshot # <<>>
        BY <3>1, <1>t, <1>b DEF SenderShape
      <4> QED BY <4>1, <3>1, <2>1, <1>b, <1>r DEF Content, SnapshotInv, Sending
    <3>2. CASE sender.kind = "bucket"
      <4>1. sender.k = Last
        BY <3>2, <2>1, <1>t, <1>b DEF SenderShape, ThisNo, LastNo
      <4>2. \A p \in Params : Received(r)'[p] = weights[p]
        BY <4>1, <3>2, <2>1, <1>2, <1>b, <1>t DEF Sending, Stable, Params
      <4>3. Received(r)' = [p \in Params |-> Received(r)'[p]]
        BY DEF Received, Params
      <4> QED BY <4>2, <4>3, <1>t DEF Updated
    <3>3. CASE sender.kind = "init"
      BY <3>3, <2>1, <1>t, <1>b DEF SenderShape, ThisNo, LastNo, IsPatch
    <3> QED BY <3>1, <3>2, <3>3, <1>t
  <2>2. ASSUME NEW r \in Rollouts, task'[r].k = LastNo' PROVE ThisNo = LastNo
    BY <2>2, <1>b, BroadcastNumber DEF LastNo, IsPatch
  <2>3. ~mode.noWait => runner.pc = "syncing"
    BY <1>b DEF Steps, Waiting
  <2> QED BY <2>1, <2>2, <2>3, <1>b DEF Arrived
<1> QED BY <1>1, <1>2, <1>3 DEF Content

LEMMA SenderResumeContent ==
  ASSUME Steps, Steps', Content, SenderResume
  PROVE  Content'
<1>t. /\ Last \in Nat \ {0} /\ weights \in Updated /\ sender.k \in 0..Last
      /\ sender.kind \in {"bucket", "init", "patch"} /\ SenderShape
  BY WeightSyncAssumption DEF Steps, TypeOK
<1>u. /\ sender.pc = "sent"
      /\ UNCHANGED <<mode, runner, weights, policies, call, requested, task, model, version>>
  BY DEF SenderResume
<1>r. \A r \in Rollouts : Received(r)' = Received(r)
  BY ReceivedKept
<1>a. Arrived'
  BY <1>u, <1>r DEF Content, Arrived, LastNo, IsPatch
<1>1. CASE sender.kind # "patch" /\ sender.k < Last
  <2> DEFINE n == sender.k + 1
  <2>1. sender' = Bucket(sender.kind, n) /\ UNCHANGED <<snapshot, flush>> /\ n = sender.k + 1
    BY <1>1, <1>t DEF SenderResume
  <2> HIDE DEF n
  <2>2. /\ sender'.pc = "send" /\ sender'.kind = sender.kind /\ sender'.k = n
        /\ sender'.data = [p \in {n} |-> weights[n]]
    BY <2>1 DEF Bucket
  <2>3. SnapshotInv'
    BY <1>1, <1>u, <1>r, <2>1, <2>2 DEF Content, SnapshotInv, Flushing, IsPatch
  <2>4. Sending'
    <3>1. ASSUME Stable, NEW r \in Rollouts, NEW p \in Params, p < n
          PROVE  Received(r)'[p] = weights[p]
      <4>1. p < sender.k \/ p = sender.k
        BY <3>1, <2>1, <1>t DEF Params
      <4> QED BY <4>1, <3>1, <1>r, <1>u DEF Content, Sending
    <3>2. sender'.data = [p \in {n} |-> weights[p]]
      BY <2>2
    <3> QED BY <3>1, <3>2, <2>2, <1>1, <1>u DEF Sending, Stable
  <2> QED BY <2>3, <2>4, <1>a DEF Content
<1>2. CASE sender.kind = "init" /\ sender.k = Last
  <2>1. SnapshotAndSync
    BY <1>2, <1>t DEF SenderResume
  <2>2. ASSUME NEW r \in Rollouts PROVE Received(r)' = weights
    <3>1. \A p \in Params : Received(r)[p] = weights[p]
      BY <1>2, <1>t, <1>u DEF Content, Sending, Stable, Params
    <3>2. Received(r) = [p \in Params |-> Received(r)[p]]
      BY ReceivedFunction
    <3> QED BY <3>1, <3>2, <1>r, <1>t DEF Updated
  <2>3. SnapshotInv' /\ Sending'
    BY <2>1, <2>2, <1>u, SnapshotContent
  <2> QED BY <2>3, <1>a DEF Content
<1>3. CASE sender.kind = "patch" \/ (sender.kind = "bucket" /\ sender.k = Last)
  <2>1. sender' = Quiet /\ UNCHANGED <<snapshot, flush>>
    BY <1>3, <1>t DEF SenderResume
  <2>2. sender'.pc = "idle"
    BY <2>1 DEF Quiet
  <2>3. SnapshotInv'
    BY <1>u, <1>r, <2>1, <2>2 DEF Content, SnapshotInv, Flushing, IsPatch
  <2>4. Sending'
    BY <2>2 DEF Sending
  <2> QED BY <2>3, <2>4, <1>a DEF Content
<1> QED BY <1>1, <1>2, <1>3, <1>t

LEMMA FlushContent ==
  ASSUME Steps, Steps', Content, Flush
  PROVE  Content'
<1>u. /\ UNCHANGED <<mode, runner, weights, sender, task, version>>
      /\ snapshot' = Override(snapshot, flush) /\ flush' = None
  BY DEF Flush
<1>r. \A r \in Rollouts : Received(r)' = Received(r)
  BY ReceivedKept
<1>1. Flushing' = Flushing
  BY <1>u, OverrideTwice DEF Flushing
<1>2. snapshot = <<>> <=> snapshot' = <<>>
  BY SnapshotEmpty DEF Steps
<1>3. SnapshotInv'
  BY <1>u, <1>r, <1>1, <1>2 DEF Content, SnapshotInv, IsPatch
<1>4. Sending' /\ Arrived'
  BY <1>u, <1>r, <1>1 DEF Content, Sending, Stable, Arrived, LastNo, IsPatch
<1> QED BY <1>3, <1>4 DEF Content

\* Nothing that SnapshotInv and Sending speak of changes.
LEMMA ContentFrame ==
  ASSUME SnapshotInv, Sending, UNCHANGED <<mode, weights, sender, snapshot, flush>>,
         \A r \in Rollouts : Received(r)' = Received(r)
  PROVE  SnapshotInv' /\ Sending'
<1>1. SnapshotInv'
  BY DEF SnapshotInv, Flushing, IsPatch
<1>2. Sending'
  BY DEF Sending, Stable, Flushing
<1> QED BY <1>1, <1>2

\* Load ends the task exactly with the last message.
LEMMA EndsLast ==
  ASSUME Steps, NEW r \in Rollouts
  PROVE  Ends(r) <=> task[r].k = LastNo
<1>1. task[r].k \in Int /\ Last \in Nat
  BY WeightSyncAssumption DEF Steps, TypeOK
<1> QED BY <1>1 DEF Ends, LastNo

\* While a runner waits and a task is under way, it is in its synchronisation.
LEMMA UnderWay ==
  ASSUME Steps, ~mode.noWait, NEW r \in Rollouts, task[r].pc # "none" \/ sender.pc # "idle"
  PROVE  runner.pc = "syncing"
BY DEF Steps, Waiting

LEMMA LoadContent ==
  ASSUME Steps, Steps', Content, NEW r \in Rollouts, Load(r)
  PROVE  Content'
<1>1. /\ task[r].pc = "load"
      /\ Ends(r) => task'[r].pc = "done" /\ version'[r] = task[r].label
      /\ ~Ends(r) => task'[r].pc = "recv"
      /\ \A s \in Rollouts \ {r} : task'[s] = task[s] /\ version'[s] = version[s]
      /\ UNCHANGED <<mode, runner, weights, sender, snapshot, flush>>
  BY LoadStep DEF Steps
<1>r. \A s \in Rollouts : Received(s)' = Received(s)
  BY ReceivedKept
<1>2. SnapshotInv' /\ Sending'
  BY <1>1, <1>r, ContentFrame DEF Content
<1>3. Arrived'
  <2>1. ~mode.noWait => runner.pc = "syncing"
    BY <1>1, UnderWay
  <2>2. ~mode.noWait /\ Ends(r) => version'[r] = runner.step /\ Received(r) = weights
    BY <1>1, EndsLast DEF Content, Arrived
  <2> QED BY <1>1, <1>r, <2>1, <2>2 DEF Content, Arrived, LastNo, IsPatch
<1> QED BY <1>2, <1>3 DEF Content

LEMMA ServePollContent ==
  ASSUME Steps, Steps', Content, NEW r \in Rollouts, Serve(r) \/ Poll(r)
  PROVE  Content'
<1>t. task \in [Rollouts -> TaskType]
  BY DEF Steps, TypeOK, TaskType
<1>1. UNCHANGED <<mode, runner, weights, sender, snapshot, flush, version>>
  BY DEF Serve, Poll
<1>r. \A s \in Rollouts : Received(s)' = Received(s)
  BY ReceivedKept
<1>2. SnapshotInv' /\ Sending'
  BY <1>1, <1>r, ContentFrame DEF Content
<1>3. Arrived'
  <2>1. CASE mode.noWait
    BY <1>1, <2>1 DEF Arrived
  <2>2. CASE ~mode.noWait
    <3>1. Serve(r)
      BY <2>2 DEF Poll
    <3>2. task' = task \/ task' = [task EXCEPT ![r] = Begin(r)]
      BY <3>1 DEF Serve
    <3>3. Begin(r).pc \in {"meta", "recv"}
      BY BeginType
    <3>4. sender.pc # "idle"
      BY <3>1 DEF Serve, Steps, ProgressAt, Rested
    <3>5. runner.pc = "syncing"
      BY <2>2, <3>4, UnderWay
    <3>6. ASSUME NEW s \in Rollouts, task'[s] # task[s] PROVE task'[s].pc \in {"meta", "recv"}
      BY <3>2, <3>3, <3>6, <1>t
    <3> QED BY <3>5, <3>6, <1>1, <1>r DEF Content, Arrived, LastNo, IsPatch
  <2> QED BY <2>1, <2>2
<1> QED BY <1>2, <1>3 DEF Content

LEMMA TrainContent ==
  ASSUME Steps, Steps', Content, ReadyFirst, Train \/ UpdateEpoch
  PROVE  Content'
<1>1. UNCHANGED <<mode, sender, snapshot, flush, task, version>>
  BY DEF Train, UpdateEpoch
<1>2. ~(IsPatch /\ snapshot = <<>>)
  BY TrainsAfterSnapshot
<1>r. \A r \in Rollouts : Received(r)' = Received(r)
  BY ReceivedKept
<1>3. SnapshotInv'
  BY <1>1, <1>2, <1>r DEF Content, SnapshotInv, Flushing, IsPatch
<1>4. Sending' /\ Arrived'
  <2>1. CASE mode.noWait
    <3>1. sender.pc \in {"send", "sent"} => ~Stable
      BY <1>2, <2>1 DEF Steps, SenderShape, Stable, IsPatch
    <3> QED BY <3>1, <2>1, <1>1 DEF Sending, Stable, Arrived
  <2>2. CASE ~mode.noWait
    <3>1. runner.pc = "train" /\ runner'.pc = "sync"
      BY <2>2 DEF Train, UpdateEpoch
    <3>2. sender.pc = "idle" /\ \A r \in Rollouts : task[r].pc = "none"
      BY <2>2, <3>1 DEF Steps, Waiting
    <3> QED BY <3>1, <3>2, <1>1 DEF Sending, Arrived
  <2> QED BY <2>1, <2>2
<1> QED BY <1>3, <1>4 DEF Content

LEMMA RunnerContent ==
  ASSUME Steps, Steps', Content,
         UpdateWeights \/ UpdateReturns \/ RequestWeights \/ TrainingReturns
  PROVE  Content'
<1>1. UNCHANGED <<mode, weights, snapshot, flush, version>>
  BY DEF UpdateWeights, UpdateReturns, RequestWeights, TrainingReturns
<1>2. UNCHANGED sender \/ (sender.pc = "idle" /\ sender'.pc = "called")
  <2>1. CASE UpdateWeights
    <3>1. sender.pc = "idle"
      BY <2>1 DEF UpdateWeights, Steps, Waiting
    <3> QED BY <2>1, <3>1 DEF UpdateWeights, Synchronise, Quiet
  <2>2. CASE RequestWeights
    BY <2>2 DEF RequestWeights, Synchronise, Handled, Quiet
  <2>3. CASE UpdateReturns \/ TrainingReturns
    BY <2>3 DEF UpdateReturns, TrainingReturns
  <2> QED BY <2>1, <2>2, <2>3
<1>r. \A r \in Rollouts : Received(r)' = Received(r)
  BY ReceivedKept
<1>3. SnapshotInv' /\ Sending'
  <2>1. CASE UNCHANGED sender
    BY <2>1, <1>1, <1>r, ContentFrame DEF Content
  <2>2. CASE sender.pc = "idle" /\ sender'.pc = "called"
    BY <2>2, <1>1, <1>r DEF Content, SnapshotInv, Sending, Flushing, IsPatch
  <2> QED BY <1>2, <2>1, <2>2
<1>4. Arrived'
  <2>1. CASE mode.noWait
    BY <2>1, <1>1 DEF Arrived
  <2>2. CASE UpdateWeights /\ ~mode.noWait
    <3>1. runner'.pc = "syncing" /\ task' = task /\ \A r \in Rollouts : task[r].pc = "none"
      BY <2>2 DEF UpdateWeights, Steps, TypeOK, Waiting
    <3> QED BY <3>1 DEF Arrived
  <2>3. CASE UpdateReturns /\ ~mode.noWait
    <3>1. /\ runner'.step = runner.step
          /\ \A r \in Rollouts : task[r].pc = "done" /\ task'[r].pc = "none"
      BY <2>3 DEF UpdateReturns, Steps, TypeOK, NoTask
    <3> QED BY <3>1, <2>3, <1>1, <1>r DEF Content, Arrived
  <2> QED BY <2>1, <2>2, <2>3 DEF RequestWeights, TrainingReturns
<1> QED BY <1>3, <1>4 DEF Content

LEMMA NextContent ==
  ASSUME ReadyFirst
  PROVE  Steps /\ Steps' /\ Content /\ [Next]_vars => Content'
<1> SUFFICES ASSUME Steps, Steps', Content, [Next]_vars PROVE Content'
  OBVIOUS
<1>1. CASE Sender
  BY <1>1, SenderStartContent, MetadataContent, BroadcastContent, SenderResumeContent DEF Sender
<1>2. CASE Flush
  BY <1>2, FlushContent
<1>3. CASE \E r \in Rollouts : Load(r) \/ Serve(r) \/ Poll(r)
  BY <1>3, LoadContent, ServePollContent
<1>4. CASE Train \/ UpdateEpoch
  BY <1>4, TrainContent
<1>5. CASE UpdateWeights \/ UpdateReturns \/ RequestWeights \/ TrainingReturns
  BY <1>5, RunnerContent
<1>6. CASE UNCHANGED vars
  <2>1. UNCHANGED <<mode, runner, weights, sender, snapshot, flush, task, version>>
    BY <1>6 DEF vars
  <2>2. \A r \in Rollouts : Received(r)' = Received(r)
    BY <1>6, ReceivedKept
  <2>3. SnapshotInv' /\ Sending'
    BY <2>1, <2>2, ContentFrame DEF Content
  <2>4. Arrived'
    BY <2>1, <2>2 DEF Content, Arrived, LastNo, IsPatch
  <2> QED BY <2>3, <2>4 DEF Content
<1> QED BY <1>1, <1>2, <1>3, <1>4, <1>5, <1>6 DEF Next

\* What the ranks have received is as Content says, if no actor trains before the
\* first synchronisation in patch mode.
THEOREM ContentInvariance ==
  ASSUME ReadyFirst
  PROVE  Spec => [](Agree /\ Content)
<1>1. Steps /\ Steps' /\ Agree /\ [Next]_vars => Agree'
  BY NextAgree
<1>2. Steps /\ Steps' /\ Content /\ [Next]_vars => Content'
  BY NextContent
<1> QED BY InitAgree, InitContent, <1>1, <1>2, StepsInvariance, PTL DEF Spec

\* When nothing is under way all rollouts have the same model; in patch mode it is
\* the snapshot of the sender, and after a synchronisation that was waited for the
\* weights of the actor under their version.
THEOREM Alignment ==
  ASSUME ReadyFirst
  PROVE  Spec => []AlignedAtRest
<1>1. Steps /\ Agree /\ Content => AlignedAtRest
  <2> SUFFICES ASSUME Steps, Agree, Content, AtRest, \A r \in Rollouts : version[r] >= 0,
                      NEW r \in Rollouts
               PROVE  /\ model[r] = model[0]
                      /\ IsPatch => model[r] = Override(snapshot, flush)
                      /\ runner.pc = "train" /\ ~mode.noWait =>
                           model[r] = weights /\ version[r] = runner.step
    BY DEF AlignedAtRest
  <2>0. 0 \in Rollouts /\ sender.pc = "idle"
    BY WeightSyncAssumption DEF AtRest, Handled
  <2>1. \A s \in Rollouts : Received(s) = model[s]
    BY ReceivedModel DEF AtRest
  <2>2. model[r] = model[0]
    BY <2>0, <2>1 DEF Agree
  <2>3. IsPatch => snapshot # <<>>
    BY <2>0 DEF Steps, BeforeSnapshot
  <2>4. IsPatch => model[r] = Override(snapshot, flush)
    BY <2>0, <2>1, <2>3 DEF Content, SnapshotInv, Flushing
  <2>5. runner.pc = "train" /\ ~mode.noWait => model[r] = weights /\ version[r] = runner.step
    BY <2>1 DEF Content, Arrived
  <2> QED BY <2>2, <2>4, <2>5
<1> QED BY <1>1, StepsInvariance, ContentInvariance, PTL

-----------------------------------------------------------------------------
(* The policy a sample is labelled with *)

LEMMA InitPolicy == Init => PolicyInv
<1> SUFFICES ASSUME Init PROVE PolicyInv
  OBVIOUS
<1>1. runner.pc = "sync" /\ runner.step = 0 /\ Len(policies) = 0 /\ \A r \in Rollouts : version[r] = -1
  BY DEF Init
<1> QED BY <1>1 DEF PolicyInv

\* The models under way are not labelled, and the last message makes the model
\* what the runner waits for.
LEMMA LoadPolicy ==
  ASSUME Steps, Steps', Content, PolicyInv, BufferedOrNoWait, NEW r \in Rollouts, Load(r)
  PROVE  PolicyInv'
<1> SUFFICES ASSUME ~mode.noWait PROVE PolicyInv'
  BY DEF PolicyInv, Load
<1>t. /\ model \in [Rollouts -> [Params -> Values \cup {-1}]] /\ mode \in Modes
      /\ runner.step \in Nat /\ task[r].k \in Int
  BY DEF Steps, TypeOK
<1>1. /\ task[r].pc = "load"
      /\ Ends(r) => task'[r].pc = "done" /\ version'[r] = task[r].label
      /\ ~Ends(r) => version'[r] = version[r]
      /\ \A s \in Rollouts \ {r} : version'[s] = version[s]
      /\ UNCHANGED <<mode, runner, weights, policies>>
  BY LoadStep DEF Steps
<1>2. model' = IF Loads(r) THEN [model EXCEPT ![r] = Override(@, LoadData(r))] ELSE model
  BY DEF Load, LoadData
<1>3. runner.pc = "syncing"
  BY <1>1, UnderWay
<1>4. /\ Len(policies) = runner.step + 1 /\ policies[runner.step + 1] = weights
      /\ \A s \in Rollouts : version[s] >= 0 =>
           version[s] + 1 <= Len(policies) /\ model[s] = policies[version[s] + 1]
  BY <1>3 DEF PolicyInv
<1>5. ASSUME NEW s \in Rollouts, version'[s] >= 0
      PROVE  version'[s] + 1 <= Len(policies) /\ model'[s] = policies[version'[s] + 1]
  <2>1. CASE s # r
    BY <2>1, <1>1, <1>2, <1>4, <1>5, <1>t
  <2>2. CASE s = r /\ Ends(r)
    <3>1. version'[r] = runner.step /\ Received(r) = weights
      BY <2>2, <1>1, EndsLast DEF Content, Arrived
    <3>2. model'[r] = Received(r)'
      <4>1. task'[r].got = None /\ task'[r].buffer = None
        BY <2>2, LoadStep DEF Steps
      <4>2. model'[r] \in [Params -> Values \cup {-1}]
        BY DEF Steps, TypeOK, Params
      <4>3. DOMAIN None = {}
        BY NonePartial
      <4> QED BY <4>1, <4>2, <4>3 DEF Received, Params
    <3>3. Received(r)' = Received(r)
      BY ReceivedKept
    <3>4. model'[r] = policies[runner.step + 1] /\ runner.step + 1 <= Len(policies)
      BY <3>1, <3>2, <3>3, <1>4, <1>t
    <3> QED BY <2>2, <3>1, <3>4
  <2>3. CASE s = r /\ ~Ends(r)
    <3>1. CASE IsPatch
      <4>1. version[r] = -1
        BY <3>1, <2>3, <1>1 DEF Steps, TaskShape, Ends
      <4> QED BY <4>1, <2>3, <1>1, <1>5
    <3>2. CASE ~IsPatch
      <4>1. ~Loads(r)
        <5>1. mode.syncer # "instant"
          BY <1>t DEF BufferedOrNoWait
        <5>2. mode.syncer = "buffered"
          BY <3>2, <5>1, <1>t, WeightSyncAssumption DEF IsPatch, Mode
        <5> QED BY <3>2, <5>2, <2>3, <1>t DEF Loads, Ends
      <4> QED BY <4>1, <2>3, <1>1, <1>2, <1>4, <1>5
    <3> QED BY <3>1, <3>2
  <2> QED BY <2>1, <2>2, <2>3
<1> QED BY <1>1, <1>3, <1>4, <1>5 DEF PolicyInv

LEMMA RunnerPolicy ==
  ASSUME Steps, Steps', PolicyInv, UpdateWeights \/ UpdateReturns \/ Train
  PROVE  PolicyInv'
<1> SUFFICES ASSUME ~mode.noWait PROVE PolicyInv'
  BY DEF PolicyInv, UpdateWeights, UpdateReturns, Train
<1>t. /\ runner \in [pc : {"sync", "syncing", "train"}, step : Nat] /\ policies \in Seq(Updated)
      /\ version \in [Rollouts -> Nat \cup {-1}] /\ weights \in Updated
  BY DEF Steps, TypeOK
<1>1. CASE UpdateWeights
  <2>1. /\ runner.pc = "sync" /\ runner' = [runner EXCEPT !.pc = "syncing"]
        /\ policies' = Append(policies, weights) /\ UNCHANGED <<mode, weights, model, version>>
    BY <1>1 DEF UpdateWeights
  <2>2. runner'.pc = "syncing" /\ runner'.step = runner.step /\ Len(policies) = runner.step
    BY <2>1, <1>t DEF PolicyInv
  <2>3. /\ Len(policies') = runner.step + 1 /\ policies'[runner.step + 1] = weights
        /\ \A i \in 1..Len(policies) : policies'[i] = policies[i]
    BY <2>1, <2>2, <1>t
  <2>4. ASSUME NEW r \in Rollouts, version[r] >= 0
        PROVE  version[r] + 1 <= Len(policies') /\ model[r] = policies'[version[r] + 1]
    <3>1. version[r] \in Nat /\ version[r] + 1 <= Len(policies) /\ model[r] = policies[version[r] + 1]
      BY <2>4, <1>t DEF PolicyInv
    <3>2. version[r] + 1 \in 1..Len(policies)
      BY <3>1, <1>t
    <3> QED BY <3>1, <3>2, <2>2, <2>3, <1>t
  <2> QED BY <2>1, <2>2, <2>3, <2>4 DEF PolicyInv
<1>2. CASE UpdateReturns
  <2>1. /\ runner.pc = "syncing" /\ runner'.pc = "train" /\ runner'.step = runner.step
        /\ UNCHANGED <<mode, weights, policies, model, version>>
    BY <1>2, <1>t DEF UpdateReturns
  <2> QED BY <2>1 DEF PolicyInv
<1>3. CASE Train
  <2>1. /\ runner.pc = "train" /\ runner'.pc = "sync" /\ runner'.step = runner.step + 1
        /\ UNCHANGED <<mode, policies, model, version>>
    BY <1>3, <1>t DEF Train
  <2> QED BY <2>1 DEF PolicyInv
<1> QED BY <1>1, <1>2, <1>3

LEMMA NextPolicy ==
  ASSUME BufferedOrNoWait
  PROVE  Steps /\ Steps' /\ Content /\ PolicyInv /\ [Next]_vars => PolicyInv'
<1> SUFFICES ASSUME Steps, Steps', Content, PolicyInv, [Next]_vars PROVE PolicyInv'
  OBVIOUS
<1>1. CASE \E r \in Rollouts : Load(r)
  BY <1>1, LoadPolicy
<1>2. CASE UpdateWeights \/ UpdateReturns \/ Train
  BY <1>2, RunnerPolicy
<1>3. CASE RequestWeights \/ UpdateEpoch \/ TrainingReturns
  BY <1>3 DEF RequestWeights, UpdateEpoch, TrainingReturns, PolicyInv
<1>4. CASE Sender \/ Flush \/ (\E r \in Rollouts : Serve(r) \/ Poll(r)) \/ UNCHANGED vars
  <2>1. UNCHANGED <<mode, runner, weights, policies, model, version>>
    BY <1>4 DEF Sender, SenderStart, Metadata, Broadcast, SenderResume, Flush, Serve, Poll, vars
  <2> QED BY <2>1 DEF PolicyInv
<1> QED BY <1>1, <1>2, <1>3, <1>4 DEF Next

\* A rollout that is waited for generates, at every moment, with exactly the policy
\* that it labels its samples with, if buckets are buffered.
THEOREM Labelled ==
  ASSUME ReadyFirst, BufferedOrNoWait
  PROVE  Spec => []LabelledPolicy
<1>1. Steps /\ Steps' /\ Content /\ PolicyInv /\ [Next]_vars => PolicyInv'
  BY NextPolicy
<1>2. PolicyInv => LabelledPolicy
  BY DEF PolicyInv, LabelledPolicy
<1> QED BY InitPolicy, <1>1, <1>2, StepsInvariance, ContentInvariance, PTL DEF Spec

=============================================================================
