-------------------------- MODULE RolloutMigration --------------------------
(***************************************************************************)
(* How the RolloutManager moves running sequence groups between rollout     *)
(* instances: reports, Migrate_Out, Migrate_In and Finish over one request  *)
(* and one response queue per instance.  Inside an instance one event loop  *)
(* interleaves three kinds of coroutines: rollout() of the worker,          *)
(* main_loop() of its RolloutScalingScheduler, and one task per sequence    *)
(* group.  A step of this model is what runs between two awaits.            *)
(*                                                                          *)
(*   src/rlinf/scheduler/dynamic_scheduler/manager.py                       *)
(*   src/rlinf/workers/rollout/sglang/sglang_worker.py                      *)
(*   src/rlinf/workers/rollout/utils.py      (RunningStatusManager)         *)
(*   src/rlinf/data/io_struct.py             (SeqGroupInfo)                 *)
(*                                                                          *)
(* How many instances are migrated, and when, is the policy of DynScheduler *)
(* and left open here.                                                      *)
(***************************************************************************)
EXTENDS Integers, Sequences, FiniteSets, SequencesExt, FiniteSetsExt

CONSTANTS
  N,          \* number of rollout instances
  Groups,     \* the sequence groups of a global step
  Size,       \* [Groups -> Nat]: sequences in each group
  Share       \* [Instances -> SUBSET Groups]: the requests put by the runner

Instances == 0 .. N - 1

ASSUME MigrationAssumption ==
  /\ N \in Nat \ {0} /\ Size \in [Groups -> Nat \ {0}]
  /\ Share \in [Instances -> SUBSET Groups]
  /\ UNION {Share[i] : i \in Instances} = Groups
  /\ \A i, j \in Instances : i # j => Share[i] \cap Share[j] = {}

VARIABLES
  \* RolloutManager
  mpc,        \* where the manager stands
  offset,     \* current_instance_offset
  leaving,    \* how many of the lowest alive instances were told to go
  reports,    \* running_tasks of the last reports
  moving,     \* migrate_out_batches
  \* the channels
  req, resp,  \* per instance: request and response queue
  \* rollout(), main_loop() and RunningStatusManager of each instance
  rpc, lpc,   \* where rollout() and main_loop() stand
  running,    \* _running_seq_group
  aborted,    \* _aborted_seq_group
  awaited,    \* the groups whose task, or put, rollout() waits for
  returned,   \* the groups of the done tasks that are not marked yet
  event,      \* exit_rollout_iter is set
  \* sequence groups: the SeqGroupInfo that travels with the group
  begun,      \* _async_generate_group has been scheduled
  completed, cut,  \* num_completed and num_aborted
  delivered   \* how often the group's result was put into output_channel

manager == <<mpc, offset, leaving, reports, moving>>
loops == <<rpc, lpc>>
status == <<running, aborted, awaited, returned, event>>
groups == <<begun, completed, cut, delivered>>
vars == <<manager, req, resp, loops, status, groups>>

Alive == offset .. N - 1
Leaving == offset .. offset + leaving - 1
Staying == offset + leaving .. N - 1

-----------------------------------------------------------------------------
(* SeqGroupInfo *)

NumRunning(g) == Size[g] - completed[g] - cut[g]
AllReturned(g) == NumRunning(g) = 0
AllCompleted(g) == completed[g] = Size[g]

\* The task of a group is done when every sequence has returned.
TaskDone(g) == begun[g] /\ AllReturned(g)

NumSeqRunning(i) == MapThenSumSet(NumRunning, running[i])

-----------------------------------------------------------------------------
FreshGroups ==
  /\ begun' = [g \in Groups |-> FALSE]
  /\ completed' = [g \in Groups |-> 0]
  /\ cut' = [g \in Groups |-> 0]
  /\ delivered' = [g \in Groups |-> 0]

Init ==
  /\ mpc = "idle" /\ offset = 0 /\ leaving = 0 /\ moving = <<>>
  /\ reports = [i \in Instances |-> 0]
  /\ req = [i \in Instances |-> <<>>] /\ resp = [i \in Instances |-> <<>>]
  /\ rpc = [i \in Instances |-> "new"] /\ lpc = [i \in Instances |-> "get"]
  /\ running = [i \in Instances |-> {}]
  /\ aborted = [i \in Instances |-> <<>>]
  /\ awaited = [i \in Instances |-> {}]
  /\ returned = [i \in Instances |-> {}]
  /\ event = [i \in Instances |-> FALSE]
  /\ begun = [g \in Groups |-> FALSE]
  /\ completed = [g \in Groups |-> 0]
  /\ cut = [g \in Groups |-> 0]
  /\ delivered = [g \in Groups |-> 0]

-----------------------------------------------------------------------------
(* RolloutManager *)

\* _scatter_requests: m[i] goes to instance i of ids.
Scatter(ids, m) ==
  req' = [i \in Instances |-> IF i \in ids THEN Append(req[i], m[i]) ELSE req[i]]

\* _gather_responses: one response of every instance of ids.
CanGather(ids) == \A i \in ids : resp[i] # <<>>
Gather(ids) ==
  resp' = [i \in Instances |-> IF i \in ids THEN Tail(resp[i]) ELSE resp[i]]

ReportRequest == [i \in Instances |-> [act |-> "report"]]
OutRequest == [i \in Instances |-> [act |-> "migrate_out"]]
FinishRequest == [i \in Instances |-> [act |-> "finish"]]

AskReports ==
  /\ mpc \in {"idle", "reported"}
  /\ mpc' = "report"
  /\ Scatter(Alive, ReportRequest)
  /\ UNCHANGED <<offset, leaving, reports, moving, resp, loops, status, groups>>

GatherReports ==
  /\ mpc = "report" /\ CanGather(Alive)
  /\ mpc' = "reported"
  /\ reports' = [i \in Instances |-> IF i \in Alive THEN Head(resp[i]).running
                                                    ELSE reports[i]]
  /\ Gather(Alive)
  /\ UNCHANGED <<offset, leaving, moving, req, loops, status, groups>>

\* migrate(n).  It follows a training iteration, for which every instance
\* has long begun its rollout().
Migrate(n) ==
  /\ mpc = "reported" /\ n < Cardinality(Alive)
  /\ \A i \in Alive : rpc[i] # "new"
  /\ mpc' = "out" /\ leaving' = n
  /\ Scatter(offset .. offset + n - 1, OutRequest)
  /\ UNCHANGED <<offset, reports, moving, resp, loops, status, groups>>

GatherOut ==
  /\ mpc = "out" /\ CanGather(Leaving)
  /\ mpc' = "in"
  /\ moving' = FlattenSeq([k \in 1 .. leaving |-> Head(resp[offset + k - 1]).groups])
  /\ Gather(Leaving)
  /\ UNCHANGED <<offset, leaving, reports, req, loops, status, groups>>

\* _assign_sequences_sequential: every instance but the last takes groups
\* until it has its share of the sequences that run, the last one the rest.
NumAborted(gs) == FoldSeq(LAMBDA g, n : cut[g] + n, 0, gs)

Expected == FoldSet(LAMBDA i, n : reports[i] + n, 0, Alive) \div Cardinality(Staying)

\* How many groups of rest an instance takes that already runs r sequences.
Takes(rest, r) ==
  Min({k \in 0 .. Len(rest) :
         k = Len(rest) \/ r + NumAborted(SubSeq(rest, 1, k)) >= Expected})

\* Mutant: the last instance is treated like the others.
AssignDropsRest(gs) ==
  LET end[i \in offset + leaving - 1 .. N - 1] ==
        IF i = offset + leaving - 1 THEN 0
        ELSE end[i - 1] + Takes(SubSeq(gs, end[i - 1] + 1, Len(gs)), reports[i])
  IN  [k \in 1 .. Cardinality(Staying) |->
         LET i == offset + leaving + k - 1
         IN  SubSeq(gs, end[i - 1] + 1, end[i])]

\* The list of lists it returns.  The last instance gets an entry only when
\* something is left for it.
Assign(gs) ==
  LET end[i \in offset + leaving - 1 .. N - 2] ==
        IF i = offset + leaving - 1 THEN 0
        ELSE end[i - 1] + Takes(SubSeq(gs, end[i - 1] + 1, Len(gs)), reports[i])
      firsts == [k \in 1 .. Cardinality(Staying) - 1 |->
                   LET i == offset + leaving + k - 1
                   IN  SubSeq(gs, end[i - 1] + 1, end[i])]
      rest == SubSeq(gs, end[N - 2] + 1, Len(gs))
  IN  IF rest = <<>> THEN firsts ELSE Append(firsts, rest)

\* migrate_in, and the Finish request that follows without waiting for an
\* answer.  zip stops at the shorter list; an empty list is not sent.
MigrateIn ==
  /\ mpc = "in"
  /\ mpc' = "finish" /\ moving' = <<>>
  /\ LET lists == Assign(moving)
         for(i) == i - offset - leaving + 1
         sent == {i \in Staying : for(i) <= Len(lists) /\ ToSet(lists[for(i)]) # {}}
     IN  Scatter(sent \cup Leaving,
                 [i \in sent \cup Leaving |->
                   IF i \in Leaving THEN FinishRequest[i]
                   ELSE [act |-> "migrate_in", groups |-> lists[for(i)]]])
  /\ UNCHANGED <<offset, leaving, reports, resp, loops, status, groups>>

\* finish(Wait_For_Finish) of all alive instances.
FinishAll ==
  /\ mpc \in {"idle", "reported"}
  /\ mpc' = "finish" /\ leaving' = Cardinality(Alive)
  /\ Scatter(Alive, FinishRequest)
  /\ UNCHANGED <<offset, reports, moving, resp, loops, status, groups>>

GatherOffloaded ==
  /\ mpc = "finish" /\ CanGather(Leaving)
  /\ mpc' = IF offset + leaving = N THEN "over" ELSE "idle"
  /\ offset' = offset + leaving /\ leaving' = 0
  /\ Gather(Leaving)
  /\ UNCHANGED <<reports, moving, req, loops, status, groups>>

\* The next global step: the runner waits for every rollout() and calls it
\* again, RolloutManager.pre_process resets the manager.
NextGlobalStep ==
  /\ mpc = "over" /\ \A i \in Instances : rpc[i] = "over"
  /\ mpc' = "idle" /\ offset' = 0
  /\ reports' = [i \in Instances |-> 0]
  /\ rpc' = [i \in Instances |-> "new"]
  /\ FreshGroups
  /\ UNCHANGED <<leaving, moving, req, resp, lpc, status>>

-----------------------------------------------------------------------------
(* Tasks of sequence groups: _async_generate_group *)

\* The coroutine begins.  A group that was aborted goes on with the aborted
\* sequences, except those that had reached their length already.
BeginTask(i, g) ==
  /\ g \in running[i] /\ ~begun[g]
  /\ begun' = [begun EXCEPT ![g] = TRUE]
  /\ \E full \in 0 .. cut[g] : completed' = [completed EXCEPT ![g] = @ + full]
  /\ cut' = [cut EXCEPT ![g] = 0]
  /\ UNCHANGED <<manager, req, resp, loops, status, delivered>>

\* The engine returns one finished sequence.
SequenceDone(g) ==
  /\ begun[g] /\ NumRunning(g) > 0
  /\ completed' = [completed EXCEPT ![g] = @ + 1]
  /\ UNCHANGED <<manager, req, resp, loops, status, begun, cut, delivered>>

-----------------------------------------------------------------------------
(* rollout() *)

\* The status of the loop after its body: nothing runs any more, or the
\* next asyncio.wait.
LoopAgain(i, still) ==
  /\ rpc' = [rpc EXCEPT ![i] = IF still = {} THEN "notification" ELSE "wait"]
  /\ awaited' = [awaited EXCEPT ![i] = still]

\* The loop has ended: status_manager.clear() and on to offload_engine.
Leave(i) ==
  /\ rpc' = [rpc EXCEPT ![i] = "offload"]
  /\ running' = [running EXCEPT ![i] = {}]
  /\ aborted' = [aborted EXCEPT ![i] = <<>>]
  /\ event' = [event EXCEPT ![i] = FALSE]
  /\ awaited' = [awaited EXCEPT ![i] = {}]

\* The instance takes its request and its device lock and registers its
\* groups.  Without a group it never enters the loop.
Start(i) ==
  /\ rpc[i] = "new"
  /\ IF Share[i] = {}
     THEN Leave(i)
     ELSE /\ running' = [running EXCEPT ![i] = @ \cup Share[i]]
          /\ LoopAgain(i, Share[i])
          /\ UNCHANGED <<aborted, event>>
  /\ UNCHANGED <<manager, req, resp, lpc, returned, groups>>

\* asyncio.wait(FIRST_COMPLETED) returns.
WaitReturns(i) ==
  /\ rpc[i] = "wait"
  /\ \E g \in awaited[i] : TaskDone(g)
  /\ rpc' = [rpc EXCEPT ![i] = "work"]
  /\ returned' = [returned EXCEPT ![i] = {g \in awaited[i] : TaskDone(g)}]
  /\ awaited' = [awaited EXCEPT ![i] = {}]
  /\ UNCHANGED <<manager, req, resp, lpc, running, aborted, event, groups>>

\* mark_done and mark_aborted take g from the running groups; the loop goes
\* on with the next returned group.
Unmark(i, g) ==
  LET rest == returned[i] \ {g}
      still == running[i] \ {g}
  IN  /\ running' = [running EXCEPT ![i] = still]
      /\ returned' = [returned EXCEPT ![i] = rest]
      /\ IF rest = {} THEN LoopAgain(i, still)
         ELSE /\ rpc' = [rpc EXCEPT ![i] = "work"]
              /\ awaited' = [awaited EXCEPT ![i] = {}]

\* A completed group is put into the output channel; g stays among the
\* running groups until the put has returned.
PutResult(i, g) ==
  /\ rpc[i] = "work" /\ g \in returned[i] /\ AllCompleted(g)
  /\ rpc' = [rpc EXCEPT ![i] = "put"]
  /\ returned' = [returned EXCEPT ![i] = (@ \ {g})]
  /\ delivered' = [delivered EXCEPT ![g] = @ + 1]
  /\ awaited' = [awaited EXCEPT ![i] = {g}]
  /\ UNCHANGED <<manager, req, resp, lpc, running, aborted, event,
                 begun, completed, cut>>

MarkDone(i) ==
  /\ rpc[i] = "put"
  /\ \E g \in awaited[i] : Unmark(i, g)
  /\ UNCHANGED <<manager, req, resp, lpc, aborted, event, groups>>

MarkAborted(i, g) ==
  /\ rpc[i] = "work" /\ g \in returned[i] /\ ~AllCompleted(g)
  /\ aborted' = [aborted EXCEPT ![i] = Append(@, g)]
  /\ Unmark(i, g)
  /\ UNCHANGED <<manager, req, resp, lpc, event, groups>>

\* Mutant: wait_notification does not clear the event.
NotifiedKeepsEvent(i) ==
  /\ rpc[i] = "notification" /\ event[i]
  /\ IF running[i] = {}
     THEN Leave(i)
     ELSE LoopAgain(i, running[i]) /\ UNCHANGED <<running, aborted, event>>
  /\ UNCHANGED <<manager, req, resp, lpc, returned, groups>>

\* wait_notification returns: migrated groups to wait for, or the end.
Notified(i) ==
  /\ rpc[i] = "notification" /\ event[i]
  /\ IF running[i] = {}
     THEN Leave(i)
     ELSE /\ event' = [event EXCEPT ![i] = FALSE]
          /\ LoopAgain(i, running[i])
          /\ UNCHANGED <<running, aborted>>
  /\ UNCHANGED <<manager, req, resp, lpc, returned, groups>>

\* offload_engine, report_offloaded.
Offload(i) ==
  /\ rpc[i] = "offload"
  /\ rpc' = [rpc EXCEPT ![i] = "over"]
  /\ resp' = [resp EXCEPT ![i] = Append(@, [act |-> "offloaded"])]
  /\ UNCHANGED <<manager, req, lpc, status, groups>>

-----------------------------------------------------------------------------
(* main_loop() of RolloutScalingScheduler *)

\* The next request of instance i is of kind act; main_loop goes to next.
Handle(i, act, next) ==
  /\ lpc[i] = "get" /\ req[i] # <<>> /\ Head(req[i]).act = act
  /\ req' = [req EXCEPT ![i] = Tail(@)]
  /\ lpc' = [lpc EXCEPT ![i] = next]

Report(i) ==
  /\ Handle(i, "report", "get")
  /\ resp' = [resp EXCEPT ![i] =
                Append(@, [act |-> "report", running |-> NumSeqRunning(i)])]
  /\ UNCHANGED <<manager, rpc, status, groups>>

\* Mutant: rollout() is notified only after the tasks have been added.
NotifiesLate(i, gs) == running[i] \cup gs = {}

\* rollout() waits for a notification when none of its tasks is running.
NotifiesIn(i, gs) == running[i] = {}

HandleMigrateIn(i) ==
  /\ Handle(i, "migrate_in", "get")
  /\ LET gs == ToSet(Head(req[i]).groups)
     IN  /\ event' = [event EXCEPT ![i] = @ \/ NotifiesIn(i, gs)]
         /\ running' = [running EXCEPT ![i] = @ \cup gs]
         /\ begun' = [g \in Groups |-> begun[g] /\ g \notin gs]
  /\ UNCHANGED <<manager, resp, rpc, aborted, awaited, returned,
                 completed, cut, delivered>>

HandleMigrateOut(i) ==
  /\ Handle(i, "migrate_out", "abort")
  /\ UNCHANGED <<manager, resp, rpc, status, groups>>

\* abort_generation: sequences that the engine has return as aborted, each
\* with the tokens it got so far; one that is still on its way to the engine,
\* or has just finished, is not cut.
Abort(i) ==
  /\ lpc[i] = "abort"
  /\ lpc' = [lpc EXCEPT ![i] = "drain"]
  /\ LET here == {g \in running[i] : begun[g]}
     IN  \E hit \in [here -> 0 .. Max({Size[g] : g \in Groups})] :
           /\ \A g \in here : hit[g] <= NumRunning(g)
           /\ cut' = [g \in Groups |-> IF g \in here THEN cut[g] + hit[g] ELSE cut[g]]
  /\ UNCHANGED <<manager, req, resp, rpc, status, begun, completed, delivered>>

\* Mutant: it is enough that every sequence has returned.
DrainedWhenReturned(i) == \A g \in running[i] : AllReturned(g)

\* _wait_until_no_running_task
Drained(i) == running[i] = {}

SendAborted(i) ==
  /\ lpc[i] = "drain" /\ Drained(i)
  /\ lpc' = [lpc EXCEPT ![i] = "get"]
  /\ resp' = [resp EXCEPT ![i] = Append(@, [act |-> "aborted", groups |-> aborted[i]])]
  /\ UNCHANGED <<manager, req, rpc, status, groups>>

HandleFinish(i) ==
  /\ Handle(i, "finish", "finish")
  /\ UNCHANGED <<manager, resp, rpc, status, groups>>

NotifyFinish(i) ==
  /\ lpc[i] = "finish" /\ Drained(i)
  /\ lpc' = [lpc EXCEPT ![i] = "get"]
  /\ event' = [event EXCEPT ![i] = TRUE]
  /\ UNCHANGED <<manager, req, resp, rpc, running, aborted, awaited, returned, groups>>

-----------------------------------------------------------------------------
ManagerStep ==
  \/ GatherReports \/ GatherOut \/ MigrateIn \/ GatherOffloaded \/ NextGlobalStep

ManagerChoice == AskReports \/ (\E n \in 1 .. N : Migrate(n)) \/ FinishAll

RolloutLoop(i) ==
  \/ Start(i) \/ WaitReturns(i) \/ MarkDone(i) \/ Notified(i) \/ Offload(i)
  \/ \E g \in Groups : PutResult(i, g) \/ MarkAborted(i, g)

SchedulerLoop(i) ==
  \/ Report(i) \/ HandleMigrateIn(i) \/ HandleMigrateOut(i) \/ Abort(i)
  \/ SendAborted(i) \/ HandleFinish(i) \/ NotifyFinish(i)

Task(g) == SequenceDone(g) \/ \E i \in Instances : BeginTask(i, g)

Next ==
  \/ ManagerStep \/ ManagerChoice
  \/ \E i \in Instances : RolloutLoop(i) \/ SchedulerLoop(i)
  \/ \E g \in Groups : Task(g)

Spec == Init /\ [][Next]_vars

\* Every coroutine that can run runs.  Nothing is assumed of the choices of
\* the scheduling policy.
FairSpec ==
  /\ Spec
  /\ WF_vars(ManagerStep)
  /\ \A i \in Instances : WF_vars(RolloutLoop(i)) /\ WF_vars(SchedulerLoop(i))
  /\ \A g \in Groups : WF_vars(Task(g))

-----------------------------------------------------------------------------
(* Properties *)

Kinds == {"report", "migrate_out", "migrate_in", "finish"}

TypeOK ==
  /\ mpc \in {"idle", "report", "reported", "out", "in", "finish", "over"}
  /\ offset \in 0 .. N /\ leaving \in 0 .. N - offset
  /\ reports \in [Instances -> 0 .. MapThenSumSet(LAMBDA g : Size[g], Groups)]
  /\ ToSet(moving) \subseteq Groups
  /\ \A i \in Instances :
       /\ \A m \in ToSet(req[i]) : m.act \in Kinds
       /\ \A m \in ToSet(resp[i]) : m.act \in {"report", "aborted", "offloaded"}
       /\ rpc[i] \in {"new", "wait", "work", "put", "notification", "offload", "over"}
       /\ lpc[i] \in {"get", "abort", "drain", "finish"}
       /\ running[i] \subseteq Groups /\ ToSet(aborted[i]) \subseteq Groups
       /\ awaited[i] \subseteq running[i] /\ returned[i] \subseteq running[i]
       /\ event[i] \in BOOLEAN
  /\ \A g \in Groups :
       /\ begun[g] \in BOOLEAN
       /\ completed[g] \in 0 .. Size[g] /\ cut[g] \in 0 .. Size[g]
       /\ NumRunning(g) >= 0

\* Where a group is: not yet taken by its rollout(), running in an instance,
\* in the list that an instance in Migrate_Out is going to send, on its way
\* to the manager, with it, on its way to an instance, or delivered.
Places(g) ==
  {<<"new", i>> : i \in {j \in Instances : rpc[j] = "new" /\ g \in Share[j]}}
  \cup {<<"running", i>> : i \in {j \in Instances : g \in running[j]}}
  \cup {<<"aborted", i>> : i \in {j \in Instances :
            lpc[j] \in {"abort", "drain"} /\ g \in ToSet(aborted[j])}}
  \cup {<<"out", i>> : i \in {j \in Instances : \E m \in ToSet(resp[j]) :
            m.act = "aborted" /\ g \in ToSet(m.groups)}}
  \cup {<<"manager">> : k \in {n \in DOMAIN moving : moving[n] = g}}
  \cup {<<"in", i>> : i \in {j \in Instances : \E m \in ToSet(req[j]) :
            m.act = "migrate_in" /\ g \in ToSet(m.groups)}}
  \cup {<<"delivered">> : k \in {n \in 1 .. delivered[g] :
            \A i \in Instances : rpc[i] = "put" => g \notin awaited[i]}}

\* However migrations interleave with tasks that end, no group is lost and
\* none is in two places; the result of a group is put into output_channel
\* at most once in a global step (PutResult, migrate_out, migrate_in).
NothingLost ==
  \A g \in Groups : Cardinality(Places(g)) = 1 /\ delivered[g] <= 1

\* The assertions of the code: what the manager gathers is what it asked for
\* (report, migrate_out, finish); no group is left over when rollout() starts
\* and none is added twice (add_task); a group without an aborted sequence
\* starts from nothing (_async_generate_group); nothing runs when Migrate_Out
\* answers, nor remains cut there when the group is in no one's hands.
AssertionsHold ==
  /\ mpc = "report" => \A i \in Alive : resp[i] = <<>> \/ Head(resp[i]).act = "report"
  /\ mpc = "out" => \A i \in Leaving : resp[i] = <<>> \/ Head(resp[i]).act = "aborted"
  /\ mpc = "finish" => \A i \in Leaving : resp[i] = <<>> \/ Head(resp[i]).act = "offloaded"
  /\ \A i \in Instances :
       /\ rpc[i] = "new" => running[i] = {} /\ aborted[i] = <<>>
       /\ \A m \in ToSet(req[i]) :
            m.act = "migrate_in" => ToSet(m.groups) \cap running[i] = {}
       /\ \A g \in running[i] : ~begun[g] /\ cut[g] = 0 => completed[g] = 0
       /\ lpc[i] = "drain" /\ Drained(i) => running[i] = {} /\ NumSeqRunning(i) = 0

\* rollout() never sleeps in wait_notification over groups that a Migrate_In
\* has given it: the event is set (_migrate_in, wait_notification).
NoLostWakeup ==
  \A i \in Instances : rpc[i] = "notification" /\ running[i] # {} => event[i]

\* An instance leaves rollout() only when the manager is finishing it: no
\* notification of an earlier migration or global step lets it go early
\* (sglang_worker.py:453, "rollout should not exit immediately when using
\* auto scheduler because there might be migrations").
LeavesWhenTold ==
  [][\A i \in Instances : rpc'[i] = "offload" /\ rpc[i] # "offload"
                            => mpc = "finish" /\ i \in Leaving]_vars

\* Every group of a global step is delivered in the end, however often it is
\* migrated on the way.
EveryGroupDelivered == \A g \in Groups : delivered[g] = 0 ~> delivered[g] = 1
=============================================================================
